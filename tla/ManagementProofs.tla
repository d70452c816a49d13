---------------------------- MODULE ManagementProofs ----------------------------
(***************************************************************************)
(* Proofs about the management tools for every list of hidden schemas,     *)
(* every text, every limit and every number of queries.                    *)
(***************************************************************************)
EXTENDS Management, NamesProofs, FiniteSetTheorems, WellFoundedInduction, TLAPS

USE HiddenAssumption, BoundAssumption, TextAssumption

--------------------------------------------------------------------------------
(* Hidden names in texts. *)

\* The empty name is under nothing.
LEMMA NothingAbove ==
    ASSUME NEW entries \in SUBSET Name
    PROVE  ~Under(Folded(<<>>), entries)
<1>1. <<>> \in Name /\ Len(Folded(<<>>)) = 0
      BY FoldedName DEF Name
<1>2. \A entry \in Resolved(entries) : Len(entry) \in Nat /\ Len(entry) # 0
  <2>1. SUFFICES ASSUME NEW entry \in entries, entry # <<>>
                 PROVE  Len(Folded(entry)) \in Nat /\ Len(Folded(entry)) # 0
        BY DEF Resolved
  <2>2. QED
        BY <2>1, FoldedName DEF Name
<1>3. QED
      BY <1>1, <1>2 DEF Under

\* A name below a hidden schema that a text spells out with dots is found in it as
\* a piece of text (server.py:98-100).
LEMMA HiddenNameOccurs ==
    ASSUME TypeOK, NEW item \in Item, item.kind = "plain", Under(Folded(item.name), hidden)
    PROVE  \E entry \in hidden : Occurs(entry, item)
<1>1. item.name \in Name /\ hidden \in SUBSET Name
      BY DEF Item, TypeOK
<1>2. MatchesPrefix(item.name, hidden)
      BY <1>1, NothingAbove, MatchesPrefixMeaning
<1>3. PICK entry \in hidden :
          /\ Len(entry) <= Len(item.name)
          /\ \A i \in 1..Len(entry) : Lower[item.name[i]] = Lower[entry[i]]
      BY <1>2 DEF MatchesPrefix
<1>4. /\ Len(entry) \in Nat /\ Len(item.name) \in Nat
      /\ \A i \in 1..Len(entry) : entry[i] \in Components /\ item.name[i] \in Components
      BY <1>1, <1>3 DEF Name
<1>5. 0 \in 0..(Len(item.name) - Len(entry))
      BY <1>3, <1>4
<1>6. \A i \in 1..Len(entry) : entry[i] \in Within[item.name[0 + i]]
      BY <1>3, <1>4, WithinAssumption
<1>7. QED
      BY <1>5, <1>6 DEF Occurs

\* What redact leaves of a text is a part of it.
LEMMA ScrubbedPart ==
    ASSUME TypeOK, NEW q \in Queries
    PROVE  Scrubbed(text[q]) \subseteq Items(text[q]) /\ Items(text[q]) \subseteq Item
<1>1. text[q] \in Seq(Item)
      BY DEF TypeOK
<1>2. QED
      BY <1>1 DEF Scrubbed, Items

--------------------------------------------------------------------------------
(* The slice of the profiles. *)

\* Every non-empty set of queries has an oldest one.
LEMMA OldestQuery ==
    ASSUME NEW T \in SUBSET Queries, T # {}
    PROVE  \E q \in T : \A p \in T : p # q => p > q
<1>1. T \subseteq Nat
      BY DEF Queries
<1>2. PICK q \in T : \A p \in T : ~(<<p, q>> \in OpToRel(<, Nat))
      BY <1>1, NatLessThanWellFounded, WFMin
<1>3. \A p \in T : ~(p < q)
      BY <1>1, <1>2 DEF OpToRel
<1>4. QED
      BY <1>1, <1>3

\* A part of a set smaller than n and one element more has at most n members.
LEMMA OneMore ==
    ASSUME NEW B, IsFiniteSet(B), NEW q, NEW T \in SUBSET (B \cup {q}),
           NEW n \in Nat, Cardinality(B) < n
    PROVE  Cardinality(T) <= n
<1>1. Cardinality(B) \in Nat
      BY FS_CardinalityType
<1>2. IsFiniteSet(B \cup {q}) /\ Cardinality(B \cup {q}) <= Cardinality(B) + 1
      BY <1>1, FS_AddElement
<1>3. Cardinality(B \cup {q}) \in Nat /\ IsFiniteSet(T) /\ Cardinality(T) \in Nat
      BY <1>2, FS_CardinalityType, FS_Subset
<1>4. Cardinality(T) <= Cardinality(B \cup {q})
      BY <1>2, FS_Subset
<1>5. QED
      BY <1>1, <1>2, <1>3, <1>4

\* A set that has fewer than n queries before each of its members, in the order in
\* which Drill lists them, has at most n members.
LEMMA SliceIsShort ==
    ASSUME TypeOK, NEW n \in Nat, NEW T \in SUBSET (running \cup finished),
           \A q \in T : Cardinality(Before(q, running, finished)) < n
    PROVE  IsFiniteSet(T) /\ Cardinality(T) <= n
<1>1. /\ IsFiniteSet(Queries)
      /\ running \cup finished \subseteq Queries /\ running \cap finished = {}
  <2>1. IsFiniteSet(1..MaxQueries)
        BY FS_Interval
  <2>2. QED
        BY <2>1 DEF Queries, TypeOK
<1>2. IsFiniteSet(T)
      BY <1>1, FS_Subset
<1>3. CASE T = {}
      BY <1>3, FS_EmptySet
<1>4. ASSUME T # {}
      PROVE  \E q \in T : T \subseteq Before(q, running, finished) \cup {q}
  <2>1. CASE T \cap finished # {}
    <3>1. PICK q \in T \cap finished : \A p \in T \cap finished : p # q => p > q
          BY <1>1, <2>1, OldestQuery
    <3>2. QED
          BY <1>1, <3>1 DEF Before
  <2>2. CASE T \cap finished = {}
    <3>1. PICK q \in T : \A p \in T : p # q => p > q
          BY <1>1, <1>4, OldestQuery
    <3>2. QED
          BY <2>2, <3>1 DEF Before
  <2>3. QED
        BY <2>1, <2>2
<1>5. CASE T # {}
  <2>1. PICK q \in T : T \subseteq Before(q, running, finished) \cup {q}
        BY <1>4, <1>5
  <2>2. Before(q, running, finished) \subseteq Queries
        BY <1>1 DEF Before
  <2>3. /\ IsFiniteSet(Before(q, running, finished))
        /\ Cardinality(Before(q, running, finished)) < n
        BY <1>1, <2>2, FS_Subset
  <2>4. QED
        BY <1>2, <2>1, <2>3, OneMore
<1>6. QED
      BY <1>2, <1>3, <1>5

--------------------------------------------------------------------------------
(* Type correctness. *)

\* Calls, listings and Drill's sets of queries have the shape of TypeOK, whatever
\* queries begin and end (server.py:210-262).
THEOREM TypeCorrect == Spec => []TypeOK
<1>1. Init => TypeOK
  <2>1. SUFFICES ASSUME Init PROVE TypeOK
        OBVIOUS
  <2>2. text \in [Queries -> Texts]
        BY <2>1 DEF Init
  <2>3. QED
        BY <2>1, <2>2 DEF Init, TypeOK, Listed, Listing, Ended, Endings
<1>2. TypeOK /\ [Next]_vars => TypeOK'
  <2> SUFFICES ASSUME TypeOK, [Next]_vars PROVE TypeOK'
      OBVIOUS
  <2> USE DEF TypeOK, Listed, Ended, Endings, Tools
  <2>1. CASE UNCHANGED vars
        BY <2>1 DEF vars, drillVars
  <2>2. ASSUME NEW q \in Queries, QueryBegins(q) PROVE TypeOK'
    <3>1. text' \in [Queries -> Texts]
          BY <2>2 DEF QueryBegins
    <3>2. QED
          BY <2>2, <3>1 DEF QueryBegins
  <2>3. ASSUME NEW q \in Queries, QueryEnds(q) PROVE TypeOK'
        BY <2>3 DEF QueryEnds
  <2>4. CASE ClusterChanges
        BY <2>4 DEF ClusterChanges
  <2>5. CASE Fails
        BY <2>5 DEF Fails, drillVars
  <2>6. CASE ListStoragePlugins
        BY <2>6 DEF ListStoragePlugins, drillVars
  <2>7. CASE AskCluster
        BY <2>7 DEF AskCluster, drillVars
  <2>8. CASE AskStatus
        BY <2>8 DEF AskStatus, drillVars
  <2>9. ASSUME NEW limit \in Limits, ListProfiles(limit) PROVE TypeOK'
    <3>1. PICK isObject \in BOOLEAN :
              LET shown == Shown(IF isObject THEN Taken(limit) ELSE {})
              IN  listing' = Listing(shown \cap running, shown \cap finished, limit, isObject)
          BY <2>9 DEF ListProfiles
    <3> DEFINE shown == Shown(IF isObject THEN Taken(limit) ELSE {})
    <3>2. shown \subseteq running \cup finished
          BY DEF Shown, Taken
    <3>3. listing' = [running |-> shown \cap running, finished |-> shown \cap finished,
                      limit |-> limit, isObject |-> isObject,
                      drill |-> [running |-> running, finished |-> finished]]
          BY <3>1 DEF Listing
    <3> HIDE DEF shown
    <3>4. QED
          BY <2>9, <3>2, <3>3 DEF ListProfiles, drillVars
  <2>10. ASSUME NEW id \in Queries, GetProfile(id) PROVE TypeOK'
    <3>1. PICK isObject \in BOOLEAN :
              call' = [tool |-> "get_profile", id |-> id, isObject |-> isObject,
                       ending |-> IF isObject /\ Mentions(Items(text[id]))
                                  THEN "hidden" ELSE "answered"]
          BY <2>10 DEF GetProfile
    <3>2. QED
          BY <2>10, <3>1 DEF GetProfile, drillVars
  <2>11. ASSUME NEW id \in Queries, CancelQuery(id) PROVE TypeOK'
         BY <2>11 DEF CancelQuery
  <2>12. QED
         BY <2>1, <2>2, <2>3, <2>4, <2>5, <2>6, <2>7, <2>8, <2>9, <2>10, <2>11 DEF Next
<1>3. QED
      BY <1>1, <1>2, PTL DEF Spec

--------------------------------------------------------------------------------
(* The tools. *)

\* What Drill returns is filtered by name, and an entry without one is dropped
\* (server.py:102-110, 217-219).
THEOREM NoHiddenPlugin == Spec => []HiddenPluginsOmitted
<1>1. Init => HiddenPluginsOmitted
      BY DEF Init, HiddenPluginsOmitted, Answered, Ended
<1>2. TypeOK /\ HiddenPluginsOmitted /\ [Next]_vars => HiddenPluginsOmitted'
  <2> SUFFICES ASSUME TypeOK, HiddenPluginsOmitted, [Next]_vars PROVE HiddenPluginsOmitted'
      OBVIOUS
  <2>1. hidden' = hidden
        BY DEF Next, QueryBegins, QueryEnds, ClusterChanges, Fails, ListStoragePlugins, AskCluster,
               AskStatus, ListProfiles, GetProfile, CancelQuery, vars
  <2>2. CASE call' = call
        BY <2>1, <2>2 DEF HiddenPluginsOmitted, Answered
  <2>3. CASE ListStoragePlugins
    <3>1. \A payload \in Payloads \ {Scalar} : \A plugin \in payload \ {NotADict} :
              VisiblePlugin(plugin) => plugin # NoName /\ ~Under(Folded(plugin), hidden)
      <4>1. SUFFICES ASSUME NEW plugin \in Name, ~MatchesPrefix(plugin, hidden)
                     PROVE  ~Under(Folded(plugin), hidden)
            BY PayloadAssumption DEF VisiblePlugin
      <4>2. QED
            BY <4>1, MatchesPrefixMeaning, NothingAbove DEF TypeOK
    <3>2. QED
          BY <2>1, <2>3, <3>1 DEF ListStoragePlugins, HiddenPluginsOmitted, Answered, Ended
  <2>4. CASE ~ListStoragePlugins /\ call' # call
        BY <2>4 DEF HiddenPluginsOmitted, Answered, Ended, Next, QueryBegins, QueryEnds,
                    ClusterChanges, Fails, AskCluster, AskStatus, ListProfiles, GetProfile,
                    CancelQuery, vars, Tools
  <2>5. QED
        BY <2>2, <2>3, <2>4
<1>3. QED
      BY <1>1, <1>2, TypeCorrect, PTL DEF Spec

\* What the two comparisons with the hidden schemas have found, the one before and
\* the other after redact, stays true while Drill goes on.
TextInv ==
    /\ call.ending = "hidden" => call.tool = "get_profile"
    /\ \A q \in Listed : ~Mentions(Scrubbed(text[q]))
    /\ call.tool = "get_profile" /\ call.ending # "toolError" =>
           /\ call.id \in running \cup finished
           /\ call.ending = "hidden" <=> call.isObject /\ Mentions(Items(text[call.id]))

\* The text of a query does not change after it has begun.
LEMMA TextsStay ==
    ASSUME TypeOK, [Next]_vars
    PROVE  /\ hidden' = hidden /\ running \cup finished \subseteq running' \cup finished'
           /\ \A q \in running \cup finished : text'[q] = text[q]
  BY DEF TypeOK, Next, QueryBegins, QueryEnds, ClusterChanges, Fails, ListStoragePlugins,
         AskCluster, AskStatus, ListProfiles, GetProfile, CancelQuery, vars, drillVars

LEMMA TextsCorrect == Spec => []TextInv
<1>1. Init => TextInv
      BY DEF Init, TextInv, Listed, Listing, Ended
<1>2. TypeOK /\ TextInv /\ [Next]_vars => TextInv'
  <2> SUFFICES ASSUME TypeOK, TextInv, [Next]_vars PROVE TextInv'
      OBVIOUS
  <2>1. /\ hidden' = hidden
        /\ running \cup finished \subseteq running' \cup finished'
        /\ \A q \in running \cup finished : text'[q] = text[q]
        BY TextsStay
  <2>2. /\ \A q \in running \cup finished : Scrubbed(text'[q]) = Scrubbed(text[q])
        /\ \A q \in running \cup finished : Items(text'[q]) = Items(text[q])
        BY <2>1
  <2>3. \A items : Mentions(items)' <=> Mentions(items)
        BY <2>1 DEF Mentions
  <2>4. CASE call' = call /\ listing' = listing
        BY <2>1, <2>2, <2>3, <2>4 DEF TextInv, Listed, TypeOK
  <2>5. ASSUME UNCHANGED <<drillVars, listing>>,
               call'.ending # "hidden",
               call'.tool # "get_profile" \/ call'.ending = "toolError"
        PROVE  TextInv'
        BY <2>1, <2>5 DEF TextInv, Listed, drillVars, Mentions
  <2>6. ASSUME NEW id \in Queries, GetProfile(id) PROVE TextInv'
    <3>1. PICK isObject \in BOOLEAN :
              call' = [tool |-> "get_profile", id |-> id, isObject |-> isObject,
                       ending |-> IF isObject /\ Mentions(Items(text[id]))
                                  THEN "hidden" ELSE "answered"]
          BY <2>6 DEF GetProfile
    <3>2. QED
          BY <2>1, <2>3, <2>6, <3>1 DEF GetProfile, TextInv, Listed, drillVars
  <2>7. ASSUME NEW limit \in Limits, ListProfiles(limit) PROVE TextInv'
    <3>1. PICK taken :
              LET shown == Shown(taken)
              IN  /\ listing'.running = shown \cap running
                  /\ listing'.finished = shown \cap finished
          BY <2>7 DEF ListProfiles, Listing
    <3>2. \A q \in Listed' : ~Mentions(Scrubbed(text[q]))
          BY <3>1 DEF Shown, Listed
    <3>3. QED
          BY <2>1, <2>3, <2>7, <3>2 DEF ListProfiles, TextInv, Listed, drillVars, Ended
  <2>8. ASSUME NEW id \in Queries, CancelQuery(id) PROVE TextInv'
        BY <2>1, <2>2, <2>3, <2>8 DEF CancelQuery, TextInv, Listed, TypeOK
  <2>9. QED
        BY <2>4, <2>5, <2>6, <2>7, <2>8
           DEF Next, QueryBegins, QueryEnds, ClusterChanges, Fails, ListStoragePlugins,
               AskCluster, AskStatus, vars, drillVars, Ended
<1>3. QED
      BY <1>1, <1>2, TypeCorrect, PTL DEF Spec

\* No profile with a name below a hidden schema in its text is returned, spelled with
\* dots in any case (server.py:80-100, 236-253).
THEOREM NoHiddenText == Spec => []HiddenTextNotShown
<1>1. TypeOK /\ TextInv => HiddenTextNotShown
  <2>1. SUFFICES ASSUME TypeOK, TextInv,
                        NEW q \in Queries, Shows(q),
                        NEW item \in Scrubbed(text[q]), item.kind = "plain",
                        Under(Folded(item.name), hidden)
                 PROVE  FALSE
        BY DEF HiddenTextNotShown
  <2>2. ~Mentions(Scrubbed(text[q])) \/ ~Mentions(Items(text[q]))
        BY <2>1 DEF TextInv, Shows, Answered
  <2>3. item \in Items(text[q]) /\ item \in Item
        BY <2>1, ScrubbedPart
  <2>4. QED
        BY <2>1, <2>2, <2>3, HiddenNameOccurs DEF Mentions
<1>2. QED
      BY <1>1, TypeCorrect, TextsCorrect, PTL

\* get_profile returns what list_profiles has listed, unless redact has taken away
\* what get_profile compares (server.py:236-253).
THEOREM ListedIsFetched == Spec => []ListedCanBeFetched
<1>1. TextInv => ListedCanBeFetched
      BY DEF TextInv, ListedCanBeFetched
<1>2. QED
      BY <1>1, TextsCorrect, PTL

\* An answer of list_profiles is short enough, and what it lacks is hidden or comes
\* after as many others, for every limit (client_rest.py:650-658).
THEOREM ListingIsComplete == Spec => []ListingComplete
<1>1. Init => ListingComplete
  <2>1. Cardinality({}) = 0
        BY FS_EmptySet
  <2>2. QED
        BY <2>1 DEF Init, ListingComplete, Listing, Listed
<1>2. TypeOK /\ ListingComplete /\ [Next]_vars => ListingComplete'
  <2> SUFFICES ASSUME TypeOK, ListingComplete, [Next]_vars PROVE ListingComplete'
      OBVIOUS
  <2>1. /\ hidden' = hidden
        /\ \A q \in listing.drill.running \cup listing.drill.finished : text'[q] = text[q]
        BY TextsStay DEF TypeOK
  <2>2. CASE listing' = listing
        BY <2>1, <2>2 DEF ListingComplete, Listed, Mentions
  <2>3. ASSUME NEW limit \in Limits, ListProfiles(limit) PROVE ListingComplete'
    <3> DEFINE room == IF limit > 0 THEN limit ELSE 0
               all == running \cup finished
    <3>1. PICK isObject \in BOOLEAN :
              LET shown == Shown(IF isObject THEN Taken(limit) ELSE {})
              IN  listing' = Listing(shown \cap running, shown \cap finished, limit, isObject)
          BY <2>3 DEF ListProfiles
    <3> DEFINE shown == Shown(IF isObject THEN Taken(limit) ELSE {})
    <3>2. /\ Taken(limit) = {q \in all : Cardinality(Before(q, running, finished)) < room}
          /\ room \in Nat
      <4>1. \A n : SliceLength(Clamped(limit), n) = room /\ limit \in Int
            BY DEF SliceLength, Clamped
      <4>2. QED
            BY <4>1 DEF Taken
    <3>3. /\ shown \subseteq all /\ \A q \in shown : Cardinality(Before(q, running, finished)) < room
          /\ \A q \in (IF isObject THEN Taken(limit) ELSE {}) \ shown : Mentions(Scrubbed(text[q]))
          BY <3>2 DEF Shown
    <3>4. /\ listing' = [running |-> shown \cap running, finished |-> shown \cap finished,
                         limit |-> limit, isObject |-> isObject,
                         drill |-> [running |-> running, finished |-> finished]]
          /\ UNCHANGED drillVars
          BY <2>3, <3>1 DEF Listing, ListProfiles
    <3> HIDE DEF shown, room
    <3>5. Listed' = shown
          BY <3>3, <3>4 DEF Listed
    <3>6. Cardinality(shown) <= room
          BY <3>2, <3>3, SliceIsShort
    <3>7. ASSUME isObject, NEW q \in all \ shown
          PROVE  Mentions(Scrubbed(text[q])) \/ Cardinality(Before(q, running, finished)) >= room
      <4>1. CASE q \in Taken(limit)
            BY <3>3, <3>7, <4>1
      <4>2. CASE q \notin Taken(limit)
        <5>1. Cardinality(Before(q, running, finished)) \in Nat
          <6>1. IsFiniteSet(1..MaxQueries)
                BY FS_Interval
          <6>2. Before(q, running, finished) \subseteq 1..MaxQueries
                BY DEF Before, TypeOK, Queries
          <6>3. QED
                BY <6>1, <6>2, FS_Subset, FS_CardinalityType
        <5>2. QED
              BY <3>2, <3>7, <4>2, <5>1
      <4>3. QED
            BY <4>1, <4>2
    <3>8. QED
          BY <2>1, <3>4, <3>5, <3>6, <3>7
             DEF ListingComplete, drillVars, Mentions, room
  <2>4. QED
        BY <2>2, <2>3
           DEF Next, QueryBegins, QueryEnds, ClusterChanges, Fails, ListStoragePlugins,
               AskCluster, AskStatus, GetProfile, CancelQuery, vars
<1>3. QED
      BY <1>1, <1>2, TypeCorrect, PTL DEF Spec

\* Both bodies are of versions the cluster has had, the first of the earlier one.
OrderInv ==
    /\ call.ending = "halfway" =>
           \E early \in 0..version, isObject \in BOOLEAN :
               call.cluster = IF isObject THEN [drillbits |-> early, shared |-> early]
                              ELSE [cluster |-> early]
    /\ Answered("cluster_status") =>
           \E early, late \in 0..version, isObject, alsoObject \in BOOLEAN :
               /\ early <= late
               /\ call.cluster = IF isObject THEN [drillbits |-> early, shared |-> early]
                                 ELSE [cluster |-> early]
               /\ call.status = IF alsoObject THEN [status |-> late, shared |-> late]
                                ELSE [status |-> late]
               /\ call.merged = Merge(call.cluster, call.status)

\* The merged answer of cluster_status keeps every key and prefers the later body,
\* and mixes two moments only if the cluster has changed (client_rest.py:636-648).
THEOREM StatusInOrder == Spec => []ClusterStatusInOrder
<1>1. Init => OrderInv
      BY DEF Init, OrderInv, Ended, Answered
<1>2. TypeOK /\ OrderInv /\ [Next]_vars => OrderInv'
  <2> SUFFICES ASSUME TypeOK, OrderInv, [Next]_vars PROVE OrderInv'
      OBVIOUS
  <2>1. /\ version \in Nat /\ version' \in Nat /\ version <= version'
        /\ version' # version => call' = call
        BY DEF TypeOK, Next, QueryBegins, QueryEnds, ClusterChanges, Fails, ListStoragePlugins,
               AskCluster, AskStatus, ListProfiles, GetProfile, CancelQuery, vars, drillVars
  <2>2. 0..version \subseteq 0..version'
        BY <2>1
  <2>3. CASE call' = call
        BY <2>2, <2>3 DEF OrderInv, Answered
  <2>4. CASE AskCluster
        BY <2>1, <2>4 DEF AskCluster, OrderInv, Answered, ClusterBody, drillVars
  <2>5. CASE AskStatus
    <3>1. PICK early \in 0..version, isObject \in BOOLEAN :
              call.cluster = IF isObject THEN [drillbits |-> early, shared |-> early]
                             ELSE [cluster |-> early]
          BY <2>5 DEF AskStatus, OrderInv, Idle
    <3>2. PICK alsoObject \in BOOLEAN :
              call' = [tool |-> "cluster_status", ending |-> "answered",
                       cluster |-> call.cluster, status |-> StatusBody(alsoObject),
                       merged |-> Merge(call.cluster, StatusBody(alsoObject))]
          BY <2>5 DEF AskStatus
    <3>3. early <= version /\ version \in 0..version /\ version' = version
          BY <2>1, <2>5, <3>1 DEF AskStatus, drillVars
    <3>4. /\ call'.ending = "answered"
          /\ call'.cluster = call.cluster /\ call'.status = StatusBody(alsoObject)
          /\ call'.merged = Merge(call'.cluster, call'.status)
          BY <3>2
    <3>5. QED
          BY <3>1, <3>3, <3>4 DEF OrderInv, Answered, StatusBody
  <2>6. CASE call'.ending # "halfway" /\ ~Answered("cluster_status")'
        BY <2>6 DEF OrderInv
  <2>7. QED
        BY <2>3, <2>4, <2>5, <2>6
           DEF Next, QueryBegins, QueryEnds, ClusterChanges, Fails, ListStoragePlugins,
               ListProfiles, GetProfile, CancelQuery, vars, Ended, Answered
<1>3. TypeOK /\ OrderInv => ClusterStatusInOrder
  <2>1. SUFFICES ASSUME TypeOK, OrderInv, Answered("cluster_status") PROVE ClusterStatusInOrder
        BY DEF ClusterStatusInOrder
  <2> DEFINE first == call.cluster
             second == call.status
  <2>2. PICK early, late \in 0..version, isObject, alsoObject \in BOOLEAN :
            /\ early <= late
            /\ first = IF isObject THEN [drillbits |-> early, shared |-> early]
                       ELSE [cluster |-> early]
            /\ second = IF alsoObject THEN [status |-> late, shared |-> late]
                        ELSE [status |-> late]
            /\ call.merged = Merge(first, second)
        BY <2>1 DEF OrderInv
  <2> HIDE DEF first, second
  <2>3. early \in Int /\ late \in Int /\ version \in Int /\ early <= late /\ late <= version
        BY <2>1, <2>2 DEF TypeOK
  <2>4. /\ DOMAIN first = IF isObject THEN {"drillbits", "shared"} ELSE {"cluster"}
        /\ \A k \in DOMAIN first : first[k] = early
        BY <2>2
  <2>5. /\ DOMAIN second = IF alsoObject THEN {"status", "shared"} ELSE {"status"}
        /\ \A k \in DOMAIN second : second[k] = late
        BY <2>2
  <2>6. call.merged = [k \in DOMAIN first \cup DOMAIN second |->
                           IF k \in DOMAIN second THEN second[k] ELSE first[k]]
        BY <2>2 DEF Merge, Updated
  <2>7. /\ DOMAIN call.merged = DOMAIN first \cup DOMAIN second
        /\ \A k \in DOMAIN second : call.merged[k] = late
        /\ \A k \in DOMAIN first \ DOMAIN second : call.merged[k] = early
        BY <2>4, <2>5, <2>6
  <2>8. \E k \in DOMAIN first : first[k] = early
        BY <2>4
  <2>9. QED
        BY <2>3, <2>4, <2>5, <2>7, <2>8 DEF ClusterStatusInOrder, first, second
<1>4. QED
      BY <1>1, <1>2, <1>3, TypeCorrect, PTL DEF Spec
================================================================================
