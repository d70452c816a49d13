----------------------------- MODULE RunQueryProofs -----------------------------
(***************************************************************************)
(* Proofs about the guard and run_query for every policy, every set of     *)
(* name components and every text: what Guard!Check decides on the         *)
(* spelling of a text, restated as what Drill, which folds case, would     *)
(* change and look into.                                                   *)
(***************************************************************************)
EXTENDS RunQuery, NamesProofs, FiniteSetTheorems, TLAPS

--------------------------------------------------------------------------------
\* What the two parts of a table's name show of its schema (guard.py:262-263).
LEMMA PrefixOfTable ==
    ASSUME NEW t \in Table, NEW entries \in SUBSET Name
    PROVE  /\ t.schema \in Name
           /\ SchemaPrefix(t) = <<>> => t.schema = <<>>
           /\ MatchesPrefix(SchemaPrefix(t), entries) => MatchesPrefix(t.schema, entries)
           /\ MatchesPrefix(t.schema, Short(entries)) => MatchesPrefix(SchemaPrefix(t), entries)
<1>1. /\ t.schema \in Name /\ t.seen \in Nat
      /\ t.seen <= Len(t.schema) /\ (t.seen = Len(t.schema) \/ t.seen >= 2)
      BY DEF Table
<1>2. QED
      BY <1>1, HeadMatches DEF SchemaPrefix, Short

\* If a name lies under an entry, the head of the entry is a word of the text
\* that contains the name (guard.py:275-284).
LEMMA HeadOfMatch ==
    ASSUME NEW t, SqlText(t), NEW name \in Name, NEW entries \in SUBSET Name,
           \/ name \in t.mentions
           \/ \E table \in t.targets \cup t.embedded \cup t.tables : name = table.schema,
           MatchesPrefix(name, entries)
    PROVE  \E entry \in entries : HeadMentioned(entry, t)
<1>1. PICK entry \in entries : /\ entry # <<>> /\ Len(entry) <= Len(name)
                               /\ \A i \in 1..Len(entry) : Lower[name[i]] = Lower[entry[i]]
      BY DEF MatchesPrefix
<1>2. entry \in Seq(Components) /\ name \in Seq(Components)
      BY DEF Name
<1>3. 1 \in 1..Len(entry) /\ 1 \in DOMAIN name
      BY <1>1, <1>2
<1>4. Lower[name[1]] = Lower[entry[1]]
      BY <1>1, <1>3
<1>5. Lower[name[1]] \in Words(t)
      BY <1>3 DEF Words
<1>6. QED
      BY <1>4, <1>5 DEF HeadMentioned

\* A name in a permitted command is not hidden, whatever it is the name of.
LEMMA CheckedCommand ==
    ASSUME NEW t, SqlText(t), NEW p \in Policy, Check(t, p), IsCommand(t, 0),
           NEW name \in Name,
           \/ name \in t.mentions
           \/ \E table \in t.targets \cup t.embedded \cup t.tables : name = table.schema
    PROVE  ~MatchesPrefix(name, p.hidden)
<1>1. CheckHidden(t, p, 0)
      BY DEF Check, CheckAt, SqlText
<1>2. p.hidden \in SUBSET Name
      BY DEF Policy
<1>3. QED
      BY <1>1, <1>2, HeadOfMatch DEF CheckHidden

\* A permitted text writes only where the policy lets it (guard.py:186-235,
\* 262-284).
LEMMA CheckedWrites ==
    ASSUME NEW t, SqlText(t), NEW p \in Policy, Check(t, p), NEW schema \in Writes(t)
    PROVE  Under(schema, p.writable) /\ ~Under(schema, KeptFrom(t, p))
<1>1. CheckAt(t, p, t.explains) /\ ~IsExplain(t, t.explains)
      BY DEF Check, SqlText, IsExplain
<1>2. PICK table \in t.targets \cup t.embedded :
          table.schema # <<>> /\ schema = Folded(table.schema)
      BY DEF Writes, Schemas, Resolved, Folded
<1>3. /\ table \in Table /\ p.writable \in SUBSET Name /\ p.hidden \in SUBSET Name
      /\ Short(p.hidden) \in SUBSET Name
      BY DEF SqlText, Policy, Short
<1>4. t.kind \in {"create", "drop"} /\ CheckTargets(t, p) /\ table \in t.targets
      BY <1>1, <1>2 DEF CheckAt, CheckWrite, OneStatement, SqlText
<1>5. MatchesPrefix(table.schema, p.writable)
      BY <1>3, <1>4, PrefixOfTable DEF CheckTargets
<1>6. ~MatchesPrefix(table.schema, Short(p.hidden))
  <2>1. ~MatchesPrefix(SchemaPrefix(table), p.hidden)
        BY <1>1, <1>4 DEF CheckAt, CheckHidden, ParsedTables, IsCommand
  <2>2. QED
        BY <1>3, <2>1, PrefixOfTable
<1>7. ~MatchesPrefix(table.schema, KeptFrom(t, p))
  <2>1. CASE IsCommand(t, 0)
        BY <1>3, <2>1, CheckedCommand, PrefixOfTable DEF KeptFrom
  <2>2. CASE ~IsCommand(t, 0)
        BY <1>6, <2>2 DEF KeptFrom
  <2>3. QED
        BY <2>1, <2>2
<1>8. table.schema \in Name /\ KeptFrom(t, p) \in SUBSET Name
      BY <1>3, PrefixOfTable DEF KeptFrom
<1>9. QED
      BY <1>2, <1>3, <1>5, <1>7, <1>8, MatchesPrefixMeaning

\* A permitted text looks into no hidden schema that the guard can see.
LEMMA CheckedReads ==
    ASSUME NEW t, SqlText(t), NEW p \in Policy, Check(t, p), NEW schema \in Reads(t)
    PROVE  ~Under(schema, KeptFrom(t, p))
<1>1. CheckAt(t, p, t.explains) /\ ~IsExplain(t, t.explains)
      BY DEF Check, SqlText, IsExplain
<1>2. PICK name :
          /\ \/ \E table \in t.tables : name = table.schema
             \/ t.kind = "command" /\ name \in t.mentions
          /\ name # <<>> /\ schema = Folded(name)
      BY DEF Reads, Schemas, Resolved, Folded
<1>3. /\ name \in Name /\ p.hidden \in SUBSET Name /\ Short(p.hidden) \in SUBSET Name
      /\ KeptFrom(t, p) \in SUBSET Name
      BY <1>2 DEF SqlText, Table, Policy, Short, KeptFrom
<1>4. ~MatchesPrefix(name, KeptFrom(t, p))
  <2>1. CASE IsCommand(t, 0)
        BY <1>2, <1>3, <2>1, CheckedCommand DEF KeptFrom
  <2>2. CASE ~IsCommand(t, 0)
    <3>1. t.explains = 0 /\ t.kind # "command"
          BY <2>2 DEF IsCommand, IsExplain, SqlText
    <3>2. PICK table \in t.tables : name = table.schema
          BY <1>2, <3>1
    <3>3. table \in Table /\ ~MatchesPrefix(SchemaPrefix(table), p.hidden)
          BY <1>1, <3>1 DEF CheckAt, CheckHidden, ParsedTables, IsCommand, SqlText
    <3>4. ~MatchesPrefix(table.schema, Short(p.hidden))
          BY <1>3, <3>3, PrefixOfTable
    <3>5. QED
          BY <2>2, <3>2, <3>4 DEF KeptFrom
  <2>3. QED
        BY <2>1, <2>2
<1>5. QED
      BY <1>2, <1>3, <1>4, MatchesPrefixMeaning

\* What a plain statement is refused for is there on Drill's side (guard.py:83-97,
\* 186-235, 262-273).
LEMMA RefusedReads ==
    ASSUME NEW t, SqlText(t), NEW p \in Policy, t.explains = 0,
           t.kind \in {"read", "create", "drop"}, t.embedded = {}, ~CheckHidden(t, p, 0)
    PROVE  \E schema \in Reads(t) \cup Writes(t) : Under(schema, p.hidden)
<1>1. PICK table \in t.targets \cup t.tables : MatchesPrefix(SchemaPrefix(table), p.hidden)
      BY DEF CheckHidden, ParsedTables, IsCommand, IsExplain
<1>2. table \in Table /\ p.hidden \in SUBSET Name
      BY <1>1 DEF SqlText, Policy
<1>3. table.schema \in Name /\ MatchesPrefix(table.schema, p.hidden)
      BY <1>1, <1>2, PrefixOfTable
<1>4. table.schema # <<>>
      BY <1>3 DEF MatchesPrefix
<1>5. Under(Folded(table.schema), p.hidden)
      BY <1>2, <1>3, <1>4, MatchesPrefixMeaning
<1>6. Folded(table.schema) \in Reads(t) \cup Writes(t)
      BY <1>1, <1>4 DEF Reads, Writes, Schemas, Resolved
<1>7. QED
      BY <1>5, <1>6

LEMMA RefusedWrites ==
    ASSUME NEW t, SqlText(t), NEW p \in Policy, t.explains = 0,
           t.kind \in {"create", "drop"}, ~CheckWrite(t, p, 0)
    PROVE  \/ t.object \notin {"TABLE", "VIEW"}
           \/ t.targets = {} \/ \E table \in t.targets : table.schema = <<>>
           \/ \E schema \in Writes(t) : ~Under(schema, Short(p.writable))
<1> SUFFICES ASSUME t.object \in {"TABLE", "VIEW"}, t.targets # {},
                    \A table \in t.targets : table.schema # <<>>
             PROVE  \E schema \in Writes(t) : ~Under(schema, Short(p.writable))
    OBVIOUS
<1>1. PICK table \in t.targets : ~MatchesPrefix(SchemaPrefix(table), p.writable)
      BY DEF CheckWrite, CheckTargets, IsExplain
<1>2. /\ table \in Table /\ table.schema # <<>>
      /\ p.writable \in SUBSET Name /\ Short(p.writable) \in SUBSET Name
      BY DEF SqlText, Policy, Short
<1>3. table.schema \in Name /\ ~MatchesPrefix(table.schema, Short(p.writable))
      BY <1>1, <1>2, PrefixOfTable
<1>4. ~Under(Folded(table.schema), Short(p.writable))
      BY <1>2, <1>3, MatchesPrefixMeaning
<1>5. Folded(table.schema) \in Writes(t)
      BY <1>2 DEF Writes, Schemas, Resolved
<1>6. QED
      BY <1>4, <1>5

\* A policy that lists more writable and fewer hidden names permits no less: an
\* operator who removes an entry of writable_plugins or adds one to hidden_schemas
\* never opens anything (guard.py:154-284).
THEOREM PolicyMonotone ==
    ASSUME NEW t, SqlText(t), NEW p \in Policy, NEW q \in Policy,
           p.writable \subseteq q.writable, q.hidden \subseteq p.hidden,
           Check(t, p)
    PROVE  Check(t, q)
<1>1. ASSUME NEW name
      PROVE  /\ MatchesPrefix(name, p.writable) => MatchesPrefix(name, q.writable)
             /\ MatchesPrefix(name, q.hidden) => MatchesPrefix(name, p.hidden)
      BY DEF MatchesPrefix
<1>2. ASSUME NEW d \in 0..t.explains PROVE CheckAt(t, q, d)
  <2>1. CheckAt(t, p, d)
        BY DEF Check
  <2>2. CheckHidden(t, q, d)
        BY <1>1, <2>1 DEF CheckAt, CheckHidden
  <2>3. CheckWrite(t, q, d)
        BY <1>1, <2>1 DEF CheckAt, CheckWrite, CheckTargets
  <2>4. QED
        BY <2>1, <2>2, <2>3 DEF CheckAt
<1>3. QED
      BY <1>2 DEF Check

--------------------------------------------------------------------------------
(* Drill has run nothing, or a text that the policy permits.                   *)
PermittedInv ==
    /\ text \in Texts /\ policy \in Policies
    /\ stage \in {"check", "refused"} => changed = {} /\ read = {}
    /\ stage = "refused" => ~Check(text, policy)
    /\ stage \notin {"check", "refused"} => Check(text, policy)
    /\ changed \in {{}, Writes(text)} /\ read \in {{}, Reads(text)}

\* What run_query lets through to Drill has passed the guard (server.py:121-139).
THEOREM PermittedOnly == Spec => []PermittedInv
<1>1. Init => PermittedInv
      BY DEF Init, PermittedInv
<1>2. PermittedInv /\ [Next]_vars => PermittedInv'
  <2> SUFFICES ASSUME PermittedInv, [Next]_vars PROVE PermittedInv'
      OBVIOUS
  <2> USE DEF PermittedInv, callVars
  <2>1. CASE CheckPolicy
        BY <2>1 DEF CheckPolicy
  <2>2. CASE Query
        BY <2>2 DEF Query
  <2>3. CASE QueryFails
        BY <2>3 DEF QueryFails
  <2>4. CASE RunsLate \/ PayloadNotAnObject
        BY <2>4 DEF RunsLate, PayloadNotAnObject
  <2>5. CASE Reply
        BY <2>5 DEF Reply
  <2>6. CASE UNCHANGED vars
        BY <2>6 DEF vars
  <2>7. QED
        BY <2>1, <2>2, <2>3, <2>4, <2>5, <2>6 DEF Next
<1>3. QED
      BY <1>1, <1>2, PTL DEF Spec

\* Drill is made to change nothing outside writable_plugins, and nothing in a hidden
\* schema that the guard can see.
THEOREM OnlyWritableChangedCorrect == Spec => []OnlyWritableChanged
<1>1. PermittedInv => OnlyWritableChanged
  <2> SUFFICES ASSUME PermittedInv, NEW schema \in changed
               PROVE  Under(schema, policy.writable) /\ ~Under(schema, KeptFrom(text, policy))
      BY DEF OnlyWritableChanged
  <2>1. SqlText(text) /\ policy \in Policy
        BY TextAssumption, PolicyAssumption DEF PermittedInv
  <2>2. Check(text, policy) /\ schema \in Writes(text)
        BY DEF PermittedInv
  <2>3. QED
        BY <2>1, <2>2, CheckedWrites
<1>2. QED
      BY <1>1, PermittedOnly, PTL

\* Drill is made to look into no hidden schema that the guard can see.
THEOREM HiddenStaysUnreadCorrect == Spec => []HiddenStaysUnread
<1>1. PermittedInv => HiddenStaysUnread
  <2> SUFFICES ASSUME PermittedInv, NEW schema \in read
               PROVE  ~Under(schema, KeptFrom(text, policy))
      BY DEF HiddenStaysUnread
  <2>1. SqlText(text) /\ policy \in Policy
        BY TextAssumption, PolicyAssumption DEF PermittedInv
  <2>2. Check(text, policy) /\ schema \in Reads(text)
        BY DEF PermittedInv
  <2>3. QED
        BY <2>1, <2>2, CheckedReads
<1>2. QED
      BY <1>1, PermittedOnly, PTL

\* A plain read or write is refused only for what it would do on Drill's side.
THEOREM RefusedForAReasonCorrect == Spec => []RefusedForAReason
<1>1. PermittedInv => RefusedForAReason
  <2> SUFFICES ASSUME PermittedInv, stage = "refused", text.explains = 0,
                      text.kind \in {"read", "create", "drop"}, text.embedded = {}
               PROVE  \/ \E schema \in Reads(text) \cup Writes(text) : Under(schema, policy.hidden)
                      \/ /\ text.kind # "read"
                         /\ \/ text.object \notin {"TABLE", "VIEW"}
                            \/ text.targets = {} \/ \E t \in text.targets : t.schema = <<>>
                            \/ \E schema \in Writes(text) : ~Under(schema, Short(policy.writable))
      BY DEF RefusedForAReason
  <2>1. SqlText(text) /\ policy \in Policy
        BY TextAssumption, PolicyAssumption DEF PermittedInv
  <2>2. ~CheckAt(text, policy, 0)
        BY DEF PermittedInv, Check
  <2>3. OneStatement(text, 0)
        BY DEF OneStatement
  <2>4. CASE ~CheckHidden(text, policy, 0)
        BY <2>1, <2>4, RefusedReads
  <2>5. CASE ~CheckWrite(text, policy, 0)
    <3>1. text.kind # "read"
          BY <2>5 DEF CheckWrite, IsExplain
    <3>2. QED
          BY <2>1, <2>5, <3>1, RefusedWrites
  <2>6. QED
        BY <2>2, <2>3, <2>4, <2>5 DEF CheckAt
<1>2. QED
      BY <1>1, PermittedOnly, PTL

--------------------------------------------------------------------------------
(* The rows of the answer that are left, at each stage.                        *)
RowsInv ==
    /\ TypeOK
    /\ stage # "check" /\ stage # "refused" => limit = EffectiveMaxRows(requested)
    /\ stage \in {"filter", "returned"} => \A i \in rows : i <= limit
    /\ stage = "filter" /\ ~truncated => rows = 1..Len(answer)
    /\ HiddenNotListed
    /\ NothingMissing

\* Positions up to the limit survive the second cap, which removes none of them.
LEMMA FirstRowsOfFew ==
    ASSUME limit \in Nat, NEW some, some \subseteq 1..limit
    PROVE  FirstRows(some) = some
<1>1. ASSUME NEW i \in some PROVE Cardinality({j \in some : j <= i}) <= limit
  <2>1. {j \in some : j <= i} \subseteq 1..limit
        OBVIOUS
  <2>2. IsFiniteSet(1..limit) /\ Cardinality(1..limit) = limit
        BY FS_Interval
  <2>3. QED
        BY <2>1, <2>2, FS_Subset
<1>2. QED
      BY <1>1 DEF FirstRows

\* Resolved({value}) is the folded name; SHOW's filter drops what it covers.
LEMMA VisibleMeaning ==
    ASSUME NEW value \in Name \cup {NoValue}, Visible(value), policy \in Policies
    PROVE  /\ value # NoValue
           /\ \A name \in Resolved({value}) : ~Under(name, policy.hidden)
<1>1. value # NoValue /\ value \in Name /\ policy.hidden \in SUBSET Name
      BY PolicyAssumption DEF Visible, Policy
<1>2. \A name \in Resolved({value}) : value # <<>> /\ name = Folded(value)
      BY DEF Resolved, Folded
<1>3. QED
      BY <1>1, <1>2, MatchesPrefixMeaning DEF Visible

\* What Drill resolves the names of a text to are names.
LEMMA ResolvedNames ==
    ASSUME NEW t, SqlText(t)
    PROVE  Writes(t) \subseteq Name /\ Reads(t) \subseteq Name
<1>1. \A table \in t.targets \cup t.embedded \cup t.tables : table.schema \in Name
      BY DEF SqlText, Table
<1>2. Writes(t) \subseteq Name
      BY <1>1, FoldedName DEF Writes, Schemas, Resolved, Folded
<1>3. Reads(t) \subseteq Name
      BY <1>1, FoldedName DEF Reads, Schemas, Resolved, Folded, SqlText
<1>4. QED
      BY <1>2, <1>3

\* The cap, the filter and the truncation mark agree at every stage.
THEOREM RowsCorrect == Spec => []RowsInv
<1>1. Init => RowsInv
  <2> SUFFICES ASSUME Init PROVE RowsInv
      OBVIOUS
  <2>1. TypeOK
    <3>1. limit \in 1..MaxRows /\ rows \subseteq 1..Len(answer)
          BY MaxRowsAssumption DEF Init
    <3>2. truncated \in BOOLEAN /\ changed \subseteq Name /\ read \subseteq Name
          BY DEF Init
    <3>3. QED
          BY <3>1, <3>2 DEF Init, TypeOK
  <2>2. QED
        BY <2>1 DEF Init, RowsInv, HiddenNotListed, NothingMissing
<1>2. RowsInv /\ [Next]_vars => RowsInv'
  <2> SUFFICES ASSUME RowsInv, [Next]_vars PROVE RowsInv'
      OBVIOUS
  <2> USE DEF RowsInv, TypeOK, HiddenNotListed, NothingMissing, callVars, Endings
  <2>1. CASE CheckPolicy
    <3>1. EffectiveMaxRows(requested) \in 1..MaxRows
          BY MaxRowsAssumption, RequestAssumption DEF EffectiveMaxRows
    <3>2. QED
          BY <2>1, <3>1 DEF CheckPolicy, EffectiveMaxRows
  <2>2. CASE Query
    <3>1. PICK n \in {Len(answer'), IF limit < Len(answer') THEN limit ELSE Len(answer')} :
              truncated' = Truncated(n) /\ rows' = {i \in 1..n : i <= limit}
          BY <2>2 DEF Query
    <3>2. answer' \in Answers /\ Len(answer') \in Nat
          BY <2>2, AnswerAssumption DEF Query
    <3>3. limit \in Nat /\ n \in Nat /\ n <= Len(answer')
          BY <3>1, <3>2, MaxRowsAssumption
    <3>4. rows' \subseteq 1..Len(answer') /\ \A i \in rows' : i <= limit
          BY <3>1, <3>2, <3>3
    <3>5. ~truncated' => rows' = 1..Len(answer')
      <4> SUFFICES ASSUME ~truncated' PROVE rows' = 1..Len(answer')
          OBVIOUS
      <4>1. ~Truncated(n)
            BY <3>1
      <4>2. n < limit
            BY <3>3, <4>1 DEF Truncated
      <4>3. n = Len(answer')
            BY <3>1, <3>2, <3>3, <4>2
      <4>4. QED
            BY <3>1, <3>3, <4>2, <4>3
    <3>6. Writes(text) \subseteq Name
          BY TextAssumption, ResolvedNames
    <3>7. Reads(text) \subseteq Name
          BY TextAssumption, ResolvedNames
    <3>8. truncated' \in BOOLEAN
          BY <3>1 DEF Truncated
    <3>9. QED
          BY <2>2, <3>2, <3>4, <3>5, <3>6, <3>7, <3>8 DEF Query, EffectiveMaxRows
  <2>3. CASE QueryFails \/ RunsLate \/ PayloadNotAnObject
    <3>1. Writes(text) \subseteq Name /\ Reads(text) \subseteq Name
          BY TextAssumption, ResolvedNames
    <3>2. QED
          BY <2>3, <3>1 DEF QueryFails, RunsLate, PayloadNotAnObject, EffectiveMaxRows
  <2>4. CASE Reply
    <3>1. Filtered \subseteq rows /\ limit \in Nat /\ Filtered \subseteq 1..limit
      <4>1. \A i \in rows : i \in 1..limit
            BY <2>4, MaxRowsAssumption DEF Reply
      <4>2. QED
            BY <4>1, MaxRowsAssumption DEF Filtered
    <3>2. rows' = Filtered
          BY <2>4, <3>1, FirstRowsOfFew DEF Reply
    <3>3. HiddenNotListed'
      <4> SUFFICES ASSUME IsShowCommand(text), policy.hidden # {}, NEW i \in rows'
                   PROVE  /\ answer[i] # NoValue
                          /\ \A name \in Resolved({answer[i]}) : ~Under(name, policy.hidden)
          BY <2>4 DEF Reply
      <4>1. i \in 1..Len(answer) /\ Visible(answer[i])
            BY <3>2 DEF Filtered
      <4>2. answer[i] \in Name \cup {NoValue}
            BY <4>1, AnswerAssumption
      <4>3. QED
            BY <4>1, <4>2, VisibleMeaning
    <3>4. NothingMissing'
          BY <2>4, <3>2 DEF Reply, Filtered, Visible
    <3>5. QED
          BY <2>4, <3>1, <3>2, <3>3, <3>4 DEF Reply, EffectiveMaxRows
  <2>5. CASE UNCHANGED vars
        BY <2>5 DEF vars, EffectiveMaxRows, Visible
  <2>6. QED
        BY <2>1, <2>2, <2>3, <2>4, <2>5 DEF Next
<1>3. QED
      BY <1>1, <1>2, PTL DEF Spec

\* Type correctness of RunQuery.
THEOREM TypeCorrect == Spec => []TypeOK
<1>1. RowsInv => TypeOK
      BY DEF RowsInv
<1>2. QED
      BY <1>1, RowsCorrect, PTL

\* No SHOW lists a hidden schema (server.py:153-155).
THEOREM HiddenNotListedCorrect == Spec => []HiddenNotListed
<1>1. RowsInv => HiddenNotListed
      BY DEF RowsInv
<1>2. QED
      BY <1>1, RowsCorrect, PTL

\* A result that is not marked truncated is complete (server.py:153-172).
THEOREM NothingMissingCorrect == Spec => []NothingMissing
<1>1. RowsInv => NothingMissing
      BY DEF RowsInv
<1>2. QED
      BY <1>1, RowsCorrect, PTL

\* No call returns more rows than configured, nor than it asked for
\* (server.py:71-75, 161).
THEOREM WithinCapCorrect == Spec => []WithinCap
<1>1. RowsInv => WithinCap
  <2> SUFFICES ASSUME RowsInv, stage = "returned"
               PROVE  /\ Cardinality(rows) <= MaxRows
                      /\ requested # NoRequest /\ requested > 0
                             => Cardinality(rows) <= requested
      BY DEF WithinCap
  <2>1. limit \in 1..MaxRows /\ limit = EffectiveMaxRows(requested)
        BY DEF RowsInv, TypeOK
  <2>2. rows \subseteq 1..limit /\ limit \in Nat
        BY <2>1, MaxRowsAssumption DEF RowsInv, TypeOK
  <2>3. Cardinality(rows) <= limit /\ Cardinality(rows) \in Nat
    <3>1. IsFiniteSet(1..limit) /\ Cardinality(1..limit) = limit
          BY <2>2, FS_Interval
    <3>2. QED
          BY <2>2, <3>1, FS_Subset, FS_CardinalityType
  <2>4. requested \in Int \cup {NoRequest}
        BY RequestAssumption DEF RowsInv, TypeOK
  <2>5. QED
        BY <2>1, <2>3, <2>4, MaxRowsAssumption DEF EffectiveMaxRows
<1>2. QED
      BY <1>1, RowsCorrect, PTL
================================================================================
