------------------------------- MODULE NamesProofs -------------------------------
(***************************************************************************)
(* What matches_prefix decides on the spelling of names, restated as what  *)
(* it means to Drill, which folds case; for every set of components.       *)
(***************************************************************************)
EXTENDS Names, TLAPS

\* Folding keeps the length of a name and folds each component.
LEMMA FoldedName ==
    ASSUME NEW name \in Name
    PROVE  /\ Folded(name) \in Name
           /\ Len(Folded(name)) = Len(name)
           /\ \A i \in 1..Len(name) : Folded(name)[i] = Lower[name[i]]
<1>1. /\ Len(name) \in Nat /\ DOMAIN name = 1..Len(name)
      /\ \A i \in 1..Len(name) : name[i] \in Components
      BY DEF Name
<1>2. \A i \in 1..Len(name) : Lower[name[i]] \in Components
      BY <1>1, LowerAssumption
<1>3. Folded(name) = [i \in 1..Len(name) |-> Lower[name[i]]]
      BY <1>1 DEF Folded
<1>4. QED
      BY <1>1, <1>2, <1>3 DEF Name

\* What an operator's list covers on Drill's side is what MatchesPrefix finds in
\* the text, spelled in any case (guard.py:95-107).
LEMMA MatchesPrefixMeaning ==
    ASSUME NEW name \in Name, name # <<>>, NEW entries \in SUBSET Name
    PROVE  Under(Folded(name), entries) <=> MatchesPrefix(name, entries)
<1>1. ASSUME NEW entry \in Name, entry # <<>>
      PROVE  (/\ Len(Folded(entry)) <= Len(Folded(name))
              /\ SubSeq(Folded(name), 1, Len(Folded(entry))) = Folded(entry))
             <=> (/\ Len(entry) <= Len(name)
                  /\ \A i \in 1..Len(entry) : Lower[name[i]] = Lower[entry[i]])
  <2> DEFINE n == Len(entry)
             head == SubSeq(Folded(name), 1, n)
  <2>1. /\ Len(Folded(entry)) = n /\ n \in Nat
        /\ Len(Folded(name)) = Len(name) /\ Len(name) \in Nat
        /\ Folded(entry) \in Seq(Components) /\ Folded(name) \in Seq(Components)
        BY FoldedName DEF Name
  <2>2. SUFFICES ASSUME n <= Len(name)
                 PROVE  head = Folded(entry)
                        <=> \A i \in 1..n : Lower[name[i]] = Lower[entry[i]]
        BY <2>1
  <2>3. /\ head \in Seq(Components) /\ Len(head) = n
        /\ \A i \in 1..n : head[i] = Folded(name)[i]
        BY <2>1, <2>2
  <2>4. \A i \in 1..n : head[i] = Lower[name[i]] /\ Folded(entry)[i] = Lower[entry[i]]
        BY <2>1, <2>2, <2>3, FoldedName
  <2>5. ASSUME \A i \in 1..n : head[i] = Folded(entry)[i] PROVE head = Folded(entry)
        BY <2>1, <2>3, <2>5
  <2>6. QED
        BY <2>4, <2>5
<1>2. Under(Folded(name), entries) <=>
          \E entry \in entries \ {<<>>} :
              /\ Len(Folded(entry)) <= Len(Folded(name))
              /\ SubSeq(Folded(name), 1, Len(Folded(entry))) = Folded(entry)
      BY DEF Under, Resolved, Folded
<1>3. QED
      BY <1>1, <1>2 DEF MatchesPrefix

\* What matches a leading part of a name matches the name; and if the part is all
\* of the name, or two components at least, it shows all that entries of at most
\* two components can match (guard.py:100-107, 262-263).
LEMMA HeadMatches ==
    ASSUME NEW name \in Name, NEW n \in Nat, n <= Len(name), n = Len(name) \/ n >= 2,
           NEW entries \in SUBSET Name
    PROVE  /\ SubSeq(name, 1, n) \in Name
           /\ SubSeq(name, 1, n) = <<>> => name = <<>>
           /\ MatchesPrefix(SubSeq(name, 1, n), entries) => MatchesPrefix(name, entries)
           /\ MatchesPrefix(name, {entry \in entries : Len(entry) <= 2})
                  => MatchesPrefix(SubSeq(name, 1, n), entries)
<1> DEFINE head == SubSeq(name, 1, n)
<1>1. /\ name \in Seq(Components) /\ Len(name) \in Nat
      /\ head \in Seq(Components) /\ Len(head) = n
      /\ \A i \in 1..n : head[i] = name[i]
      BY DEF Name
<1>2. head = <<>> => name = <<>>
      BY <1>1
<1>3. ASSUME MatchesPrefix(head, entries) PROVE MatchesPrefix(name, entries)
  <2>1. PICK entry \in entries : /\ entry # <<>> /\ Len(entry) <= Len(head)
                                 /\ \A i \in 1..Len(entry) : Lower[head[i]] = Lower[entry[i]]
        BY <1>3 DEF MatchesPrefix
  <2>2. Len(entry) \in Nat /\ Len(entry) <= Len(name)
        BY <1>1, <2>1 DEF Name
  <2>3. \A i \in 1..Len(entry) : Lower[name[i]] = Lower[entry[i]]
        BY <1>1, <2>1, <2>2
  <2>4. name # <<>>
        BY <1>1, <1>3 DEF MatchesPrefix
  <2>5. QED
        BY <2>1, <2>2, <2>3, <2>4 DEF MatchesPrefix
<1>4. ASSUME MatchesPrefix(name, {entry \in entries : Len(entry) <= 2})
      PROVE  MatchesPrefix(head, entries)
  <2>1. PICK entry \in entries : /\ entry # <<>> /\ Len(entry) <= Len(name) /\ Len(entry) <= 2
                                 /\ \A i \in 1..Len(entry) : Lower[name[i]] = Lower[entry[i]]
        BY <1>4 DEF MatchesPrefix
  <2>2. Len(entry) \in Nat /\ Len(entry) <= n
        BY <1>1, <2>1 DEF Name
  <2>3. \A i \in 1..Len(entry) : Lower[head[i]] = Lower[entry[i]]
        BY <1>1, <2>1, <2>2
  <2>4. head # <<>>
        BY <1>2, <1>4 DEF MatchesPrefix
  <2>5. QED
        BY <1>1, <2>1, <2>2, <2>3, <2>4 DEF MatchesPrefix
<1>5. head \in Name
      BY <1>1 DEF Name
<1>6. QED
      BY <1>2, <1>3, <1>4, <1>5
================================================================================
