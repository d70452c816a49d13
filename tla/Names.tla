---------------------------------- MODULE Names ----------------------------------
(***************************************************************************)
(* Dotted names of schemas, as drill_mcp compares them and as Drill        *)
(* resolves them.  A name is the sequence of its components, whatever its  *)
(* quoting: matches_prefix splits it at the dots and drops empty ones.     *)
(***************************************************************************)
EXTENDS Naturals, Sequences

CONSTANTS
    Components,     \* spellings of name components
    Lower           \* Lower[p] is p in lower case

ASSUME LowerAssumption == Lower \in [Components -> Components]

Name == Seq(Components)

MatchesPrefix_HeadOnly(qualified, entries) ==
    /\ qualified # <<>>
    /\ \E entry \in entries : entry # <<>> /\ Lower[qualified[1]] = Lower[entry[1]]

\* guard.matches_prefix: some entry is a component-wise prefix of `qualified`,
\* case folded.
MatchesPrefix(qualified, entries) ==
    /\ qualified # <<>>
    /\ \E entry \in entries :
           /\ entry # <<>>
           /\ Len(entry) <= Len(qualified)
           /\ \A i \in 1..Len(entry) : Lower[qualified[i]] = Lower[entry[i]]

--------------------------------------------------------------------------------
(* Drill's side: external.  Drill resolves names without regard to case.       *)

Folded(name) == [i \in DOMAIN name |-> Lower[name[i]]]
Resolved(names) == {Folded(name) : name \in names \ {<<>>}}

\* What the operator's lists mean on Drill's side: a schema and all below it.
Under(schema, entries) ==
    \E entry \in Resolved(entries) :
        Len(entry) <= Len(schema) /\ SubSeq(schema, 1, Len(entry)) = entry
================================================================================
