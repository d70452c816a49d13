----------------------------- MODULE MCRestSession -----------------------------
(* RestSession on small instances.  Calls and session cookies are model values *)
(* that the specification only compares, so safety may use their symmetry.     *)
EXTENDS RestSession, TLC

Symmetry == Permutations(Calls) \cup Permutations(Sessions)
================================================================================
