------------------------------ MODULE MCJdbcQuery ------------------------------
(* JdbcQuery on a small instance; calls are interchangeable model values. *)
EXTENDS JdbcQuery, TLC

Symmetry == Permutations(Calls)
================================================================================
