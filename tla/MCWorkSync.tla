----------------------------- MODULE MCWorkSync -----------------------------
(***************************************************************************)
(* Instances of WorkSync for TLC.                                          *)
(***************************************************************************)
EXTENDS WorkSync, TLC

CONSTANTS s1, s2, w1, w2

\* One source owns every work; or each of two works has a source of its own.
OwnerOne == [w \in Works |-> s1]
OwnerTwo == [w \in Works |-> IF w = w1 THEN s1 ELSE s2]

Symmetry == Permutations(Works)
=============================================================================
