---------------------------- MODULE MCBaseClient ----------------------------
(***************************************************************************)
(* Instances of BaseClient for TLC.  Receivers and publishers are          *)
(* interchangeable; client names too, but they are left out of the         *)
(* symmetry of the runs that check liveness.                               *)
(***************************************************************************)
EXTENDS BaseClient, TLC

Symmetry == Permutations(Clients) \cup Permutations(Slots)
                \cup Permutations(Publishers) \cup Permutations(Subscribers)
=============================================================================
