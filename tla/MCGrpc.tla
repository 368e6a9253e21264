------------------------------- MODULE MCGrpc -------------------------------
(***************************************************************************)
(* Instances of GrpcAgent for TLC: two sources and two agents publish, and *)
(* the receiver is the agent of c1 or the source s1.  Of the events, some  *)
(* are for both, some for one of them and some for neither.                *)
(***************************************************************************)
EXTENDS GrpcAgent, TLC

CONSTANTS s1, s2, c1, c2

Work(i, kind, s, c, v) == [id |-> i, kind |-> kind, source |-> s, cluster |-> c, ver |-> v]

\* Two specs for the agent c1 and one for another, two statuses for the source
\* s1 and one for another, a resync request of each kind, and a spec with a
\* version that is no CloudEvents integer.
Traffic ==
    {Work(1, "spec", s1, c1, 1), Work(2, "spec", s2, c1, 3), Work(3, "spec", s2, c2, 2),
     Work(4, "status", s1, c1, 2), Work(5, "status", s1, c2, 3), Work(6, "status", s2, c1, 1),
     Work(7, "specresync", None, c2, None), Work(8, "statusresync", s2, None, None),
     Work(9, "spec", s1, c1, 4)}
=============================================================================
