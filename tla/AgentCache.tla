----------------------------- MODULE AgentCache -----------------------------
(***************************************************************************)
(* What the cache of an agent promises to its controllers.  The objects    *)
(* they read were true at the owner of the work once: in a version it      *)
(* reached, and marked as deleting only if it has deleted the work.  A     *)
(* work is not there before it is learnt of, or again after a restart; it  *)
(* goes away, one work at a time, when its owner has deleted it.  A        *)
(* restart begins a new round of synchronisation, which is how a removal   *)
(* by mistake is told from one.                                            *)
(*                                                                         *)
(* Nothing is promised about the order in which versions appear.           *)
(***************************************************************************)
EXTENDS Naturals

CONSTANTS Works, Absent

VARIABLES
    owner,  \* per work, the version its owner has reached and whether it deleted it
    cache,  \* per work, the object the controllers read, or Absent
    rounds  \* resyncs the agent has begun

vars == <<owner, cache, rounds>>

Init ==
    /\ owner = [w \in Works |-> [ver |-> 0, deleted |-> FALSE]]
    /\ cache = [w \in Works |-> Absent]
    /\ rounds = 0

\* Versions grow, and what is deleted stays deleted.
Change ==
    /\ \A w \in Works : /\ owner'[w].ver >= owner[w].ver
                        /\ owner[w].deleted => owner'[w].deleted
    /\ UNCHANGED <<cache, rounds>>

Learn(w) ==
    /\ \E v \in 0..owner[w].ver, d \in BOOLEAN :
          /\ d => owner[w].deleted
          /\ cache' = [cache EXCEPT ![w] = [ver |-> v, del |-> d]]
    /\ UNCHANGED <<owner, rounds>>

Forget(w) ==
    /\ owner[w].deleted
    /\ cache' = [cache EXCEPT ![w] = Absent]
    /\ UNCHANGED <<owner, rounds>>

\* A round leaves the cache to the events that answer it, unless it is the one
\* of a new start.
Resync ==
    /\ rounds' = rounds + 1
    /\ UNCHANGED <<owner, cache>>

Restart ==
    /\ rounds' = rounds + 1
    /\ cache' = [w \in Works |-> Absent]
    /\ UNCHANGED owner

Next == Change \/ Resync \/ Restart \/ \E w \in Works : Learn(w) \/ Forget(w)

Spec == Init /\ [][Next]_vars
=============================================================================
