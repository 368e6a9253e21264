-------------------------- MODULE StatusSyncProofs --------------------------
(***************************************************************************)
(* Proofs about StatusSync, for any works and statuses, any number of      *)
(* changes, lost or repeated messages, failed publishes and restarts.      *)
(***************************************************************************)
EXTENDS StatusSync, TLAPS

-----------------------------------------------------------------------------
(* Type correctness.                                                       *)

LEMMA CountersStay ==
    ASSUME TypeOK, Change \/ Mishap \/ UNCHANGED counters
    PROVE  changes' \in 0..MaxChanges /\ mishaps' \in 0..MaxMishaps /\ resyncs' \in 0..MaxResyncs
BY ConstantsOK DEF TypeOK, Change, Mishap, counters

\* What answers a status resync is what the agent has.
LEMMA RespondType ==
    ASSUME TypeOK, NEW r \in Hashes PROVE Respond(r) \subseteq Reports
BY DEF TypeOK, Respond, Listed, Reports, Status

LEMMA InitType == Init => TypeOK
<1> SUFFICES ASSUME Init PROVE TypeOK OBVIOUS
<1> USE DEF Init
<1>1. /\ actual \in [Works -> Statuses] /\ cache \in [Works -> Statuses \cup {Absent}]
      /\ store \in [Works -> Statuses \cup {Absent}] /\ published \in [Works -> SUBSET Statuses]
  BY ConstantsOK
<1>2. changes \in 0..MaxChanges /\ mishaps \in 0..MaxMishaps /\ resyncs \in 0..MaxResyncs
  BY ConstantsOK
<1> QED BY <1>1, <1>2 DEF TypeOK

LEMMA NextType == TypeOK /\ [Next]_vars => TypeOK'
<1> SUFFICES ASSUME TypeOK, [Next]_vars PROVE TypeOK' OBVIOUS
<1> USE ConstantsOK DEF TypeOK
<1>1. ASSUME NEW w \in Works, StartPatch(w) PROVE TypeOK'
  <2>1. Status(w, actual[w]) \in Reports BY DEF Status, Reports
  <2> QED BY <1>1, <2>1 DEF StartPatch, net, source, counters
<1>2. ASSUME NEW p \in patches, FinishPatch(p) PROVE TypeOK'
  <2>1. p \in Reports /\ p \in Put /\ p.work \in Works /\ p.status \in Statuses
    BY DEF Reports, Put
  <2>2. published' \in [Works -> SUBSET Statuses] BY <1>2, <2>1 DEF FinishPatch
  <2> QED BY <1>2, <2>1, <2>2 DEF FinishPatch, source, counters
<1>3. ASSUME NEW p \in patches, FailPatch(p) PROVE TypeOK'
  BY <1>3, CountersStay DEF FailPatch, net, source
<1>4. ASSUME NEW p \in receiving, Apply(p) PROVE TypeOK'
  BY <1>4 DEF Apply, Put, net, source, counters
<1>5. ASSUME NEW w \in Works, HandleSpec(w) PROVE TypeOK'
  <2>1. Status(w, cache[w]) \in Put BY DEF Status, Put
  <2> QED BY <1>5, <2>1, CountersStay DEF HandleSpec, net, source
<1>6. ASSUME NEW w \in Works, Add(w) \/ Drop(w) PROVE TypeOK'
  <2>1. Status(w, Empty) \in Put /\ Status(w, Absent) \in Put BY DEF Status, Put
  <2>2. receiving' \subseteq Put BY <1>6, <2>1 DEF Add, Drop, Follow
  <2> QED BY <1>6, <2>2 DEF Add, Drop, Follow, net, source, counters
<1>7. ASSUME NEW w \in Works, Turn(w) PROVE TypeOK'
  BY <1>7, CountersStay DEF Turn, net, source
<1>8. CASE Restart
  BY <1>8, CountersStay DEF Restart, net, source
<1>9. ASSUME NEW r \in requests, ReceiveRequest(r) PROVE TypeOK'
  <2>1. Respond(r) \subseteq Reports BY RespondType
  <2>2. events' \subseteq Reports /\ requests' \subseteq Hashes BY <1>9, <2>1 DEF ReceiveRequest
  <2>3. \A w \in Works :
          published[w] \cup {e.status : e \in {x \in Respond(r) : x.work = w}} \in SUBSET Statuses
    BY <2>1 DEF Reports
  <2>4. published' \in [Works -> SUBSET Statuses]
    BY <1>9, <2>3 DEF ReceiveRequest
  <2> QED BY <1>9, <2>2, <2>4 DEF ReceiveRequest, agent, source, counters
<1>10. CASE Lose
  BY <1>10, CountersStay DEF Lose, agent, source
<1>11. ASSUME NEW e \in events, Decide(e) PROVE TypeOK'
  BY <1>11, CountersStay DEF Decide, Take, agent
<1>12. ASSUME NEW e \in deciding, Handle(e) PROVE TypeOK'
  BY <1>12 DEF Handle, Reports, agent, net, counters
<1>13. ASSUME NEW w \in Works, Create(w) \/ Remove(w) PROVE TypeOK'
  BY <1>13, CountersStay DEF Create, Remove, Write, agent, net
<1>14. CASE Resync
  <2>1. requests' \subseteq Hashes BY <1>14 DEF Resync, Hashes
  <2>2. resyncs' \in 0..MaxResyncs BY <1>14 DEF Resync
  <2>3. clean' \in BOOLEAN BY <1>14 DEF Resync, Idle
  <2> QED BY <1>14, <2>1, <2>2, <2>3 DEF Resync, agent, source
<1>15. CASE UNCHANGED vars BY <1>15 DEF vars, agent, net, source, counters
<1> QED
  BY <1>1, <1>2, <1>3, <1>4, <1>5, <1>6, <1>7, <1>8, <1>9, <1>10, <1>11, <1>12, <1>13,
     <1>14, <1>15 DEF Next

\* Whatever is lost or repeated, the agent answers a request only with works it
\* has, and no removal travels as a status.
THEOREM TypeCorrect == Spec => []TypeOK
BY InitType, NextType, PTL DEF Spec

-----------------------------------------------------------------------------
(* The cache shows what was published.                                     *)

\* What waits for the reflector has been published, or is a work that comes or
\* goes.
Receivable(p) == p.status \in published[p.work] \cup {Empty, Absent}
ReceivingInv == \A p \in receiving : Receivable(p)

LEMMA InitPublished == Init => ReceivingInv /\ PublishedFirst
BY DEF Init, ReceivingInv, PublishedFirst, Listed

LEMMA PublishedGrows ==
    ASSUME TypeOK, [Next]_vars PROVE \A w \in Works : published[w] \subseteq published'[w]
<1>1. ASSUME NEW p \in patches, FinishPatch(p)
      PROVE  \A w \in Works : published[w] \subseteq published'[w]
  BY <1>1 DEF FinishPatch, TypeOK
<1>2. ASSUME NEW r \in requests, ReceiveRequest(r)
      PROVE  \A w \in Works : published[w] \subseteq published'[w]
  BY <1>2 DEF ReceiveRequest
<1>3. CASE UNCHANGED published BY <1>3
<1> QED
  BY <1>1, <1>2, <1>3 DEF Next, vars, StartPatch, FailPatch, Apply, HandleSpec, Add, Drop,
     Follow, Turn, Restart, Lose, Decide, Handle, Create, Remove, Write, Resync

\* What is added to receiving.
LEMMA ReceivingGrows ==
    ASSUME TypeOK, PublishedFirst, [Next]_vars
    PROVE  \A p \in receiving' : p \in receiving \/ Receivable(p)'
<1> USE DEF TypeOK
<1>1. ASSUME NEW q \in patches, FinishPatch(q)
      PROVE  \A p \in receiving' : p \in receiving \/ Receivable(p)'
  BY <1>1 DEF FinishPatch, Receivable, Reports
<1>2. ASSUME NEW w \in Works, HandleSpec(w)
      PROVE  \A p \in receiving' : p \in receiving \/ Receivable(p)'
  BY <1>2 DEF HandleSpec, Receivable, Status, PublishedFirst, Listed
<1>3. ASSUME NEW w \in Works, Add(w) \/ Drop(w)
      PROVE  \A p \in receiving' : p \in receiving \/ Receivable(p)'
  BY <1>3 DEF Add, Drop, Follow, Receivable, Status
<1>4. CASE receiving' \subseteq receiving BY <1>4
<1> QED
  BY <1>1, <1>2, <1>3, <1>4 DEF Next, vars, agent, StartPatch, FailPatch, Apply, Turn,
     Restart, ReceiveRequest, Lose, Decide, Handle, Create, Remove, Write, Resync

LEMMA NextPublished ==
    TypeOK /\ ReceivingInv /\ PublishedFirst /\ [Next]_vars => (ReceivingInv /\ PublishedFirst)'
<1> SUFFICES ASSUME TypeOK, ReceivingInv, PublishedFirst, [Next]_vars
             PROVE  ReceivingInv' /\ PublishedFirst'
  OBVIOUS
<1>1. ReceivingInv'
  <2>1. \A p \in receiving : Receivable(p)'
    BY PublishedGrows DEF TypeOK, Put, ReceivingInv, Receivable
  <2> QED BY <2>1, ReceivingGrows DEF ReceivingInv
<1>2. PublishedFirst'
  <2>1. \A w \in Works : cache'[w] \in {cache[w], Absent} =>
          (cache'[w] # Absent => cache'[w] \in published'[w] \cup {Empty})
    BY PublishedGrows DEF PublishedFirst, Listed
  <2>2. ASSUME NEW p \in receiving, Apply(p), NEW w \in Works
        PROVE  cache'[w] # Absent => cache'[w] \in published'[w] \cup {Empty}
    <3>1. CASE w = p.work
      BY <2>2, <3>1 DEF Apply, TypeOK, ReceivingInv, Receivable
    <3>2. CASE w # p.work BY <2>1, <2>2, <3>2 DEF Apply, TypeOK
    <3> QED BY <3>1, <3>2
  <2>3. \/ \A w \in Works : cache'[w] \in {cache[w], Absent}
        \/ \E p \in receiving : Apply(p)
    BY DEF Next, vars, agent, StartPatch, FinishPatch, FailPatch, HandleSpec, Add, Drop,
       Follow, Turn, Restart, ReceiveRequest, Lose, Decide, Handle, Create, Remove, Write, Resync
  <2> QED BY <2>1, <2>2, <2>3 DEF PublishedFirst, Listed
<1> QED BY <1>1, <1>2

\* Patch publishes before it refreshes the cache, and nothing else puts a
\* status there: a controller that finds its status in the cache and does not
\* patch again leaves out nothing that was never published.
THEOREM PublishesFirst == Spec => []PublishedFirst
<1>1. TypeOK /\ [Next]_vars => TypeOK' BY NextType
<1> QED BY <1>1, InitType, InitPublished, NextPublished, PTL DEF Spec
-----------------------------------------------------------------------------
(* A status resync repairs.                                                *)

\* What is on its way while a quiet resync is: nothing but the agent's statuses.
Current(p) == p.status = cache[p.work]

\* A work whose status the source still misses: it is on its way, or asked for.
Coming(w) ==
    \/ store[w] = cache[w]
    \/ Status(w, cache[w]) \in events \cup deciding
    \/ \E r \in requests : r[w] \notin {Absent, cache[w]}

CleanInv ==
    clean => /\ patches = {}
             /\ \A p \in receiving \cup events \cup deciding : Current(p)
             /\ \A w \in Listed(store) \cap Listed(cache) : Coming(w)

LEMMA InitClean == Init => CleanInv
BY DEF Init, CleanInv

LEMMA NextClean == TypeOK /\ CleanInv /\ [Next]_vars => CleanInv'
<1> SUFFICES ASSUME TypeOK, CleanInv, [Next]_vars, clean' PROVE CleanInv'
  BY DEF CleanInv
<1> USE DEF TypeOK
<1>1. CASE Resync
  <2>1. /\ patches' = {} /\ receiving' \cup events' \cup deciding' = {}
        /\ requests' = {store} /\ UNCHANGED <<store, cache>>
    BY <1>1 DEF Resync, Idle, agent, source
  <2>2. \A w \in Listed(store) \cap Listed(cache) : Coming(w)'
    BY <2>1 DEF Coming, Listed
  <2> QED BY <2>1, <2>2 DEF CleanInv, Listed
<1>2. ASSUME NEW p \in receiving, Apply(p) PROVE CleanInv'
  <2>1. clean /\ patches' = {} /\ UNCHANGED <<store, events, deciding, requests>>
    BY <1>2 DEF Apply, CleanInv, net, source
  <2>2. UNCHANGED cache BY <1>2, <2>1 DEF Apply, CleanInv, Current, Put
  <2>3. receiving' \subseteq receiving BY <1>2 DEF Apply
  <2> QED BY <2>1, <2>2, <2>3 DEF CleanInv, Current, Coming, Listed
<1>3. ASSUME NEW w \in Works, HandleSpec(w) PROVE CleanInv'
  <2>1. clean /\ UNCHANGED <<cache, patches, store, events, deciding, requests>>
    BY <1>3 DEF HandleSpec, net, source
  <2>2. \A p \in receiving' : p \in receiving \/ Current(p)
    BY <1>3 DEF HandleSpec, Status, Current
  <2> QED BY <2>1, <2>2 DEF CleanInv, Current, Coming, Listed
<1>4. ASSUME NEW r \in requests, ReceiveRequest(r) PROVE CleanInv'
  <2>1. clean /\ UNCHANGED <<cache, patches, receiving, store, deciding>>
    BY <1>4 DEF ReceiveRequest, agent, source
  <2>2. events' = events \cup Respond(r) /\ requests' = requests \ {r}
    BY <1>4 DEF ReceiveRequest
  <2>3. \A p \in Respond(r) : Current(p) BY DEF Respond, Status, Current
  <2>4. ASSUME NEW w \in Listed(store) \cap Listed(cache) PROVE Coming(w)'
    <3>1. CASE r[w] \notin {Absent, cache[w]}
      <4>1. Status(w, cache[w]) \in Respond(r) BY <3>1 DEF Respond, Listed
      <4> QED BY <2>1, <2>2, <4>1 DEF Coming
    <3>2. CASE r[w] \in {Absent, cache[w]}
      BY <2>1, <2>2, <3>2 DEF Coming, CleanInv
    <3> QED BY <3>1, <3>2
  <2> QED BY <2>1, <2>2, <2>3, <2>4 DEF CleanInv, Current, Listed
<1>5. ASSUME NEW e \in events, Decide(e) PROVE CleanInv'
  <2>1. clean /\ UNCHANGED <<cache, patches, receiving, requests, store>>
    BY <1>5 DEF Decide, agent
  <2>2. events' \subseteq events /\ events \subseteq events' \cup {e}
    BY <1>5 DEF Decide, Take
  <2>3. deciding' \subseteq deciding \cup {e} /\ deciding \subseteq deciding'
    BY <1>5 DEF Decide
  <2>4. store[e.work] \notin {Absent, cache[e.work]} => e \in deciding'
    BY <1>5, <2>1 DEF Decide, StatusAction, CleanInv, Current
  <2>5. ASSUME NEW w \in Listed(store) \cap Listed(cache) PROVE Coming(w)'
    <3>1. CASE Status(w, cache[w]) = e
      BY <2>1, <2>4, <3>1 DEF Coming, Status, Listed
    <3>2. CASE Status(w, cache[w]) # e
      BY <2>1, <2>2, <2>3, <3>2 DEF Coming, CleanInv
    <3> QED BY <3>1, <3>2
  <2> QED BY <2>1, <2>2, <2>3, <2>5 DEF CleanInv, Current, Listed
<1>6. ASSUME NEW e \in deciding, Handle(e) PROVE CleanInv'
  <2>1. clean /\ UNCHANGED <<cache, patches, receiving, events, requests>>
    BY <1>6 DEF Handle, agent, net
  <2>2. deciding' = deciding \ {e} /\ Current(e) /\ e.work \in Works
    BY <1>6, <2>1 DEF Handle, CleanInv, Reports
  <2>3. \A w \in Works : /\ w # e.work => store'[w] = store[w]
                         /\ store'[w] # Absent => store[w] # Absent
                         /\ store[e.work] # Absent => store'[e.work] = cache[e.work]
    BY <1>6, <2>2 DEF Handle, Current
  <2>4. ASSUME NEW w \in Works, store'[w] # Absent, cache[w] # Absent PROVE Coming(w)'
    <3>1. CASE w = e.work BY <2>1, <2>3, <2>4, <3>1 DEF Coming
    <3>2. CASE w # e.work
      <4>1. Coming(w) /\ Status(w, cache[w]) # e
        BY <2>1, <2>3, <2>4, <3>2 DEF CleanInv, Listed, Status
      <4> QED BY <2>1, <2>2, <2>3, <3>2, <4>1 DEF Coming
    <3> QED BY <3>1, <3>2
  <2> QED BY <2>1, <2>2, <2>4 DEF CleanInv, Current, Listed
<1>7. ASSUME NEW w \in Works, Turn(w) PROVE CleanInv'
  BY <1>7 DEF Turn, net, source, CleanInv, Current, Coming, Listed
<1>8. ASSUME NEW p \in patches, FinishPatch(p) \/ FailPatch(p) PROVE FALSE
  BY <1>8 DEF FinishPatch, FailPatch, CleanInv
<1>9. CASE UNCHANGED vars
  BY <1>9 DEF vars, agent, net, source, CleanInv, Current, Coming, Listed
<1> QED
  BY <1>1, <1>2, <1>3, <1>4, <1>5, <1>6, <1>7, <1>8, <1>9 DEF Next, StartPatch, Add, Drop,
     Follow, Restart, Lose, Create, Remove, Write

\* A resync that starts when nothing is under way repairs whatever was lost or
\* overtaken before, however often its answers are repeated and whatever the
\* spec events do meanwhile.
THEOREM ResyncRepairs == Spec => []StatusResyncRepairs
<1>1. CleanInv => StatusResyncRepairs
  BY DEF CleanInv, Coming, StatusResyncRepairs, Idle
<1> QED BY <1>1, InitType, NextType, InitClean, NextClean, PTL DEF Spec
=============================================================================
