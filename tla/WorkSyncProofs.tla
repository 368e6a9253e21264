--------------------------- MODULE WorkSyncProofs ---------------------------
(***************************************************************************)
(* Proofs about WorkSync: what the agent holds of a work was true at its   *)
(* owner, for any number of works, versions, duplicates, losses and        *)
(* restarts.                                                               *)
(***************************************************************************)
EXTENDS WorkSync, TLAPS

-----------------------------------------------------------------------------
(* Type correctness.                                                       *)

LEMMA InitType == Init => TypeOK
<1> SUFFICES ASSUME Init PROVE TypeOK OBVIOUS
<1>0. 0 \in Versions /\ 0 \in 0..MaxDups /\ 0 \in 0..MaxPatches /\ 0 \in 0..MaxResyncs
  BY ConstantsOK DEF Versions
<1> USE DEF Init
<1>1. EmptyList \in [Works -> Versions] BY <1>0 DEF EmptyList
<1>2. fifo \in [Works -> Seq(Deltas)] /\ cache \in [Works -> Deltas] BY DEF Deltas
<1>3. src \in [Works -> [st: {"none", "live", "deleting", "gone"}, ver: Versions]]
  BY <1>0
<1>4. requests \subseteq Requests BY <1>1 DEF Requests
<1>5. clean \in BOOLEAN /\ dups \in 0..MaxDups
      /\ patched \in 0..MaxPatches /\ resynced \in 0..MaxResyncs BY <1>0
<1>6. specs = {} /\ reports = {} /\ handling = {} /\ receiving = {} /\ patches = {} OBVIOUS
<1> HIDE DEF Init
<1> QED BY <1>2, <1>3, <1>4, <1>5, <1>6 DEF TypeOK

\* Events answered to a resync request are well formed.
LEMMA RespondType ==
    ASSUME TypeOK, NEW r \in requests PROVE Respond(r) \subseteq SpecEvents
<1>1. \A w \in Works : src[w].ver \in Versions /\ r.vers[w] \in Versions
  BY DEF TypeOK, Requests
<1>2. \A w \in Works, v \in Versions, d \in BOOLEAN : Event(w, v, d) \in SpecEvents
  BY DEF Event, SpecEvents
<1> QED BY <1>1, <1>2 DEF Respond, Listed

\* The handler returns a manifestwork when the cache holds one.
LEMMA HandledType ==
    ASSUME TypeOK, NEW h \in handling, NEW last \in Objects
    PROVE  Handled(h, last) \in Objects
BY DEF TypeOK, Handled, Objects, SpecEvents

LEMMA CachedVersionsType ==
    ASSUME TypeOK, ConstantsOK PROVE CachedVersions \in [Works -> Versions]
BY DEF TypeOK, ConstantsOK, CachedVersions, Deltas, Objects, Versions

LEMMA SourceStepType ==
    ASSUME TypeOK, NEW w \in Works, NEW st \in {"live", "deleting"}, Change(w, st)
    PROVE  TypeOK'
<1>1. src[w].ver + 1 \in Versions BY ConstantsOK DEF TypeOK, Change, Versions
<1>2. Event(w, src[w].ver + 1, st = "deleting") \in SpecEvents
  BY <1>1 DEF Event, SpecEvents
<1>3. src' \in [Works -> [st: {"none", "live", "deleting", "gone"}, ver: Versions]]
  BY <1>1 DEF TypeOK, Change
<1> QED BY <1>2, <1>3 DEF TypeOK, Change, agent, counters

LEMMA ReceiveRequestType ==
    ASSUME TypeOK, NEW r \in requests, ReceiveRequest(r) PROVE TypeOK'
BY RespondType DEF TypeOK, ReceiveRequest, agent, counters

LEMMA ReceiveReportType ==
    ASSUME TypeOK, NEW w \in reports, ReceiveReport(w) PROVE TypeOK'
BY DEF TypeOK, ReceiveReport, agent, counters

LEMMA LoseType == ASSUME TypeOK, Lose PROVE TypeOK'
BY DEF TypeOK, Lose, agent, counters

LEMMA DecideType ==
    ASSUME TypeOK, NEW e \in specs, Decide(e) PROVE TypeOK'
<1>1. specs' \subseteq SpecEvents /\ dups' \in 0..MaxDups
  BY ConstantsOK DEF TypeOK, Decide, TakeSpec
<1>2. handling' \subseteq [action: {"Modified", "Deleted"}, evt: SpecEvents]
  BY DEF TypeOK, Decide
<1>3. [ver |-> e.ver, del |-> e.del, fin |-> FALSE] \in Deltas /\ e.work \in Works
  BY DEF TypeOK, SpecEvents, Deltas, Objects
<1> DEFINE added == [ver |-> e.ver, del |-> e.del, fin |-> FALSE]
<1>4. [work |-> e.work, obj |-> added] \in [work: Works, obj: Deltas] BY <1>3
<1>5. receiving' \subseteq receiving \cup {[work |-> e.work, obj |-> added]}
  BY DEF Decide
<1>6. receiving' \subseteq [work: Works, obj: Deltas]
  BY <1>4, <1>5 DEF TypeOK
<1> QED BY <1>1, <1>2, <1>6 DEF TypeOK, Decide

LEMMA HandleType ==
    ASSUME TypeOK, NEW h \in handling, Handle(h) PROVE TypeOK'
<1> DEFINE w == h.evt.work
<1>1. w \in Works BY DEF TypeOK, SpecEvents
<1>2. cache[w] # Absent => Handled(h, cache[w]) \in Objects
  BY <1>1, HandledType DEF TypeOK, Deltas
<1>3. receiving' \subseteq [work: Works, obj: Deltas]
  BY <1>1, <1>2 DEF TypeOK, Handle, Ignored, Deltas
<1> QED BY <1>3 DEF TypeOK, Handle, net, counters

LEMMA ReceiveType ==
    ASSUME TypeOK, NEW p \in receiving, Receive(p) PROVE TypeOK'
<1>1. Append(fifo[p.work], p.obj) \in Seq(Deltas) BY DEF TypeOK
<1> QED BY <1>1 DEF TypeOK, Receive, net, counters

LEMMA ApplyType ==
    ASSUME TypeOK, NEW w \in Works, Apply(w) PROVE TypeOK'
<1>1. fifo[w] \in Seq(Deltas) /\ fifo[w] # <<>> BY DEF TypeOK, Apply
<1>2. Head(fifo[w]) \in Deltas /\ Tail(fifo[w]) \in Seq(Deltas) BY <1>1
<1> QED BY <1>2 DEF TypeOK, Apply, net, counters

LEMMA StartPatchType ==
    ASSUME TypeOK, NEW w \in Works, PatchStatus(w) \/ PatchFinalizer(w) PROVE TypeOK'
<1>1. cache[w] \in Objects
  BY DEF TypeOK, PatchStatus, PatchFinalizer, Deltas
<1>2. [cache[w] EXCEPT !.fin = ~cache[w].del] \in Objects BY <1>1 DEF Objects
<1>3. patched' \in 0..MaxPatches
  BY ConstantsOK DEF TypeOK, PatchStatus, PatchFinalizer, StartPatch
<1>4. PICK obj \in Objects, status \in BOOLEAN : StartPatch(w, obj, status)
  BY <1>1, <1>2 DEF PatchStatus, PatchFinalizer
<1>5. patches' \subseteq [work: Works, obj: Objects, status: BOOLEAN]
  BY <1>4 DEF TypeOK, StartPatch
<1> QED BY <1>3, <1>4, <1>5 DEF TypeOK, StartPatch, net

LEMMA EndPatchType ==
    ASSUME TypeOK, NEW p \in patches, FinishPatch(p) \/ FailPatch(p) PROVE TypeOK'
BY DEF TypeOK, FinishPatch, FailPatch, Deltas, net, counters

LEMMA ResyncType == ASSUME TypeOK, Resync PROVE TypeOK'
<1>1. requests' \subseteq Requests
  BY CachedVersionsType, ConstantsOK DEF TypeOK, Resync, Requests
<1>2. resynced' \in 0..MaxResyncs BY ConstantsOK DEF TypeOK, Resync
<1>3. clean' \in BOOLEAN BY DEF Resync, Idle
<1> QED BY <1>1, <1>2, <1>3 DEF TypeOK, Resync, agent

LEMMA RestartType == ASSUME TypeOK, Restart PROVE TypeOK'
<1>1. requests' \subseteq Requests
  BY ConstantsOK DEF TypeOK, Restart, Requests, EmptyList, Versions
<1>2. resynced' \in 0..MaxResyncs BY ConstantsOK DEF TypeOK, Restart
<1>3. fifo' \in [Works -> Seq(Deltas)] /\ cache' \in [Works -> Deltas]
  BY DEF Restart, Deltas
<1> QED BY <1>1, <1>2, <1>3 DEF TypeOK, Restart

LEMMA NextType == TypeOK /\ [Next]_vars => TypeOK'
<1> SUFFICES ASSUME TypeOK, [Next]_vars PROVE TypeOK' OBVIOUS
<1>1. ASSUME NEW w \in Works, Create(w) \/ Update(w) \/ Delete(w) PROVE TypeOK'
  BY <1>1, SourceStepType DEF Create, Update, Delete
<1>2. ASSUME NEW w \in Works, PatchStatus(w) \/ PatchFinalizer(w) PROVE TypeOK'
  BY <1>2, StartPatchType
<1>3. ASSUME NEW w \in Works, Apply(w) PROVE TypeOK'
  BY <1>3, ApplyType
<1>4. CASE UNCHANGED vars
  BY <1>4 DEF TypeOK, vars, net, agent, counters
<1> QED
  BY <1>1, <1>2, <1>3, <1>4, ReceiveRequestType, ReceiveReportType, LoseType,
     DecideType, HandleType, ReceiveType, EndPatchType, ResyncType, RestartType
     DEF Next

\* Every variable keeps its type: events, deltas and patches name known works
\* and versions, whatever the broker loses, repeats or reorders.
THEOREM TypeCorrect == Spec => []TypeOK
BY InitType, NextType, PTL DEF Spec
-----------------------------------------------------------------------------
(* What the agent holds was true at the source.                            *)

\* With one source, every resync request of the agent is answered by the
\* source that owns the works in it.
OneSource == \A s, t \in Sources : s = t

\* A version and deletion mark of work w that its owner has reached.
Reached(w, ver, del) ==
    /\ ver <= src[w].ver
    /\ OneSource => (del => src[w].st \in {"deleting", "gone"})

ReachedObject(w, obj) == obj # Absent => Reached(w, obj.ver, obj.del)

SourceInv    == \A w \in Works : src[w].ver > 0 => src[w].st # "none"
SpecsInv     == \A e \in specs : Reached(e.work, e.ver, e.del)
RequestsInv  == \A r \in requests : \A w \in Works : r.vers[w] <= src[w].ver
HandlingInv  == \A h \in handling :
                    /\ Reached(h.evt.work, h.evt.ver, h.evt.del)
                    /\ h.action = "Deleted" => h.evt.del
ReceivingInv == \A p \in receiving : ReachedObject(p.work, p.obj)
FifoInv      == \A w \in Works : \A i \in 1..Len(fifo[w]) : ReachedObject(w, fifo[w][i])
CacheInv     == \A w \in Works : ReachedObject(w, cache[w])
PatchesInv   == \A p \in patches : ReachedObject(p.work, p.obj)

\* What is under way to the cache must be true as well: any of it may be the
\* next delta the informer applies.
IInv ==
    /\ TypeOK
    /\ SourceInv /\ SpecsInv /\ RequestsInv /\ HandlingInv
    /\ ReceivingInv /\ FifoInv /\ CacheInv /\ PatchesInv

AgentInv == HandlingInv /\ ReceivingInv /\ FifoInv /\ CacheInv /\ PatchesInv

LEMMA InitInv == Init => IInv
<1> SUFFICES ASSUME Init PROVE IInv OBVIOUS
<1>1. TypeOK BY InitType
<1>2. SourceInv /\ SpecsInv BY DEF Init, SourceInv, SpecsInv
<1>3. RequestsInv
  BY DEF Init, RequestsInv, EmptyList
<1>4. HandlingInv /\ ReceivingInv /\ PatchesInv
  BY DEF Init, HandlingInv, ReceivingInv, PatchesInv
<1>5. FifoInv /\ CacheInv
  BY DEF Init, FifoInv, CacheInv, ReachedObject
<1> QED BY <1>1, <1>2, <1>3, <1>4, <1>5 DEF IInv

\* A step of the sources makes nothing untrue that was true.
LEMMA SourceGrows ==
    ASSUME TypeOK, NEW w \in Works,
           src'[w].ver >= src[w].ver, src'[w].ver \in Nat,
           src[w].st \in {"deleting", "gone"} => src'[w].st \in {"deleting", "gone"},
           NEW ver \in Nat, NEW del \in BOOLEAN, Reached(w, ver, del)
    PROVE  Reached(w, ver, del)'
BY DEF TypeOK, Reached, Versions, OneSource

\* So it disturbs none of the agent's invariants, nor what is in the broker.
LEMMA SourceKeeps ==
    ASSUME IInv, UNCHANGED agent,
           \A w \in Works : /\ src'[w].ver >= src[w].ver /\ src'[w].ver \in Nat
                            /\ src[w].st \in {"deleting", "gone"}
                                 => src'[w].st \in {"deleting", "gone"}
    PROVE  /\ AgentInv'
           /\ \A e \in specs : Reached(e.work, e.ver, e.del)'
           /\ \A r \in requests : \A w \in Works : r.vers[w] <= src'[w].ver
<1> USE DEF IInv
<1>1. ASSUME NEW w \in Works, NEW obj \in Deltas, ReachedObject(w, obj)
      PROVE  ReachedObject(w, obj)'
  BY <1>1, SourceGrows DEF ReachedObject, Deltas, Objects, Versions
<1>0. ASSUME NEW e \in SpecEvents, Reached(e.work, e.ver, e.del)
      PROVE  Reached(e.work, e.ver, e.del)'
  <2>1. e.work \in Works /\ e.ver \in Nat /\ e.del \in BOOLEAN
    BY DEF SpecEvents, Versions
  <2> QED BY <1>0, <2>1, SourceGrows
<1>2. \A e \in specs : Reached(e.work, e.ver, e.del)'
  BY <1>0 DEF SpecsInv, TypeOK
<1>3. HandlingInv'
  BY <1>0 DEF HandlingInv, TypeOK, agent
<1>4. ReceivingInv' BY <1>1 DEF ReceivingInv, TypeOK, agent
<1>5. FifoInv' BY <1>1 DEF FifoInv, TypeOK, agent
<1>6. CacheInv' BY <1>1 DEF CacheInv, TypeOK, agent
<1>7. PatchesInv' BY <1>1 DEF PatchesInv, TypeOK, Deltas, agent
<1>8. \A r \in requests : \A w \in Works : r.vers[w] <= src'[w].ver
  BY DEF RequestsInv, TypeOK, Requests, Versions
<1> QED BY <1>2, <1>3, <1>4, <1>5, <1>6, <1>7, <1>8 DEF AgentInv

LEMMA ChangeInv ==
    ASSUME IInv, NEW w \in Works, NEW st \in {"live", "deleting"}, Change(w, st),
           src[w].st \in {"none", "live"}
    PROVE  IInv'
<1> USE DEF IInv
<1>1. TypeOK' BY SourceStepType
<1>2. src' = [src EXCEPT ![w] = [st |-> st, ver |-> src[w].ver + 1]]
      /\ src[w].ver \in Nat
  BY DEF Change, TypeOK, Versions
<1>3. \A x \in Works : /\ src'[x].ver >= src[x].ver /\ src'[x].ver \in Nat
                       /\ src[x].st \in {"deleting", "gone"}
                            => src'[x].st \in {"deleting", "gone"}
  BY <1>2 DEF TypeOK, Versions
<1>4. /\ AgentInv'
      /\ \A e \in specs : Reached(e.work, e.ver, e.del)'
      /\ \A r \in requests : \A x \in Works : r.vers[x] <= src'[x].ver
  BY <1>3, SourceKeeps DEF Change
<1> DEFINE e == Event(w, src[w].ver + 1, st = "deleting")
<1>5. src'[w].ver = src[w].ver + 1 /\ src'[w].st = st
  BY <1>2 DEF TypeOK
<1>6. SpecsInv'
  <2>1. \A x \in specs' : x \in specs \/ x = e BY DEF Change
  <2>2. e.work = w /\ e.ver = src[w].ver + 1 /\ (e.del => st = "deleting") BY DEF Event
  <2>3. \A x : x = e => Reached(x.work, x.ver, x.del)'
    <3> SUFFICES ASSUME NEW x, x = e PROVE Reached(x.work, x.ver, x.del)' OBVIOUS
    <3>1. x.work = w /\ x.ver = src'[w].ver /\ src'[w].ver \in Nat
      BY <1>2, <1>5, <2>2
    <3>2. x.del => src'[w].st = "deleting" BY <1>5, <2>2
    <3> QED BY <3>1, <3>2 DEF Reached
  <2> QED BY <1>4, <2>1, <2>3 DEF SpecsInv
<1>7. RequestsInv' BY <1>4 DEF RequestsInv, Change
<1>8. SourceInv' BY <1>2 DEF SourceInv, TypeOK
<1> QED BY <1>1, <1>4, <1>6, <1>7, <1>8 DEF AgentInv

LEMMA ReceiveReportInv ==
    ASSUME IInv, NEW w \in reports, ReceiveReport(w) PROVE IInv'
<1> USE DEF IInv
<1>1. TypeOK' BY ReceiveReportType
<1>2. \A x \in Works : /\ src'[x].ver = src[x].ver /\ src'[x].ver \in Nat
                       /\ src[x].st \in {"deleting", "gone"}
                            => src'[x].st \in {"deleting", "gone"}
                       /\ src[x].st # "none" => src'[x].st # "none"
  BY DEF TypeOK, Versions, ReceiveReport
<1>3. /\ AgentInv'
      /\ \A e \in specs : Reached(e.work, e.ver, e.del)'
      /\ \A r \in requests : \A x \in Works : r.vers[x] <= src'[x].ver
  BY <1>2, SourceKeeps DEF ReceiveReport
<1>4. SpecsInv' /\ RequestsInv'
  BY <1>3 DEF SpecsInv, RequestsInv, ReceiveReport
<1>5. SourceInv' BY <1>2 DEF SourceInv
<1> QED BY <1>1, <1>3, <1>4, <1>5 DEF AgentInv

\* An unlisted work that the agent has a version of is gone: its owner is the
\* only source, and has created it.
LEMMA RespondReached ==
    ASSUME IInv, NEW r \in requests
    PROVE  \A e \in Respond(r) : Reached(e.work, e.ver, e.del)
<1> USE DEF IInv
<1>1. ASSUME NEW w \in Listed(r.to)
      PROVE  Reached(w, src[w].ver, src[w].st = "deleting")
  BY DEF Reached, Listed, TypeOK, Versions
<1>2. ASSUME NEW w \in Works \ Listed(r.to), r.vers[w] > 0
      PROVE  Reached(w, r.vers[w], TRUE)
  <2>1. r.vers[w] \in Nat /\ src[w].ver \in Nat /\ r.vers[w] <= src[w].ver
    BY DEF RequestsInv, TypeOK, Requests, Versions
  <2>2. src[w].st \in {"live", "deleting", "gone"}
    BY <1>2, <2>1 DEF SourceInv, TypeOK
  <2>3. OneSource => Owner[w] = r.to
    BY ConstantsOK DEF OneSource, TypeOK, Requests
  <2> QED BY <2>1, <2>2, <2>3 DEF Reached, Listed
<1>4. ASSUME NEW e \in Respond(r) PROVE Reached(e.work, e.ver, e.del)
  <2>1. \/ \E w \in Listed(r.to) : e = Event(w, src[w].ver, src[w].st = "deleting")
        \/ \E w \in Works \ Listed(r.to) : r.vers[w] > 0 /\ e = Event(w, r.vers[w], TRUE)
    BY DEF Respond
  <2>2. CASE \E w \in Listed(r.to) : e = Event(w, src[w].ver, src[w].st = "deleting")
    <3>1. PICK w \in Listed(r.to) : e = Event(w, src[w].ver, src[w].st = "deleting")
      BY <2>2
    <3>2. e.work = w /\ e.ver = src[w].ver /\ e.del = (src[w].st = "deleting")
      BY <3>1 DEF Event
    <3> QED BY <1>1, <3>2 DEF Reached
  <2>3. CASE \E w \in Works \ Listed(r.to) : r.vers[w] > 0 /\ e = Event(w, r.vers[w], TRUE)
    <3>1. PICK w \in Works \ Listed(r.to) : r.vers[w] > 0 /\ e = Event(w, r.vers[w], TRUE)
      BY <2>3
    <3>2. e.work = w /\ e.ver = r.vers[w] BY <3>1 DEF Event
    <3> QED BY <1>2, <3>1, <3>2 DEF Reached
  <2> QED BY <2>1, <2>2, <2>3
<1> QED BY <1>4

LEMMA ReceiveRequestInv ==
    ASSUME IInv, NEW r \in requests, ReceiveRequest(r) PROVE IInv'
<1> USE DEF IInv
<1>1. TypeOK' BY ReceiveRequestType
<1>2. SpecsInv' BY RespondReached DEF SpecsInv, ReceiveRequest, Reached, OneSource
<1>3. RequestsInv' BY DEF RequestsInv, ReceiveRequest
<1>4. SourceInv' /\ AgentInv'
  BY DEF SourceInv, AgentInv, HandlingInv, ReceivingInv, FifoInv, CacheInv,
         PatchesInv, ReachedObject, Reached, OneSource, ReceiveRequest, agent
<1> QED BY <1>1, <1>2, <1>3, <1>4 DEF AgentInv

LEMMA LoseInv == ASSUME IInv, Lose PROVE IInv'
<1> USE DEF IInv
<1>1. TypeOK' BY LoseType
<1>2. specs' \subseteq specs /\ requests' \subseteq requests BY DEF Lose
<1>3. SpecsInv' BY <1>2 DEF SpecsInv, Reached, OneSource, Lose
<1>4. RequestsInv' BY <1>2 DEF RequestsInv, Lose
<1>5. SourceInv' /\ AgentInv'
  BY DEF SourceInv, AgentInv, HandlingInv, ReceivingInv, FifoInv, CacheInv,
         PatchesInv, ReachedObject, Reached, OneSource, Lose, agent
<1> QED BY <1>1, <1>3, <1>4, <1>5 DEF AgentInv

\* The agent's steps leave the sources alone: what was reached stays reached.
LEMMA SameSource ==
    ASSUME UNCHANGED src
    PROVE  /\ \A w, ver, del : Reached(w, ver, del)' <=> Reached(w, ver, del)
           /\ \A w, obj : ReachedObject(w, obj)' <=> ReachedObject(w, obj)
           /\ SourceInv' <=> SourceInv
BY DEF Reached, ReachedObject, OneSource, SourceInv

LEMMA DecideInv ==
    ASSUME IInv, NEW e \in specs, Decide(e) PROVE IInv'
<1> USE DEF IInv
<1>1. TypeOK' BY DecideType
<1>2. UNCHANGED <<src, requests, fifo, cache, patches>> /\ specs' \subseteq specs
  BY DEF Decide, TakeSpec
<1>3. SpecsInv' BY <1>2, SameSource DEF SpecsInv
<1>4. Reached(e.work, e.ver, e.del) BY DEF SpecsInv
<1>5. HandlingInv'
  BY <1>2, <1>4, SameSource DEF HandlingInv, Decide, SpecAction
<1> DEFINE added == [ver |-> e.ver, del |-> e.del, fin |-> FALSE]
<1>6. ReachedObject(e.work, added) BY <1>4 DEF ReachedObject
<1>7. receiving' \subseteq receiving \cup {[work |-> e.work, obj |-> added]}
  BY DEF Decide
<1>8. ReceivingInv'
  <2>1. \A p \in receiving' : ReachedObject(p.work, p.obj)
    <3> HIDE DEF added
    <3> QED BY <1>6, <1>7 DEF ReceivingInv
  <2> QED BY <1>2, <2>1, SameSource DEF ReceivingInv
<1>9. SourceInv' /\ RequestsInv' /\ FifoInv' /\ CacheInv' /\ PatchesInv'
  BY <1>2, SameSource DEF RequestsInv, FifoInv, CacheInv, PatchesInv
<1> QED BY <1>1, <1>3, <1>5, <1>8, <1>9

LEMMA HandleInv ==
    ASSUME IInv, NEW h \in handling, Handle(h) PROVE IInv'
<1> USE DEF IInv
<1> DEFINE w == h.evt.work
           o == Handled(h, cache[w])
<1>1. TypeOK' BY HandleType
<1>2. UNCHANGED <<src, specs, requests, fifo, cache, patches>> /\ handling' \subseteq handling
  BY DEF Handle, net
<1>3. Reached(w, h.evt.ver, h.evt.del) /\ (h.action = "Deleted" => h.evt.del)
      /\ h.action \in {"Modified", "Deleted"} /\ w \in Works
  BY DEF HandlingInv, TypeOK, SpecEvents
<1>4. ASSUME ~Ignored(h, cache[w]) PROVE ReachedObject(w, o)
  <2>1. cache[w] \in Objects /\ Reached(w, cache[w].ver, cache[w].del)
    BY <1>3, <1>4 DEF Ignored, TypeOK, Deltas, CacheInv, ReachedObject
  <2>2. CASE h.action = "Modified"
    BY <1>3, <2>2 DEF Handled, ReachedObject, Reached
  <2>3. CASE h.action = "Deleted"
    BY <1>3, <2>1, <2>3 DEF Handled, ReachedObject, Reached, Objects
  <2> QED BY <1>3, <2>2, <2>3
<1>5. \/ receiving' = receiving
      \/ ~Ignored(h, cache[w]) /\ receiving' = receiving \cup {[work |-> w, obj |-> o]}
  BY DEF Handle
<1>6. ReceivingInv' BY <1>2, <1>4, <1>5, SameSource DEF ReceivingInv
<1>7. HandlingInv' BY <1>2, SameSource DEF HandlingInv
<1>8. SourceInv' /\ SpecsInv' /\ RequestsInv' /\ FifoInv' /\ CacheInv' /\ PatchesInv'
  BY <1>2, SameSource DEF SpecsInv, RequestsInv, FifoInv, CacheInv, PatchesInv
<1> QED BY <1>1, <1>6, <1>7, <1>8

LEMMA ReceiveInv ==
    ASSUME IInv, NEW p \in receiving, Receive(p) PROVE IInv'
<1> USE DEF IInv
<1>1. TypeOK' BY ReceiveType
<1>2. UNCHANGED <<src, specs, requests, handling, cache, patches>>
      /\ receiving' \subseteq receiving /\ p.work \in Works
  BY DEF Receive, net, TypeOK
<1>3. ReachedObject(p.work, p.obj) BY DEF ReceivingInv
<1>4. ASSUME NEW w \in Works, NEW i \in 1..Len(fifo'[w])
      PROVE  ReachedObject(w, fifo'[w][i])
  <2>1. CASE w # p.work
    BY <1>4, <2>1 DEF Receive, FifoInv, TypeOK
  <2>2. CASE w = p.work
    <3>1. fifo[w] \in Seq(Deltas) /\ fifo'[w] = Append(fifo[w], p.obj)
      BY <1>2, <2>2 DEF Receive, TypeOK
    <3>2. CASE i <= Len(fifo[w])
      BY <3>1, <3>2 DEF FifoInv
    <3>3. CASE i = Len(fifo[w]) + 1
      BY <1>3, <2>2, <3>1, <3>3
    <3> QED BY <3>1, <3>2, <3>3
  <2> QED BY <2>1, <2>2
<1>5. FifoInv' BY <1>2, <1>4, SameSource DEF FifoInv
<1>6. ReceivingInv' BY <1>2, SameSource DEF ReceivingInv
<1>7. SourceInv' /\ SpecsInv' /\ RequestsInv' /\ HandlingInv' /\ CacheInv' /\ PatchesInv'
  BY <1>2, SameSource DEF SpecsInv, RequestsInv, HandlingInv, CacheInv, PatchesInv
<1> QED BY <1>1, <1>5, <1>6, <1>7

LEMMA TailElement ==
    ASSUME NEW S, NEW s \in Seq(S), s # <<>>, NEW i \in 1..Len(Tail(s))
    PROVE  i + 1 \in 1..Len(s) /\ Tail(s)[i] = s[i + 1]
OBVIOUS

LEMMA ApplyInv ==
    ASSUME IInv, NEW w \in Works, Apply(w) PROVE IInv'
<1> USE DEF IInv
<1>1. TypeOK' BY ApplyType
<1>2. UNCHANGED <<src, specs, requests, handling, receiving, patches>>
  BY DEF Apply, net
<1>0. fifo[w] \in Seq(Deltas) /\ fifo[w] # <<>> BY DEF Apply, TypeOK
<1>3. fifo[w] \in Seq(Deltas) /\ Len(fifo[w]) > 0 /\ fifo' = [fifo EXCEPT ![w] = Tail(fifo[w])]
      /\ cache' = [cache EXCEPT ![w] = Head(fifo[w])]
  BY DEF Apply, TypeOK
<1>4. \A x \in Works : ReachedObject(x, cache'[x])
  BY <1>3 DEF FifoInv, CacheInv, TypeOK
<1>5. ASSUME NEW x \in Works, NEW i \in 1..Len(fifo'[x])
      PROVE  ReachedObject(x, fifo'[x][i])
  <2>1. CASE x # w BY <1>3, <2>1 DEF FifoInv, TypeOK
  <2>2. CASE x = w
    <3>1. fifo'[x] = Tail(fifo[w]) BY <1>3, <2>2 DEF TypeOK
    <3>2. i + 1 \in 1..Len(fifo[w]) /\ fifo'[x][i] = fifo[w][i + 1]
      <4>1. fifo[w] # <<>> /\ i \in 1..Len(Tail(fifo[w])) BY <1>0, <3>1
      <4>2. i + 1 \in 1..Len(fifo[w]) /\ Tail(fifo[w])[i] = fifo[w][i + 1]
        BY <1>3, <4>1, TailElement
      <4> QED BY <3>1, <4>2
    <3> QED BY <2>2, <3>2 DEF FifoInv
  <2> QED BY <2>1, <2>2
<1>6. CacheInv' BY <1>2, <1>4, SameSource DEF CacheInv
<1>7. FifoInv' BY <1>2, <1>5, SameSource DEF FifoInv
<1>8. SourceInv' /\ SpecsInv' /\ RequestsInv' /\ HandlingInv' /\ ReceivingInv' /\ PatchesInv'
  BY <1>2, SameSource DEF SpecsInv, RequestsInv, HandlingInv, ReceivingInv, PatchesInv
<1> QED BY <1>1, <1>6, <1>7, <1>8

LEMMA StartPatchInv ==
    ASSUME IInv, NEW w \in Works, PatchStatus(w) \/ PatchFinalizer(w) PROVE IInv'
<1> USE DEF IInv
<1>1. TypeOK' BY StartPatchType
<1>2. cache[w] \in Objects /\ Reached(w, cache[w].ver, cache[w].del)
  BY DEF PatchStatus, PatchFinalizer, TypeOK, Deltas, CacheInv, ReachedObject
<1> DEFINE marked == [cache[w] EXCEPT !.fin = ~cache[w].del]
<1>3. PICK obj, status : /\ obj.ver = cache[w].ver /\ obj.del = cache[w].del
                         /\ StartPatch(w, obj, status)
  <2>1. CASE PatchStatus(w) BY <2>1 DEF PatchStatus
  <2>2. CASE PatchFinalizer(w)
    <3>1. StartPatch(w, marked, FALSE) BY <2>2 DEF PatchFinalizer
    <3>2. marked.ver = cache[w].ver /\ marked.del = cache[w].del BY <1>2 DEF Objects
    <3> HIDE DEF marked
    <3> QED BY <3>1, <3>2
  <2> QED BY <2>1, <2>2
<1>4. ReachedObject(w, obj) BY <1>2, <1>3 DEF ReachedObject
<1>5. UNCHANGED <<src, specs, requests, handling, receiving, fifo, cache>>
  BY <1>3 DEF StartPatch, net
<1>6. PatchesInv' BY <1>3, <1>4, <1>5, SameSource DEF PatchesInv, StartPatch
<1>7. SourceInv' /\ SpecsInv' /\ RequestsInv' /\ HandlingInv' /\ ReceivingInv' /\ FifoInv' /\ CacheInv'
  BY <1>5, SameSource DEF SpecsInv, RequestsInv, HandlingInv, ReceivingInv, FifoInv, CacheInv
<1> QED BY <1>1, <1>6, <1>7

LEMMA EndPatchInv ==
    ASSUME IInv, NEW p \in patches, FinishPatch(p) \/ FailPatch(p) PROVE IInv'
<1> USE DEF IInv
<1>1. TypeOK' BY EndPatchType
<1>2. UNCHANGED <<src, specs, requests, handling, fifo, cache>> /\ patches' \subseteq patches
  BY DEF FinishPatch, FailPatch, net
<1>3. ReachedObject(p.work, p.obj) /\ ReachedObject(p.work, Absent)
  BY DEF PatchesInv, ReachedObject
<1>4. ReceivingInv'
  BY <1>2, <1>3, SameSource DEF ReceivingInv, FinishPatch, FailPatch
<1>5. PatchesInv' BY <1>2, SameSource DEF PatchesInv
<1>6. SourceInv' /\ SpecsInv' /\ RequestsInv' /\ HandlingInv' /\ FifoInv' /\ CacheInv'
  BY <1>2, SameSource DEF SpecsInv, RequestsInv, HandlingInv, FifoInv, CacheInv
<1> QED BY <1>1, <1>4, <1>5, <1>6

LEMMA ResyncInv == ASSUME IInv, Resync PROVE IInv'
<1> USE DEF IInv
<1>1. TypeOK' BY ResyncType
<1>2. UNCHANGED <<src, specs, agent>> BY DEF Resync
<1>3. \A w \in Works : CachedVersions[w] <= src[w].ver
  BY DEF CachedVersions, CacheInv, ReachedObject, Reached, TypeOK, Versions
<1>4. \A r \in requests' : r \in requests \/ r.vers = CachedVersions
  BY DEF Resync
<1>5. RequestsInv' BY <1>2, <1>3, <1>4 DEF RequestsInv
<1>6. SourceInv' /\ SpecsInv' /\ AgentInv'
  BY <1>2, SameSource DEF SpecsInv, AgentInv, HandlingInv, ReceivingInv, FifoInv,
     CacheInv, PatchesInv, agent
<1> QED BY <1>1, <1>5, <1>6 DEF AgentInv

LEMMA RestartInv == ASSUME IInv, Restart PROVE IInv'
<1> USE DEF IInv
<1>1. TypeOK' BY RestartType
<1>2. UNCHANGED <<src, specs>> BY DEF Restart
<1>3. \A r \in requests' : r \in requests \/ r.vers = EmptyList
  BY DEF Restart
<1>4. \A w \in Works : EmptyList[w] <= src[w].ver
  BY DEF EmptyList, TypeOK, Versions
<1>8. RequestsInv' BY <1>2, <1>3, <1>4 DEF RequestsInv
<1>5. HandlingInv' /\ ReceivingInv' /\ PatchesInv'
  BY DEF Restart, HandlingInv, ReceivingInv, PatchesInv
<1>6. FifoInv' /\ CacheInv'
  BY DEF Restart, FifoInv, CacheInv, ReachedObject
<1>7. SourceInv' /\ SpecsInv' BY <1>2, SameSource DEF SpecsInv
<1> QED BY <1>1, <1>5, <1>6, <1>7, <1>8

LEMMA NextInv == IInv /\ [Next]_vars => IInv'
<1> SUFFICES ASSUME IInv, [Next]_vars PROVE IInv' OBVIOUS
<1>1. ASSUME NEW w \in Works, Create(w) \/ Update(w) \/ Delete(w) PROVE IInv'
  BY <1>1, ChangeInv DEF Create, Update, Delete
<1>2. ASSUME NEW w \in Works, PatchStatus(w) \/ PatchFinalizer(w) PROVE IInv'
  BY <1>2, StartPatchInv
<1>3. ASSUME NEW w \in Works, Apply(w) PROVE IInv'
  BY <1>3, ApplyInv
<1>4. CASE UNCHANGED vars
  <2>1. TypeOK' BY <1>4, NextType DEF IInv
  <2> QED
    BY <1>4, <2>1, SameSource DEF IInv, vars, net, agent, SpecsInv, RequestsInv,
       HandlingInv, ReceivingInv, FifoInv, CacheInv, PatchesInv
<1> QED
  BY <1>1, <1>2, <1>3, <1>4, ReceiveRequestInv, ReceiveReportInv, LoseInv,
     DecideInv, HandleInv, ReceiveInv, EndPatchInv, ResyncInv, RestartInv
     DEF Next

LEMMA ImpliesNeverAhead == IInv => NeverAhead
BY DEF IInv, CacheInv, ReachedObject, Reached, NeverAhead

LEMMA ImpliesDeletedByOwner == IInv /\ OneSource => DeletedByOwner
BY DEF IInv, CacheInv, ReachedObject, Reached, DeletedByOwner

\* The agent never holds a version its source has not reached, with any number
\* of sources: otherwise the version comparisons of a resync and of the event
\* handler would skip later updates of the work.
THEOREM NeverAheadOfSource == Spec => []NeverAhead
BY InitInv, NextInv, ImpliesNeverAhead, PTL DEF Spec

\* When the agents of a broker have a single source, a work is only marked as
\* deleting at the agent if its owner has deleted it.  The hypothesis is
\* needed: a second source answers a resync with delete events for the works
\* of the first.
THEOREM DeletesByOwnerOnly ==
    ASSUME OneSource PROVE Spec => []DeletedByOwner
<1>1. IInv => DeletedByOwner BY ImpliesDeletedByOwner
<1> QED BY <1>1, InitInv, NextInv, PTL DEF Spec

-----------------------------------------------------------------------------
(* WorkSync implements AgentCache when the agents of a broker have a single *)
(* source.                                                                 *)

DeletedAt(w) == src[w].st \in {"deleting", "gone"}

\* A removal on its way to the cache is that of a work its owner has deleted.
GoneReceiving == \A p \in receiving : p.obj = Absent => DeletedAt(p.work)
GoneFifo == \A w \in Works : \A i \in 1..Len(fifo[w]) : fifo[w][i] = Absent => DeletedAt(w)
GoneInv  == GoneReceiving /\ GoneFifo

\* No object is mistaken for a removal.
LEMMA ObjectsPresent == \A o \in Objects : o # Absent
BY ConstantsOK DEF Objects, Versions

LEMMA StepsKeepDeleted ==
    ASSUME TypeOK, [Next]_vars, NEW w \in Works, DeletedAt(w) PROVE DeletedAt(w)'
<1>1. ASSUME NEW x \in Works, Create(x) \/ Update(x) \/ Delete(x) PROVE DeletedAt(w)'
  BY <1>1 DEF TypeOK, Create, Update, Delete, Change, DeletedAt
<1>2. ASSUME NEW x \in reports, ReceiveReport(x) PROVE DeletedAt(w)'
  BY <1>2 DEF TypeOK, ReceiveReport, DeletedAt
<1>3. CASE UNCHANGED src BY <1>3 DEF DeletedAt
<1> QED
  BY <1>1, <1>2, <1>3 DEF Next, vars, PatchStatus, PatchFinalizer, StartPatch, Apply,
     ReceiveRequest, Decide, Handle, Receive, FinishPatch, FailPatch, Lose, Resync, Restart

\* What is added to receiving is an object, or the removal of a deleting work.
LEMMA ReceivingGrows ==
    ASSUME IInv, OneSource, [Next]_vars
    PROVE  \A p \in receiving' : p \in receiving \/ p.obj # Absent \/ DeletedAt(p.work)
<1> USE DEF IInv
<1>1. ASSUME NEW e \in specs, Decide(e)
      PROVE  \A p \in receiving' : p \in receiving \/ p.obj # Absent
  <2> DEFINE added == [ver |-> e.ver, del |-> e.del, fin |-> FALSE]
  <2>1. added \in Objects BY DEF TypeOK, SpecEvents, Objects
  <2>2. receiving' \subseteq receiving \cup {[work |-> e.work, obj |-> added]}
    BY <1>1 DEF Decide
  <2> HIDE DEF added
  <2> QED BY <2>1, <2>2, ObjectsPresent
<1>2. ASSUME NEW h \in handling, Handle(h)
      PROVE  \A p \in receiving' : p \in receiving \/ p.obj # Absent
  <2> DEFINE o == Handled(h, cache[h.evt.work])
  <2>1. CASE Ignored(h, cache[h.evt.work]) BY <1>2, <2>1 DEF Handle
  <2>2. CASE ~Ignored(h, cache[h.evt.work])
    <3>1. cache[h.evt.work] \in Objects
      BY <2>2 DEF Ignored, TypeOK, Deltas, SpecEvents
    <3>2. o \in Objects BY <3>1, HandledType
    <3>3. \A p \in receiving' : p \in receiving \/ p.obj = o BY <1>2, <2>2 DEF Handle
    <3> HIDE DEF o
    <3> QED BY <3>2, <3>3, ObjectsPresent
  <2> QED BY <2>1, <2>2
<1>3. ASSUME NEW q \in patches, FinishPatch(q)
      PROVE  \A p \in receiving' : p \in receiving \/ p.obj # Absent \/ DeletedAt(p.work)
  <2> DEFINE obj == IF Deleting(q) THEN Absent ELSE q.obj
  <2>1. \A p \in receiving' : p \in receiving \/ (p.work = q.work /\ p.obj = obj)
    BY <1>3 DEF FinishPatch
  <2>2. q.obj \in Objects BY DEF TypeOK
  <2>3. CASE Deleting(q)
    <3>1. DeletedAt(q.work)
      BY <2>2, <2>3, ObjectsPresent DEF Deleting, PatchesInv, ReachedObject, Reached, DeletedAt
    <3> QED BY <2>1, <3>1
  <2>4. CASE ~Deleting(q) BY <2>1, <2>2, <2>4, ObjectsPresent
  <2> QED BY <2>3, <2>4
<1>4. CASE receiving' \subseteq receiving BY <1>4
<1> QED
  BY <1>1, <1>2, <1>3, <1>4 DEF Next, vars, agent, Create, Update, Delete, Change,
     PatchStatus, PatchFinalizer, StartPatch, Apply, ReceiveRequest, ReceiveReport,
     Receive, FailPatch, Lose, Resync, Restart

LEMMA InitGone == Init => GoneInv
BY DEF Init, GoneInv, GoneReceiving, GoneFifo

LEMMA NextGone == IInv /\ OneSource /\ GoneInv /\ [Next]_vars => GoneInv'
<1> SUFFICES ASSUME IInv, OneSource, GoneInv, [Next]_vars PROVE GoneInv' OBVIOUS
<1>1. TypeOK /\ TypeOK' BY NextType DEF IInv
<1>2. GoneReceiving'
  <2> SUFFICES ASSUME NEW p \in receiving', p.obj = Absent PROVE DeletedAt(p.work)'
    BY DEF GoneReceiving
  <2>1. DeletedAt(p.work) /\ p.work \in Works
    BY <1>1, ReceivingGrows DEF GoneInv, GoneReceiving, TypeOK
  <2> QED BY <1>1, <2>1, StepsKeepDeleted
<1>3. ASSUME NEW p \in receiving, Receive(p), NEW w \in Works,
             NEW i \in 1..Len(fifo'[w]), fifo'[w][i] = Absent
      PROVE  DeletedAt(w)
  <2>1. CASE w # p.work
    BY <1>1, <1>3, <2>1 DEF Receive, GoneInv, GoneFifo, TypeOK
  <2>2. CASE w = p.work
    <3>1. fifo[w] \in Seq(Deltas) /\ fifo'[w] = Append(fifo[w], p.obj)
      BY <1>1, <1>3, <2>2 DEF Receive, TypeOK
    <3>2. CASE i <= Len(fifo[w])
      BY <1>3, <3>1, <3>2 DEF GoneInv, GoneFifo
    <3>3. CASE i = Len(fifo[w]) + 1
      BY <1>3, <2>2, <3>1, <3>3 DEF GoneInv, GoneReceiving
    <3> QED BY <3>1, <3>2, <3>3
  <2> QED BY <2>1, <2>2
<1>4. ASSUME NEW x \in Works, Apply(x), NEW w \in Works,
             NEW i \in 1..Len(fifo'[w]), fifo'[w][i] = Absent
      PROVE  DeletedAt(w)
  <2>1. CASE w # x BY <1>1, <1>4, <2>1 DEF Apply, GoneInv, GoneFifo, TypeOK
  <2>2. CASE w = x
    <3>1. fifo[w] \in Seq(Deltas) /\ fifo[w] # <<>> /\ fifo'[w] = Tail(fifo[w])
      BY <1>1, <1>4, <2>2 DEF Apply, TypeOK
    <3>2. i + 1 \in 1..Len(fifo[w]) /\ Tail(fifo[w])[i] = fifo[w][i + 1]
      BY <1>4, <3>1, TailElement
    <3> QED BY <1>4, <3>1, <3>2 DEF GoneInv, GoneFifo
  <2> QED BY <2>1, <2>2
<1>5. CASE UNCHANGED fifo
  BY <1>1, <1>2, <1>5, StepsKeepDeleted DEF GoneInv, GoneFifo
<1>6. CASE Restart
  BY <1>2, <1>6 DEF Restart, GoneInv, GoneFifo
<1>7. CASE \E p \in receiving : Receive(p)
  BY <1>1, <1>2, <1>3, <1>7, StepsKeepDeleted DEF GoneInv, GoneFifo
<1>8. CASE \E x \in Works : Apply(x)
  BY <1>1, <1>2, <1>4, <1>8, StepsKeepDeleted DEF GoneInv, GoneFifo
<1>9. ASSUME NEW w \in Works,
             Create(w) \/ Update(w) \/ Delete(w) \/ PatchStatus(w) \/ PatchFinalizer(w)
      PROVE  GoneInv'
  <2>1. UNCHANGED fifo
    BY <1>9 DEF Create, Update, Delete, Change, agent, PatchStatus, PatchFinalizer, StartPatch
  <2> QED BY <1>5, <2>1
<1>10. ASSUME NEW p \in patches, FinishPatch(p) \/ FailPatch(p) PROVE GoneInv'
  <2>1. UNCHANGED fifo BY <1>10 DEF FinishPatch, FailPatch
  <2> QED BY <1>5, <2>1
<1>11. CASE \/ \E r \in requests : ReceiveRequest(r)
            \/ \E w \in reports : ReceiveReport(w)
            \/ \E e \in specs : Decide(e)
            \/ \E h \in handling : Handle(h)
            \/ Lose \/ Resync \/ UNCHANGED vars
  <2>1. UNCHANGED fifo
    BY <1>11 DEF ReceiveRequest, ReceiveReport, Decide, Handle, Lose, Resync, agent, vars
  <2> QED BY <1>5, <2>1
<1> QED
  BY <1>5, <1>6, <1>7, <1>8, <1>9, <1>10, <1>11 DEF Next

-----------------------------------------------------------------------------
(* The refinement.                                                         *)

LEMMA InitRefines == Init => Cache!Init
<1> SUFFICES ASSUME Init PROVE Cache!Init OBVIOUS
<1>1. Visible = [w \in Works |-> Absent] BY DEF Init, Visible
<1>2. \A w \in Works : src[w].ver = 0 /\ (src[w].st \in {"deleting", "gone"}) = FALSE
  BY DEF Init
<1>3. Owners = [w \in Works |-> [ver |-> 0, deleted |-> FALSE]] BY <1>2 DEF Owners
<1> QED BY <1>1, <1>3 DEF Init, Cache!Init

\* A step of the sources, as the controllers see it.
LEMMA SourceStepRefines ==
    ASSUME TypeOK, UNCHANGED <<cache, resynced>>,
           \A w \in Works : /\ src'[w].ver >= src[w].ver
                            /\ DeletedAt(w) => DeletedAt(w)'
    PROVE  Cache!Change
<1>1. UNCHANGED Visible BY DEF Visible
<1>2. \A w \in Works : /\ Owners'[w].ver >= Owners[w].ver
                       /\ Owners[w].deleted => Owners'[w].deleted
  BY DEF Owners, DeletedAt
<1> QED BY <1>1, <1>2 DEF Cache!Change

\* The informer applies a delta.
LEMMA ApplyRefines ==
    ASSUME IInv, OneSource, GoneInv, NEW w \in Works, Apply(w)
    PROVE  Cache!Learn(w) \/ Cache!Forget(w)
<1> USE DEF IInv
<1> DEFINE o == Head(fifo[w])
<1>1. UNCHANGED Owners /\ UNCHANGED resynced BY DEF Apply, Owners, counters
<1>2. fifo[w] \in Seq(Deltas) /\ fifo[w] # <<>> /\ 1 \in 1..Len(fifo[w]) /\ o = fifo[w][1]
      /\ o \in Deltas
  BY DEF Apply, TypeOK
<1>3. cache' = [cache EXCEPT ![w] = o] /\ cache \in [Works -> Deltas]
  BY DEF Apply, TypeOK
<1>4. Visible' = [Visible EXCEPT ![w] = IF o = Absent THEN Absent
                                        ELSE [ver |-> o.ver, del |-> o.del]]
  <2> HIDE DEF o
  <2> QED BY <1>3 DEF Visible
<1>5. CASE o = Absent
  <2>1. Owners[w].deleted BY <1>2, <1>5 DEF GoneInv, GoneFifo, DeletedAt, Owners
  <2> QED BY <1>1, <1>4, <1>5, <2>1 DEF Cache!Forget
<1>6. CASE o # Absent
  <2>1. ReachedObject(w, o) BY <1>2 DEF FifoInv
  <2>2. o.ver \in Nat /\ o.del \in BOOLEAN
    <3> HIDE DEF o
    <3> QED BY <1>2, <1>6 DEF Deltas, Objects, Versions
  <2>3. src[w].ver \in Nat BY DEF TypeOK, Versions
  <2>4. o.ver \in 0..Owners[w].ver /\ (o.del => Owners[w].deleted)
    <3> HIDE DEF o
    <3> QED BY <1>6, <2>1, <2>2, <2>3 DEF ReachedObject, Reached, Owners
  <2> HIDE DEF o
  <2> QED BY <1>1, <1>4, <1>6, <2>2, <2>4 DEF Cache!Learn
<1> QED BY <1>5, <1>6

LEMMA NextRefines ==
    IInv /\ OneSource /\ GoneInv /\ [Next]_vars => [Cache!Next]_(Cache!vars)
<1> SUFFICES ASSUME IInv, OneSource, GoneInv, [Next]_vars
             PROVE  Cache!Next \/ UNCHANGED Cache!vars
  OBVIOUS
<1>1. TypeOK BY DEF IInv
<1>2. ASSUME NEW w \in Works, Create(w) \/ Update(w) \/ Delete(w) PROVE Cache!Next
  <2>0. PICK st : src' = [src EXCEPT ![w] = [st |-> st, ver |-> src[w].ver + 1]]
    BY <1>2 DEF Create, Update, Delete, Change
  <2>1. \A x \in Works : src'[x].ver >= src[x].ver
    BY <1>1, <2>0 DEF TypeOK, Versions
  <2>2. UNCHANGED <<cache, resynced>>
    BY <1>2 DEF Create, Update, Delete, Change, agent, counters
  <2> QED BY <1>1, <2>1, <2>2, StepsKeepDeleted, SourceStepRefines DEF Cache!Next
<1>3. ASSUME NEW w \in reports, ReceiveReport(w) PROVE Cache!Next
  <2>1. \A x \in Works : src'[x].ver >= src[x].ver
    BY <1>1, <1>3 DEF ReceiveReport, TypeOK, Versions
  <2>2. UNCHANGED <<cache, resynced>> BY <1>3 DEF ReceiveReport, agent, counters
  <2> QED BY <1>1, <2>1, <2>2, StepsKeepDeleted, SourceStepRefines DEF Cache!Next
<1>4. ASSUME NEW w \in Works, Apply(w) PROVE Cache!Next
  BY <1>4, ApplyRefines DEF Cache!Next
<1>5. CASE Restart
  <2>1. UNCHANGED Owners /\ Visible' = [w \in Works |-> Absent] /\ resynced' = resynced + 1
    BY <1>5 DEF Restart, Owners, Visible
  <2> QED BY <2>1 DEF Cache!Next, Cache!Restart
<1>6. CASE Resync
  <2>1. UNCHANGED Owners /\ UNCHANGED Visible /\ resynced' = resynced + 1
    BY <1>6 DEF Resync, Owners, Visible, agent
  <2> QED BY <2>1 DEF Cache!Next, Cache!Resync
<1>7. CASE UNCHANGED <<src, cache, resynced>>
  BY <1>7 DEF Cache!vars, Owners, Visible
<1> QED
  BY <1>2, <1>3, <1>4, <1>5, <1>6, <1>7 DEF Next, vars, agent, counters, PatchStatus,
     PatchFinalizer, StartPatch, ReceiveRequest, Decide, Handle, Receive, FinishPatch,
     FailPatch, Lose

\* With a single source the cache of an agent implements AgentCache: its
\* controllers see versions their owners have reached, works that vanish only
\* after their owner has deleted them or in a restart, and nothing invented.
THEOREM CacheRefines ==
    ASSUME OneSource PROVE Spec => CachePromise
<1>1. GoneInv /\ IInv /\ [Next]_vars => GoneInv' BY NextGone
<1>2. GoneInv /\ IInv /\ [Next]_vars => [Cache!Next]_(Cache!vars) BY NextRefines
<1> QED BY <1>1, <1>2, InitInv, NextInv, InitGone, InitRefines, PTL DEF Spec, CachePromise, Cache!Spec

-----------------------------------------------------------------------------
(* A spec resync repairs, whatever was lost or reordered before it, when   *)
(* the agents of a broker have a single source.  The last version of a     *)
(* deleted work says so: an agent that has it needs no event, and a source *)
(* compares nothing but versions.                                          *)

Faithful(w, ver, del) ==
    /\ ver > 0
    /\ src[w].st \in {"deleting", "gone"} /\ ver = src[w].ver => del

\* An object of w in the cache, on its way there, or in a patch.
Held(w, o) ==
    \/ \E p \in receiving : p.work = w /\ p.obj = o
    \/ \E i \in 1..Len(fifo[w]) : fifo[w][i] = o
    \/ cache[w] = o
    \/ \E p \in patches : p.work = w /\ p.obj = o

NumberedInv   == \A w \in Works : src[w].st # "none" => src[w].ver > 0
FaithSpecs    == \A e \in specs : Faithful(e.work, e.ver, e.del)
FaithHandling == \A h \in handling : /\ Faithful(h.evt.work, h.evt.ver, h.evt.del)
                                     /\ h.action = "Modified" => ~h.evt.del
FaithObjects  == \A w \in Works : \A o \in Objects : Held(w, o) => Faithful(w, o.ver, o.del)
FaithInv      == NumberedInv /\ FaithSpecs /\ FaithHandling /\ FaithObjects

LEMMA HeldReached ==
    ASSUME IInv, NEW w \in Works, NEW o \in Objects, Held(w, o)
    PROVE  o.ver \in Nat /\ o.ver <= src[w].ver
<1>1. ReachedObject(w, o)
  BY DEF Held, IInv, ReceivingInv, FifoInv, CacheInv, PatchesInv
<1> QED BY <1>1, ObjectsPresent DEF ReachedObject, Reached, Objects, Versions

\* A new version of a work is one that nobody has yet.
LEMMA StepsKeepFaithful ==
    ASSUME TypeOK, [Next]_vars, NEW w \in Works, NEW ver \in Nat, NEW del \in BOOLEAN,
           ver <= src[w].ver, Faithful(w, ver, del)
    PROVE  Faithful(w, ver, del)'
<1> USE DEF TypeOK, Versions
<1>1. ASSUME NEW x \in Works, Create(x) \/ Update(x) \/ Delete(x) PROVE Faithful(w, ver, del)'
  <2>1. PICK st : src' = [src EXCEPT ![x] = [st |-> st, ver |-> src[x].ver + 1]]
    BY <1>1 DEF Create, Update, Delete, Change
  <2> QED BY <2>1 DEF Faithful
<1>2. ASSUME NEW x \in reports, ReceiveReport(x) PROVE Faithful(w, ver, del)'
  BY <1>2 DEF ReceiveReport, Faithful
<1>3. CASE UNCHANGED src BY <1>3 DEF Faithful
<1> QED
  BY <1>1, <1>2, <1>3 DEF Next, vars, PatchStatus, PatchFinalizer, StartPatch, Apply,
     ReceiveRequest, Decide, Handle, Receive, FinishPatch, FailPatch, Lose, Resync, Restart

\* Where the objects of a work come from: an event that adds it, an event that
\* is handled, or an object that was there, in that version.
LEMMA HeldGrows ==
    ASSUME IInv, [Next]_vars, NEW w \in Works, NEW o \in Objects, Held(w, o)'
    PROVE  \/ \E e \in specs : e.work = w /\ o = [ver |-> e.ver, del |-> e.del, fin |-> FALSE]
           \/ \E h \in handling : /\ h.evt.work = w /\ ~Ignored(h, cache[w])
                                  /\ o = Handled(h, cache[w])
           \/ \E q \in Objects : Held(w, q) /\ o.ver = q.ver /\ o.del = q.del
<1> USE ObjectsPresent DEF IInv, TypeOK
<1>1. ASSUME NEW e \in specs, Decide(e)
      PROVE  Held(w, o) \/ (e.work = w /\ o = [ver |-> e.ver, del |-> e.del, fin |-> FALSE])
  BY <1>1 DEF Decide, Held
<1>2. ASSUME NEW h \in handling, Handle(h)
      PROVE  Held(w, o) \/ (h.evt.work = w /\ ~Ignored(h, cache[w]) /\ o = Handled(h, cache[w]))
  BY <1>2 DEF Handle, Held
<1>3. ASSUME NEW p \in receiving, Receive(p) PROVE Held(w, o)
  <2>1. CASE w # p.work BY <1>3, <2>1 DEF Receive, Held
  <2>2. CASE w = p.work
    <3>1. fifo[w] \in Seq(Deltas) /\ fifo'[w] = Append(fifo[w], p.obj)
      BY <1>3, <2>2 DEF Receive
    <3>2. \A i \in 1..Len(fifo'[w]) : fifo'[w][i] = p.obj \/
              (i \in 1..Len(fifo[w]) /\ fifo'[w][i] = fifo[w][i])
      BY <3>1
    <3>3. receiving' \subseteq receiving /\ UNCHANGED <<cache, patches>> BY <1>3 DEF Receive
    <3> QED BY <2>2, <3>2, <3>3 DEF Held
  <2> QED BY <2>1, <2>2
<1>4. ASSUME NEW x \in Works, Apply(x) PROVE Held(w, o)
  <2>1. CASE w # x BY <1>4, <2>1 DEF Apply, Held
  <2>2. CASE w = x
    <3>1. fifo[w] \in Seq(Deltas) /\ fifo[w] # <<>> /\ fifo'[w] = Tail(fifo[w])
          /\ cache'[w] = Head(fifo[w]) /\ UNCHANGED <<receiving, patches>>
      BY <1>4, <2>2 DEF Apply
    <3>2. \A i \in 1..Len(fifo'[w]) : i + 1 \in 1..Len(fifo[w]) /\ fifo'[w][i] = fifo[w][i + 1]
      BY <3>1, TailElement
    <3>3. 1 \in 1..Len(fifo[w]) /\ cache'[w] = fifo[w][1] BY <3>1
    <3> QED BY <3>1, <3>2, <3>3 DEF Held
  <2> QED BY <2>1, <2>2
<1>5. ASSUME NEW x \in Works, PatchStatus(x) \/ PatchFinalizer(x)
      PROVE  Held(w, o) \/ (\E q \in Objects : Held(w, q) /\ o.ver = q.ver /\ o.del = q.del)
  <2>1. cache[x] \in Objects BY <1>5 DEF PatchStatus, PatchFinalizer, Deltas
  <2>2. PICK obj, status :
          /\ patches' = patches \cup {[work |-> x, obj |-> obj, status |-> status]}
          /\ obj.ver = cache[x].ver /\ obj.del = cache[x].del
    <3>1. CASE PatchStatus(x) BY <3>1 DEF PatchStatus, StartPatch
    <3>2. CASE PatchFinalizer(x)
      <4> DEFINE marked == [cache[x] EXCEPT !.fin = ~cache[x].del]
      <4>1. marked.ver = cache[x].ver /\ marked.del = cache[x].del BY <2>1 DEF Objects
      <4>2. patches' = patches \cup {[work |-> x, obj |-> marked, status |-> FALSE]}
        BY <3>2 DEF PatchFinalizer, StartPatch
      <4> HIDE DEF marked
      <4> QED BY <4>1, <4>2
    <3> QED BY <1>5, <3>1, <3>2
  <2>3. UNCHANGED <<receiving, fifo, cache>>
    BY <1>5 DEF PatchStatus, PatchFinalizer, StartPatch
  <2>4. Held(x, cache[x]) BY DEF Held
  <2> QED BY <2>1, <2>2, <2>3, <2>4 DEF Held
<1>6. ASSUME NEW p \in patches, FinishPatch(p) PROVE Held(w, o)
  BY <1>6 DEF FinishPatch, Held
<1>7. CASE Restart BY <1>7 DEF Restart, Held
<1>8. CASE /\ receiving' = receiving /\ patches' \subseteq patches
           /\ UNCHANGED <<fifo, cache>>
  BY <1>8 DEF Held
<1>9. Held(w, o) => \E q \in Objects : Held(w, q) /\ o.ver = q.ver /\ o.del = q.del OBVIOUS
<1>10. ASSUME NEW x \in Works, Create(x) \/ Update(x) \/ Delete(x) PROVE Held(w, o)
  <2>1. UNCHANGED <<receiving, fifo, cache, patches>>
    BY <1>10 DEF Create, Update, Delete, Change, agent
  <2> QED BY <2>1 DEF Held
<1>11. CASE \/ \E r \in requests : ReceiveRequest(r)
            \/ \E x \in reports : ReceiveReport(x)
            \/ \E p \in patches : FailPatch(p)
            \/ Lose \/ Resync \/ UNCHANGED vars
  <2>1. receiving' = receiving /\ patches' \subseteq patches /\ UNCHANGED <<fifo, cache>>
    BY <1>11 DEF ReceiveRequest, ReceiveReport, FailPatch, Lose, Resync, agent, vars
  <2> QED BY <1>9, <2>1 DEF Held
<1> QED
  BY <1>1, <1>2, <1>3, <1>4, <1>5, <1>6, <1>7, <1>9, <1>10, <1>11 DEF Next

LEMMA InitFaith == Init => FaithInv
<1> SUFFICES ASSUME Init PROVE FaithInv OBVIOUS
<1> USE DEF Init
<1>1. NumberedInv /\ FaithSpecs /\ FaithHandling BY DEF NumberedInv, FaithSpecs, FaithHandling
<1>2. \A w \in Works : \A o \in Objects : ~Held(w, o) BY ObjectsPresent DEF Held
<1> QED BY <1>1, <1>2 DEF FaithInv, FaithObjects

\* The sources number every change.
LEMMA NextNumbered == ASSUME TypeOK, NumberedInv, [Next]_vars PROVE NumberedInv'
<1> USE DEF TypeOK, NumberedInv, Versions
<1>1. ASSUME NEW x \in Works, Create(x) \/ Update(x) \/ Delete(x) PROVE NumberedInv'
  <2>1. PICK st : src' = [src EXCEPT ![x] = [st |-> st, ver |-> src[x].ver + 1]]
    BY <1>1 DEF Create, Update, Delete, Change
  <2> QED BY <2>1
<1>2. ASSUME NEW x \in reports, ReceiveReport(x) PROVE NumberedInv'
  BY <1>2 DEF ReceiveReport
<1>3. CASE UNCHANGED src BY <1>3
<1> QED
  BY <1>1, <1>2, <1>3 DEF Next, vars, PatchStatus, PatchFinalizer, StartPatch, Apply,
     ReceiveRequest, Decide, Handle, Receive, FinishPatch, FailPatch, Lose, Resync, Restart

\* What a source publishes, it says of the present version.
LEMMA NextFaithSpecs == ASSUME IInv, FaithInv, [Next]_vars PROVE FaithSpecs'
<1> USE DEF IInv, TypeOK, FaithInv
<1>1. ASSUME NEW e \in specs PROVE Faithful(e.work, e.ver, e.del)'
  <2>1. e.work \in Works /\ e.ver \in Nat /\ e.del \in BOOLEAN /\ e.ver <= src[e.work].ver
    BY DEF SpecEvents, Versions, SpecsInv, Reached
  <2> QED BY <2>1, StepsKeepFaithful DEF FaithSpecs
<1>2. ASSUME NEW x \in Works, NEW st \in {"live", "deleting"}, Change(x, st) PROVE FaithSpecs'
  <2>1. src'[x] = [st |-> st, ver |-> src[x].ver + 1] /\ src[x].ver \in Nat
    BY <1>2 DEF Change, Versions
  <2> DEFINE e == Event(x, src[x].ver + 1, st = "deleting")
  <2>2. e.work = x /\ e.ver = src[x].ver + 1 /\ (st = "deleting" => e.del) BY DEF Event
  <2>3. \A y : y = e => Faithful(y.work, y.ver, y.del)'
    <3> SUFFICES ASSUME NEW y, y = e PROVE Faithful(y.work, y.ver, y.del)' OBVIOUS
    <3>1. y.work = x /\ y.ver = src[x].ver + 1 /\ (st = "deleting" => y.del) BY <2>2
    <3> HIDE DEF e
    <3> QED BY <2>1, <3>1 DEF Faithful
  <2>4. \A y \in specs' : y \in specs \/ y = e BY <1>2 DEF Change
  <2> HIDE DEF e
  <2> QED BY <1>1, <2>3, <2>4 DEF FaithSpecs
<1>3. ASSUME NEW r \in requests, ReceiveRequest(r) PROVE FaithSpecs'
  <2>1. \A e \in Respond(r) : Faithful(e.work, e.ver, e.del)
    <3> SUFFICES ASSUME NEW e \in Respond(r) PROVE Faithful(e.work, e.ver, e.del) OBVIOUS
    <3>1. CASE \E w \in Listed(r.to) : e = Event(w, src[w].ver, src[w].st = "deleting")
      <4>1. PICK w \in Listed(r.to) : e = Event(w, src[w].ver, src[w].st = "deleting") BY <3>1
      <4>2. e.work = w /\ e.ver = src[w].ver /\ (src[w].st = "deleting" => e.del)
        BY <4>1 DEF Event
      <4> QED BY <4>2 DEF Listed, NumberedInv, Faithful
    <3>2. CASE \E w \in Works : r.vers[w] > 0 /\ e = Event(w, r.vers[w], TRUE)
      BY <3>2 DEF Event, Faithful
    <3> QED BY <3>1, <3>2 DEF Respond
  <2>2. UNCHANGED src /\ specs' = specs \cup Respond(r) BY <1>3 DEF ReceiveRequest
  <2> QED BY <1>1, <2>1, <2>2 DEF FaithSpecs, Faithful
<1>4. CASE specs' \subseteq specs BY <1>1, <1>4 DEF FaithSpecs
<1> QED
  BY <1>2, <1>3, <1>4 DEF Next, vars, net, Create, Update, Delete, PatchStatus, PatchFinalizer,
     StartPatch, Apply, ReceiveReport, Decide, TakeSpec, Handle, Receive, FinishPatch,
     FailPatch, Lose, Resync, Restart

LEMMA NextFaithHandling == ASSUME IInv, FaithInv, [Next]_vars PROVE FaithHandling'
<1> USE DEF IInv, TypeOK, FaithInv
<1>1. ASSUME NEW h \in handling PROVE Faithful(h.evt.work, h.evt.ver, h.evt.del)'
  <2>1. /\ h.evt.work \in Works /\ h.evt.ver \in Nat /\ h.evt.del \in BOOLEAN
        /\ h.evt.ver <= src[h.evt.work].ver
    BY DEF SpecEvents, Versions, HandlingInv, Reached
  <2> QED BY <2>1, StepsKeepFaithful DEF FaithHandling
<1>2. ASSUME NEW e \in specs, Decide(e) PROVE FaithHandling'
  <2>1. Faithful(e.work, e.ver, e.del)' BY <1>2 DEF FaithSpecs, Faithful, Decide
  <2> QED BY <1>1, <1>2, <2>1 DEF Decide, SpecAction, FaithHandling
<1>3. CASE handling' \subseteq handling BY <1>1, <1>3 DEF FaithHandling
<1> QED
  BY <1>2, <1>3 DEF Next, vars, agent, net, Create, Update, Delete, Change, PatchStatus,
     PatchFinalizer, StartPatch, Apply, ReceiveReport, ReceiveRequest, Handle, Receive,
     FinishPatch, FailPatch, Lose, Resync, Restart

LEMMA NextFaithObjects == ASSUME IInv, FaithInv, [Next]_vars PROVE FaithObjects'
<1> USE DEF IInv, TypeOK, FaithInv
<1> SUFFICES ASSUME NEW w \in Works, NEW o \in Objects, Held(w, o)'
             PROVE  Faithful(w, o.ver, o.del)'
  BY DEF FaithObjects
<1>1. o.ver \in Nat /\ o.del \in BOOLEAN BY DEF Objects, Versions
<1>2. o.ver <= src[w].ver /\ Faithful(w, o.ver, o.del)
  <2>1. ASSUME NEW e \in specs, e.work = w, o = [ver |-> e.ver, del |-> e.del, fin |-> FALSE]
        PROVE  o.ver <= src[w].ver /\ Faithful(w, o.ver, o.del)
    BY <2>1 DEF FaithSpecs, SpecsInv, Reached
  <2>2. ASSUME NEW q \in Objects, Held(w, q), o.ver = q.ver, o.del = q.del
        PROVE  o.ver <= src[w].ver /\ Faithful(w, o.ver, o.del)
    BY <2>2, HeldReached DEF FaithObjects
  <2>3. ASSUME NEW h \in handling, h.evt.work = w, ~Ignored(h, cache[w]),
               o = Handled(h, cache[w])
        PROVE  o.ver <= src[w].ver /\ Faithful(w, o.ver, o.del)
    <3>1. cache[w] \in Objects /\ Held(w, cache[w]) BY <2>3 DEF Ignored, Deltas, Held
    <3>2. CASE h.action = "Modified"
      BY <2>3, <3>2 DEF Handled, FaithHandling, HandlingInv, Reached, Faithful
    <3>3. CASE h.action # "Modified"
      <4>1. o.ver = cache[w].ver /\ o.del BY <2>3, <3>1, <3>3 DEF Handled, Objects
      <4> QED BY <3>1, <4>1, HeldReached DEF FaithObjects, Faithful
    <3> QED BY <3>2, <3>3
  <2> QED BY <2>1, <2>2, <2>3, HeldGrows
<1> QED BY <1>1, <1>2, StepsKeepFaithful

LEMMA NextFaith == ASSUME IInv, FaithInv, [Next]_vars PROVE FaithInv'
BY NextNumbered, NextFaithSpecs, NextFaithHandling, NextFaithObjects DEF FaithInv, IInv

-----------------------------------------------------------------------------
(* What is under way after a quiet resync repairs.                         *)

\* As the source has work w now.
Good(w, ver, del) ==
    /\ src[w].st # "none"
    /\ src[w].st = "live" => ver = src[w].ver /\ ~del
    /\ src[w].st \in {"deleting", "gone"} => del

GoodObject(w, o) == o # Absent /\ Good(w, o.ver, o.del)

\* Nothing is on its way to the cache.
Quiet ==
    /\ specs = {} /\ handling = {} /\ receiving = {}
    /\ \A w \in Works : fifo[w] = <<>>

\* Something is on its way that puts w right.
Coming(w) ==
    \/ requests # {}
    \/ \E e \in specs : e.work = w
    \/ \E h \in handling : h.evt.work = w
    \/ \E p \in receiving : p.work = w
    \/ fifo[w] # <<>>

GoodOnWay ==
    /\ \A e \in specs : Good(e.work, e.ver, e.del)
    /\ \A h \in handling : /\ Good(h.evt.work, h.evt.ver, h.evt.del)
                           /\ cache[h.evt.work] # Absent
    /\ \A p \in receiving : GoodObject(p.work, p.obj)
    /\ \A w \in Works : \A i \in 1..Len(fifo[w]) : GoodObject(w, fifo[w][i])

Repairing ==
    /\ patches = {}
    /\ requests # {} => Quiet /\ \A r \in requests : r.vers = CachedVersions
    /\ GoodOnWay
    /\ \A w \in Works : InSync(w) \/ Coming(w)

CleanInv == clean => Repairing

\* Everything else that the steps below rest on.
Base == IInv /\ FaithInv /\ OneSource

LEMMA GoodIsInSync ==
    ASSUME Base, NEW w \in Works, NEW o \in Objects, GoodObject(w, o), cache[w] = o
    PROVE  InSync(w)
<1>1. src[w].st \in {"live", "deleting", "gone"} BY DEF Base, IInv, TypeOK, GoodObject, Good
<1> QED BY <1>1, ObjectsPresent DEF GoodObject, Good, InSync

\* The version of a work that the agent has is enough to say whether the two
\* agree, and it has none of a work that nobody created.
LEMMA SameVersion ==
    ASSUME Base, NEW w \in Works, cache[w] # Absent
    PROVE  /\ cache[w] \in Objects /\ cache[w].ver > 0 /\ cache[w].ver <= src[w].ver
           /\ src[w].st # "none"
           /\ cache[w].ver = src[w].ver => InSync(w)
<1> USE DEF Base, IInv, TypeOK, Versions
<1>1. cache[w] \in Objects /\ Held(w, cache[w]) BY DEF Deltas, Held
<1>2. cache[w].ver \in Nat /\ cache[w].ver > 0 /\ cache[w].ver <= src[w].ver
  BY <1>1, HeldReached DEF FaithInv, FaithObjects, Faithful
<1>3. src[w].st # "none" BY <1>2 DEF SourceInv
<1>4. cache[w].ver = src[w].ver => InSync(w)
  <2>1. src[w].st = "live" => ~cache[w].del
    BY <1>1 DEF CacheInv, ReachedObject, Reached
  <2>2. cache[w].ver = src[w].ver /\ src[w].st \in {"deleting", "gone"} => cache[w].del
    BY <1>1 DEF FaithInv, FaithObjects, Faithful
  <2>3. src[w].st \in {"live", "deleting", "gone"} BY <1>3
  <2> QED BY <2>1, <2>2, <2>3, ObjectsPresent, <1>1 DEF InSync
<1> QED BY <1>1, <1>2, <1>3, <1>4

LEMMA InSyncStays ==
    ASSUME NEW w \in Works, UNCHANGED src, cache'[w] = cache[w], InSync(w) PROVE InSync(w)'
BY DEF InSync

\* The only source answers for all works: with an event for each that the agent
\* has in another version.
LEMMA AnswerGood ==
    ASSUME Base, NEW r \in requests, r.vers = CachedVersions
    PROVE  /\ \A e \in Respond(r) : Good(e.work, e.ver, e.del)
           /\ \A w \in Works : InSync(w) \/ \E e \in Respond(r) : e.work = w
<1> USE DEF Base, IInv, TypeOK, Versions
<1>1. Listed(r.to) = {w \in Works : src[w].st \in {"live", "deleting"}}
  <2>1. \A w \in Works : Owner[w] = r.to BY ConstantsOK DEF OneSource, Requests
  <2> QED BY <2>1 DEF Listed
<1>2. \A w \in Works : r.vers[w] = IF cache[w] = Absent THEN 0 ELSE cache[w].ver
  BY DEF CachedVersions
<1>3. ASSUME NEW w \in Listed(r.to),
             NEW e, e = Event(w, src[w].ver, src[w].st = "deleting")
      PROVE  e.work = w /\ Good(e.work, e.ver, e.del)
  <2>1. e.work = w /\ e.ver = src[w].ver /\ (e.del <=> src[w].st = "deleting")
    BY <1>3 DEF Event
  <2> QED BY <1>1, <2>1 DEF Good
<1>4. ASSUME NEW w \in Works \ Listed(r.to), r.vers[w] > 0,
             NEW e, e = Event(w, r.vers[w], TRUE)
      PROVE  e.work = w /\ Good(e.work, e.ver, e.del)
  <2>1. src[w].st = "gone" BY <1>1, <1>2, <1>4, SameVersion
  <2>2. e.work = w /\ e.del BY <1>4 DEF Event
  <2> QED BY <2>1, <2>2 DEF Good
<1>5. ASSUME NEW e \in Respond(r) PROVE Good(e.work, e.ver, e.del)
  <2>1. CASE \E w \in Listed(r.to) : e = Event(w, src[w].ver, src[w].st = "deleting")
    <3>1. PICK w \in Listed(r.to) : e = Event(w, src[w].ver, src[w].st = "deleting") BY <2>1
    <3> QED BY <1>3, <3>1
  <2>2. CASE \E w \in Works \ Listed(r.to) : r.vers[w] > 0 /\ e = Event(w, r.vers[w], TRUE)
    <3>1. PICK w \in Works \ Listed(r.to) : r.vers[w] > 0 /\ e = Event(w, r.vers[w], TRUE)
      BY <2>2
    <3> QED BY <1>4, <3>1
  <2> QED BY <1>5, <2>1, <2>2 DEF Respond
<1>6. ASSUME NEW w \in Works PROVE InSync(w) \/ \E e \in Respond(r) : e.work = w
  <2>1. CASE w \in Listed(r.to) /\ src[w].ver > r.vers[w]
    <3>1. Event(w, src[w].ver, src[w].st = "deleting") \in Respond(r) BY <2>1 DEF Respond
    <3> QED BY <1>3, <2>1, <3>1
  <2>2. CASE w \in Listed(r.to) /\ ~(src[w].ver > r.vers[w])
    <3>1. src[w].ver > 0 BY <1>1, <2>2 DEF FaithInv, NumberedInv
    <3>2. cache[w] # Absent BY <1>2, <2>2, <3>1
    <3>3. cache[w].ver = src[w].ver
      BY <1>2, <2>2, <3>2, SameVersion DEF Objects
    <3> QED BY <3>2, <3>3, SameVersion
  <2>3. CASE w \notin Listed(r.to) /\ r.vers[w] > 0
    <3>1. Event(w, r.vers[w], TRUE) \in Respond(r) BY <2>3 DEF Respond
    <3> QED BY <1>4, <2>3, <3>1
  <2>4. CASE w \notin Listed(r.to) /\ ~(r.vers[w] > 0)
    <3>1. cache[w] = Absent BY <1>2, <2>4, SameVersion
    <3>2. src[w].st \in {"none", "gone"} BY <1>1, <2>4
    <3> QED BY <3>1, <3>2 DEF InSync
  <2> QED BY <2>1, <2>2, <2>3, <2>4
<1> QED BY <1>5, <1>6

-----------------------------------------------------------------------------
(* The repair, step by step.                                               *)

LEMMA InitClean == Init => CleanInv
BY DEF Init, CleanInv

LEMMA ReceiveRequestClean ==
    ASSUME Base, Repairing, NEW r \in requests, ReceiveRequest(r) PROVE Repairing'
<1> USE DEF Base, IInv, TypeOK
<1>1. r.vers = CachedVersions /\ Quiet BY DEF Repairing
<1>2. requests' = {}
  <2>1. \A q \in requests : q = r BY <1>1 DEF Repairing, Requests, OneSource
  <2> QED BY <2>1 DEF ReceiveRequest
<1>3. specs' = Respond(r) /\ UNCHANGED <<src, agent>> BY <1>1 DEF ReceiveRequest, Quiet
<1>4. GoodOnWay' BY <1>1, <1>3, AnswerGood DEF GoodOnWay, Quiet, Good, agent
<1>5. ASSUME NEW w \in Works PROVE InSync(w)' \/ Coming(w)'
  BY <1>1, <1>3, AnswerGood, InSyncStays DEF Coming, agent
<1> QED BY <1>2, <1>3, <1>4, <1>5 DEF Repairing, agent

\* An event that needs no action finds the work in sync.
LEMMA DecideClean ==
    ASSUME Base, Repairing, NEW e \in specs, Decide(e) PROVE Repairing'
<1> USE DEF Base, IInv, TypeOK
<1>1. requests = {} BY DEF Repairing, Quiet
<1>2. UNCHANGED <<src, requests, fifo, cache, patches>> BY DEF Decide
<1>3. e.work \in Works /\ Good(e.work, e.ver, e.del) BY DEF SpecEvents, Repairing, GoodOnWay
<1> DEFINE added == [ver |-> e.ver, del |-> e.del, fin |-> FALSE]
<1>4. added \in Objects /\ GoodObject(e.work, added)
  <2>1. added.ver = e.ver /\ added.del = e.del OBVIOUS
  <2>2. added \in Objects BY DEF Objects, SpecEvents
  <2> HIDE DEF added
  <2> QED BY <1>3, <2>1, <2>2, ObjectsPresent DEF GoodObject
<1>5. GoodOnWay'
  <2>1. specs' \subseteq specs BY DEF Decide, TakeSpec
  <2>2. \A h \in handling' : h \in handling \/ (h.evt = e /\ cache[e.work] # Absent)
    BY DEF Decide, SpecAction
  <2>3. receiving' \subseteq receiving \cup {[work |-> e.work, obj |-> added]} BY DEF Decide
  <2> HIDE DEF added
  <2>4. \A p \in receiving' : p \in receiving \/ (p.work = e.work /\ p.obj = added)
    BY <2>3
  <2> QED BY <1>2, <1>3, <1>4, <2>1, <2>2, <2>4 DEF Repairing, GoodOnWay, GoodObject, Good
<1>6. ASSUME NEW w \in Works PROVE InSync(w)' \/ Coming(w)'
  <2>1. CASE w = e.work /\ SpecAction(e) = "none"
    <3>1. cache[w] # Absent /\ ~e.del /\ e.ver = cache[w].ver BY <2>1 DEF SpecAction
    <3>2. src[w].st = "live" /\ e.ver = src[w].ver
      BY <1>3, <2>1, <3>1 DEF Good
    <3>3. InSync(w) BY <3>1, <3>2, SameVersion
    <3> QED BY <1>2, <3>3, InSyncStays
  <2>2. CASE w = e.work /\ SpecAction(e) \in {"Modified", "Deleted"}
    <3>1. [action |-> SpecAction(e), evt |-> e] \in handling' BY <2>2 DEF Decide
    <3> QED BY <2>2, <3>1 DEF Coming
  <2>3. CASE w = e.work /\ SpecAction(e) = "Added"
    <3>1. [work |-> e.work, obj |-> added] \in receiving' BY <2>3 DEF Decide
    <3> QED BY <2>3, <3>1 DEF Coming
  <2>4. CASE w # e.work
    <3>1. InSync(w) \/ Coming(w) BY DEF Repairing
    <3>2. Coming(w) => Coming(w)'
      <4>1. specs \ {e} \subseteq specs' /\ handling \subseteq handling'
            /\ receiving \subseteq receiving'
        BY DEF Decide, TakeSpec
      <4> QED BY <1>1, <1>2, <2>4, <4>1 DEF Coming
    <3> QED BY <1>2, <3>1, <3>2, InSyncStays
  <2>5. SpecAction(e) \in {"none", "Added", "Modified", "Deleted"} BY DEF SpecAction
  <2> QED BY <2>1, <2>2, <2>3, <2>4, <2>5
<1> QED BY <1>1, <1>2, <1>5, <1>6 DEF Repairing

\* An event that the handler ignores finds the work in sync too.
LEMMA HandleClean ==
    ASSUME Base, Repairing, NEW h \in handling, Handle(h) PROVE Repairing'
<1> USE DEF Base, IInv, TypeOK
<1> DEFINE x == h.evt.work
<1>1. requests = {} BY DEF Repairing, Quiet
<1>2. UNCHANGED <<src, specs, requests, fifo, cache, patches>> BY DEF Handle, net
<1>3. /\ x \in Works /\ Good(x, h.evt.ver, h.evt.del) /\ cache[x] # Absent
      /\ cache[x] \in Objects
  BY DEF SpecEvents, Repairing, GoodOnWay, Deltas
<1>4. ~Ignored(h, cache[x]) => GoodObject(x, Handled(h, cache[x]))
  <2>1. Handled(h, cache[x]) # Absent BY <1>3, HandledType, ObjectsPresent
  <2>2. CASE h.action = "Modified"
    <3>1. ~h.evt.del BY <2>2 DEF FaithInv, FaithHandling
    <3>2. Handled(h, cache[x]) = [ver |-> h.evt.ver, del |-> FALSE, fin |-> cache[x].fin]
      BY <2>2 DEF Handled
    <3> QED BY <1>3, <2>1, <3>1, <3>2 DEF Good, GoodObject
  <2>3. CASE h.action = "Deleted"
    <3>1. Handled(h, cache[x]).del BY <1>3, <2>3 DEF Handled, Objects
    <3>2. h.evt.del /\ src[x].st # "live" BY <1>3, <2>3 DEF HandlingInv, Good
    <3> QED BY <1>3, <2>1, <3>1, <3>2 DEF Good, GoodObject
  <2> QED BY <2>2, <2>3
<1>5. GoodOnWay'
  <2>1. \A p \in receiving' : p \in receiving \/
           (p.work = x /\ ~Ignored(h, cache[x]) /\ p.obj = Handled(h, cache[x]))
    BY DEF Handle
  <2>2. handling' \subseteq handling BY DEF Handle
  <2> HIDE DEF x
  <2> QED BY <1>2, <1>4, <2>1, <2>2 DEF Repairing, GoodOnWay, GoodObject, Good
<1>6. ASSUME NEW w \in Works PROVE InSync(w)' \/ Coming(w)'
  <2>1. CASE w = x /\ Ignored(h, cache[x])
    <3>1. h.action = "Modified" /\ h.evt.ver <= cache[x].ver BY <1>3, <2>1 DEF Ignored
    <3>2. ~h.evt.del BY <3>1 DEF FaithInv, FaithHandling
    <3>3. src[x].st = "live" /\ h.evt.ver = src[x].ver BY <1>3, <3>2 DEF Good
    <3>4. cache[x].ver = src[x].ver
      BY <1>3, <3>1, <3>3, SameVersion DEF Objects, Versions
    <3> QED BY <1>2, <1>3, <2>1, <3>4, SameVersion, InSyncStays
  <2>2. CASE w = x /\ ~Ignored(h, cache[x])
    <3>1. [work |-> x, obj |-> Handled(h, cache[x])] \in receiving' BY <2>2 DEF Handle
    <3> QED BY <2>2, <3>1 DEF Coming
  <2>3. CASE w # x
    <3>1. InSync(w) \/ Coming(w) BY DEF Repairing
    <3>2. handling \ {h} \subseteq handling' /\ receiving \subseteq receiving' BY DEF Handle
    <3> QED BY <1>1, <1>2, <2>3, <3>1, <3>2, InSyncStays DEF Coming
  <2> QED BY <2>1, <2>2, <2>3
<1> QED BY <1>1, <1>2, <1>5, <1>6 DEF Repairing

LEMMA ReceiveClean ==
    ASSUME Base, Repairing, NEW p \in receiving, Receive(p) PROVE Repairing'
<1> USE DEF Base, IInv, TypeOK
<1>1. requests = {} BY DEF Repairing, Quiet
<1>2. UNCHANGED <<src, specs, requests, handling, cache, patches>> BY DEF Receive, net
<1>3. p.work \in Works /\ GoodObject(p.work, p.obj) BY DEF Repairing, GoodOnWay
<1>4. \A w \in Works \ {p.work} : fifo'[w] = fifo[w] BY DEF Receive
<1>5. fifo'[p.work] = Append(fifo[p.work], p.obj) /\ fifo[p.work] \in Seq(Deltas)
  BY <1>3 DEF Receive
<1>6. \A i \in 1..Len(fifo'[p.work]) : fifo'[p.work][i] = p.obj \/
          (i \in 1..Len(fifo[p.work]) /\ fifo'[p.work][i] = fifo[p.work][i])
  BY <1>5
<1>7. GoodOnWay'
  <2>1. receiving' \subseteq receiving BY DEF Receive
  <2>2. \A w \in Works : \A i \in 1..Len(fifo'[w]) : GoodObject(w, fifo'[w][i])
    <3> SUFFICES ASSUME NEW w \in Works, NEW i \in 1..Len(fifo'[w])
                 PROVE  GoodObject(w, fifo'[w][i])
      OBVIOUS
    <3>1. CASE w = p.work BY <1>3, <1>6, <3>1 DEF Repairing, GoodOnWay
    <3>2. CASE w # p.work BY <1>4, <3>2 DEF Repairing, GoodOnWay
    <3> QED BY <3>1, <3>2
  <2> QED BY <1>2, <2>1, <2>2 DEF Repairing, GoodOnWay, GoodObject, Good
<1>8. ASSUME NEW w \in Works PROVE InSync(w)' \/ Coming(w)'
  <2>1. fifo'[p.work] # <<>>
    <3>1. Len(fifo'[p.work]) > 0 BY <1>5
    <3> QED BY <3>1
  <2>2. InSync(w) \/ Coming(w) BY DEF Repairing
  <2>3. receiving \ {p} \subseteq receiving' BY DEF Receive
  <2> QED BY <1>1, <1>2, <1>4, <2>1, <2>2, <2>3, InSyncStays DEF Coming
<1> QED BY <1>1, <1>2, <1>7, <1>8 DEF Repairing

LEMMA ApplyClean ==
    ASSUME Base, Repairing, NEW x \in Works, Apply(x) PROVE Repairing'
<1> USE DEF Base, IInv, TypeOK
<1>1. requests = {} BY DEF Repairing, Quiet, Apply
<1>2. UNCHANGED <<src, specs, requests, handling, receiving, patches>> BY DEF Apply, net
<1>3. \A w \in Works \ {x} : fifo'[w] = fifo[w] /\ cache'[w] = cache[w] BY DEF Apply
<1>4. fifo[x] \in Seq(Deltas) /\ fifo[x] # <<>> /\ fifo'[x] = Tail(fifo[x])
      /\ cache'[x] = fifo[x][1] /\ 1 \in 1..Len(fifo[x])
  BY DEF Apply
<1>5. \A i \in 1..Len(fifo'[x]) : i + 1 \in 1..Len(fifo[x]) /\ fifo'[x][i] = fifo[x][i + 1]
  BY <1>4, TailElement
<1>6. GoodObject(x, cache'[x]) BY <1>4 DEF Repairing, GoodOnWay
<1>7. GoodOnWay'
  <2>1. \A w \in Works : \A i \in 1..Len(fifo'[w]) : GoodObject(w, fifo'[w][i])
    <3> SUFFICES ASSUME NEW w \in Works, NEW i \in 1..Len(fifo'[w])
                 PROVE  GoodObject(w, fifo'[w][i])
      OBVIOUS
    <3>1. CASE w = x BY <1>5, <3>1 DEF Repairing, GoodOnWay
    <3>2. CASE w # x BY <1>3, <3>2 DEF Repairing, GoodOnWay
    <3> QED BY <3>1, <3>2
  <2>2. \A h \in handling : h.evt.work \in Works BY DEF SpecEvents
  <2>3. \A h \in handling : cache'[h.evt.work] # Absent
    BY <1>3, <1>6, <2>2 DEF Repairing, GoodOnWay, GoodObject
  <2> QED BY <1>2, <2>1, <2>3 DEF Repairing, GoodOnWay, GoodObject, Good
<1>8. ASSUME NEW w \in Works PROVE InSync(w)' \/ Coming(w)'
  <2>1. CASE w = x
    <3>1. src[x].st \in {"none", "live", "deleting", "gone"} OBVIOUS
    <3>2. cache'[x] # Absent /\ src[x].st # "none" BY <1>6 DEF GoodObject, Good
    <3>3. InSync(x)' BY <1>2, <1>6, <3>1, <3>2 DEF GoodObject, Good, InSync
    <3> QED BY <2>1, <3>3
  <2>2. CASE w # x
    BY <1>1, <1>2, <1>3, <2>2, InSyncStays DEF Repairing, Coming
  <2> QED BY <2>1, <2>2
<1> QED BY <1>1, <1>2, <1>7, <1>8 DEF Repairing

\* A resync begins when nothing is under way.
LEMMA ResyncClean == ASSUME Base, Resync, Idle PROVE Repairing'
<1>1. UNCHANGED <<src, specs, agent>> /\ requests' = [to: Sources, vers: {CachedVersions}]
  BY DEF Resync, Idle
<1>2. CachedVersions' = CachedVersions BY <1>1 DEF CachedVersions, agent
<1>3. \A r \in requests' : r.vers = CachedVersions' BY <1>1, <1>2
<1>4. Quiet' /\ GoodOnWay' /\ patches' = {} BY <1>1 DEF Idle, Quiet, GoodOnWay, agent
<1>5. ASSUME NEW w \in Works PROVE requests' # {}
  <2>1. [to |-> Owner[w], vers |-> CachedVersions] \in requests' BY <1>1, ConstantsOK
  <2> QED BY <2>1
<1> QED BY <1>3, <1>4, <1>5 DEF Repairing, Coming

LEMMA RestartClean == ASSUME Base, Restart, clean' PROVE Repairing'
<1>1. specs' = {} /\ requests' = [to: Sources, vers: {EmptyList}] BY DEF Restart
<1>2. /\ handling' = {} /\ receiving' = {} /\ patches' = {}
      /\ fifo' = [w \in Works |-> <<>>] /\ cache' = [w \in Works |-> Absent]
  BY DEF Restart
<1>3. CachedVersions' = EmptyList BY <1>2 DEF CachedVersions, EmptyList
<1>4. \A r \in requests' : r.vers = CachedVersions' BY <1>1, <1>3
<1>5. Quiet' /\ GoodOnWay' BY <1>1, <1>2 DEF Quiet, GoodOnWay
<1>6. ASSUME NEW w \in Works PROVE requests' # {}
  <2>1. [to |-> Owner[w], vers |-> EmptyList] \in requests' BY <1>1, ConstantsOK
  <2> QED BY <2>1
<1> QED BY <1>2, <1>4, <1>5, <1>6 DEF Repairing, Coming

LEMMA NextClean == ASSUME Base, CleanInv, [Next]_vars PROVE CleanInv'
<1> SUFFICES ASSUME clean' PROVE Repairing' BY DEF CleanInv
<1>1. CASE Resync BY <1>1, ResyncClean DEF Resync
<1>2. CASE Restart BY <1>2, RestartClean
<1>3. CASE \/ \E w \in Works : Create(w) \/ Update(w) \/ Delete(w)
                              \/ PatchStatus(w) \/ PatchFinalizer(w)
           \/ \E w \in reports : ReceiveReport(w)
           \/ Lose
  BY <1>3 DEF Create, Update, Delete, Change, PatchStatus, PatchFinalizer, StartPatch,
     ReceiveReport, Lose
<1>4. CASE \/ \E r \in requests : ReceiveRequest(r)
           \/ \E e \in specs : Decide(e)
           \/ \E h \in handling : Handle(h)
           \/ \E p \in receiving : Receive(p)
           \/ \E w \in Works : Apply(w)
  <2>1. clean BY <1>4 DEF ReceiveRequest, Decide, Handle, Receive, Apply
  <2>2. Repairing BY <2>1 DEF CleanInv
  <2> QED BY <1>4, <2>2, ReceiveRequestClean, DecideClean, HandleClean, ReceiveClean, ApplyClean
<1>5. CASE \E p \in patches : FinishPatch(p) \/ FailPatch(p)
  <2>1. clean BY <1>5 DEF FinishPatch, FailPatch
  <2> QED BY <1>5, <2>1 DEF CleanInv, Repairing
<1>6. CASE UNCHANGED vars
  <2>1. clean /\ Repairing BY <1>6 DEF vars, CleanInv
  <2>2. UNCHANGED <<src, specs, requests, handling, receiving, fifo, cache, patches>>
    BY <1>6 DEF vars, net, agent
  <2> QED BY <2>1, <2>2 DEF Repairing, Quiet, CachedVersions, GoodOnWay, GoodObject, Good,
        InSync, Coming
<1> QED BY <1>1, <1>2, <1>3, <1>4, <1>5, <1>6 DEF Next

\* Once the answers of a quiet resync have all been applied, the agent agrees
\* with its source on every work.  The hypothesis is needed: a second source
\* answers for works that it does not know.
THEOREM RepairsAfterResync ==
    ASSUME OneSource PROVE Spec => []ResyncRepairs
<1>1. FaithInv /\ IInv /\ [Next]_vars => FaithInv' BY NextFaith
<1>2. CleanInv /\ FaithInv /\ IInv /\ [Next]_vars => CleanInv' BY NextClean DEF Base
<1>3. CleanInv => ResyncRepairs
  BY DEF CleanInv, Repairing, Coming, Idle, ResyncRepairs
<1> QED BY <1>1, <1>2, <1>3, InitInv, NextInv, InitFaith, InitClean, PTL DEF Spec
=============================================================================
