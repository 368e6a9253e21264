-------------------------- MODULE BaseClientProofs --------------------------
(***************************************************************************)
(* Theorems about BaseClient, for any set of clients, receivers,           *)
(* publishers and subscribers and any number of broken connections.        *)
(***************************************************************************)
EXTENDS BaseClient, FiniteSetTheorems, TLAPS

\* A working connection has reported no error yet.
NoErrorWhileAlive == \A c \in alive : errs[c] = 0

\* The RWMutex: who holds it for reading, and that a publisher's client stays
\* the current one because only a writer with no reader replaces it.
LockInv ==
    /\ \A p \in Publishers : pubPc[p] = "sending" => p \in readers
    /\ SendOnCurrentClient

\* receiverChan is closed by a cancelled subscription only.
ChanInv ==
    /\ chan = "closed" => cancelled
    /\ PanicOnlyInShutdown

\* With one error per broken connection, the only client that can have an
\* error pending is the one conn waits on, and none has once conn handles it.
ErrorInv ==
    /\ alive \subseteq {connClient}
    /\ \A c \in Clients : errs[c] > 0 => c = connClient
    /\ connPc \in {"stop", "sendStop", "setNil", "dial"} =>
          alive = {} /\ \A c \in Clients : errs[c] = 0

Inv == TypeOK /\ NoErrorWhileAlive /\ LockInv /\ ChanInv

-----------------------------------------------------------------------------

\* Cancelling and forgetting a context keep every receiver well typed.
LEMMA ReceiversTyped ==
    ASSUME rcv \in [Slots -> Receivers]
    PROVE  /\ CancelReceivers \in [Slots -> Receivers]
           /\ ForgetReceivers \in [Slots -> Receivers]
<1>1. ASSUME NEW s \in Slots, rcv[s].st \in {"queued", "active"}
      PROVE  rcv[s] \in Running
  <2>1. rcv[s] \in Receivers
    OBVIOUS
  <2>2. QED
    BY <1>1, <2>1 DEF Receivers, Free, Spawned
<1>2. ASSUME NEW r \in Running
      PROVE  /\ [r EXCEPT !.ctx = "cancelled"] \in Running
             /\ [r EXCEPT !.ctx = "orphan"] \in Running
  BY <1>2 DEF Running
<1>3. CancelReceivers \in [Slots -> Receivers]
  BY <1>1, <1>2 DEF CancelReceivers, Receivers
<1>4. ForgetReceivers \in [Slots -> Receivers]
  BY <1>1, <1>2 DEF ForgetReceivers, Receivers
<1>5. QED
  BY <1>3, <1>4

\* A receiver with a client is a running one; the three values that the
\* receiver steps store are well typed.
LEMMA ReceiverSteps ==
    ASSUME TypeOK, NEW s \in Slots
    PROVE  /\ Free \in Receivers
           /\ Spawned \in Receivers
           /\ rcv[s].st \in {"queued", "active"} =>
                 /\ rcv[s].client \in Clients
                 /\ [rcv[s] EXCEPT !.st = "active"] \in Receivers
           /\ subClient # None =>
                 [st |-> "queued", client |-> subClient, ctx |-> subCtx] \in Receivers
<1>1. rcv[s] \in Receivers
  BY DEF TypeOK
<1>2. Free \in Receivers /\ Spawned \in Receivers
  BY DEF Receivers
<1>3. rcv[s].st \in {"queued", "active"} => rcv[s] \in Running
  BY <1>1 DEF Receivers, Free, Spawned
<1>4. \A r \in Running : r.client \in Clients /\ [r EXCEPT !.st = "active"] \in Running
  BY DEF Running
<1>5. subClient # None =>
         [st |-> "queued", client |-> subClient, ctx |-> subCtx] \in Running
  BY DEF TypeOK, Running
<1>6. QED
  BY <1>2, <1>3, <1>4, <1>5 DEF Receivers

\* The initial state satisfies the invariant.
LEMMA InitInv == Init => Inv
<1> SUFFICES ASSUME Init PROVE Inv
  OBVIOUS
<1>1. rcv \in [Slots -> Receivers]
  BY DEF Init, Receivers
<1>2. /\ errs \in [Clients -> 0..ErrorsPerDrop]
      /\ drops \in 0..MaxDrops
  BY ConstantsOK DEF Init
<1>3. TypeOK
  BY <1>1, <1>2 DEF Init, TypeOK, Goroutines, ConnPcs, SubPcs
<1>4. NoErrorWhileAlive /\ LockInv /\ ChanInv
  BY DEF Init, NoErrorWhileAlive, LockInv, ChanInv, SendOnCurrentClient,
     PanicOnlyInShutdown
<1>5. QED
  BY <1>3, <1>4 DEF Inv

\* Every step preserves the types.
LEMMA TypeStep ==
    ASSUME TypeOK, NoErrorWhileAlive, Next
    PROVE  TypeOK'
<1> USE ConstantsOK DEF TypeOK, connVars, lockVars, subVars, netVars, pubVars
<1>1. CASE ConnDone
  BY <1>1 DEF ConnDone, ConnPcs
<1>2. CASE ConnSignal
  BY <1>2 DEF ConnSignal, ConnPcs, Goroutines
<1>3. CASE ConnSendClosed
  BY <1>3 DEF ConnSendClosed
<1>4. CASE ConnLock
  BY <1>4 DEF ConnLock, Announce, Goroutines
<1>5. CASE ConnReset
  BY <1>5 DEF ConnReset, Exclusive, ConnPcs
<1>6. ASSUME NEW c \in Clients, ConnError(c) PROVE TypeOK'
  BY <1>6 DEF ConnError, ConnPcs
<1>7. ASSUME NEW c \in Clients, ConnDial(c) PROVE TypeOK'
  BY <1>7 DEF ConnDial, ConnPcs, NoErrorWhileAlive
<1>8. CASE SubStart
  BY <1>8 DEF SubStart, SubPcs
<1>9. CASE SubLoop
  <2>1. rcv' \in [Slots -> Receivers]
    BY <1>9, ReceiverSteps DEF SubLoop
  <2>2. QED
    BY <1>9, <2>1 DEF SubLoop, SubPcs
<1>10. CASE SubDone
  BY <1>10, ReceiversTyped DEF SubDone, SubPcs
<1>11. CASE SubStop
  BY <1>11, ReceiversTyped DEF SubStop, SubPcs, ConnPcs
<1>12. CASE SubRestart
  BY <1>12 DEF SubRestart, SubPcs, ConnPcs
<1>13. CASE SubReread
  BY <1>13, ReceiversTyped DEF SubReread, SubPcs
<1>14. CASE Cancel
  BY <1>14 DEF Cancel
<1>15. ASSUME NEW s \in Slots, RcvRun(s) PROVE TypeOK'
  BY <1>15, ReceiverSteps DEF RcvRun
<1>16. ASSUME NEW s \in Slots, RcvOpen(s) PROVE TypeOK'
  BY <1>16, ReceiverSteps DEF RcvOpen
<1>17. ASSUME NEW s \in Slots, RcvFail(s) PROVE TypeOK'
  BY <1>17, ReceiverSteps DEF RcvFail
<1>18. ASSUME NEW s \in Slots, RcvStop(s) PROVE TypeOK'
  <2>1. rcv' \in [Slots -> Receivers] /\ rcv[s].client \in Clients
    BY <1>18, ReceiverSteps DEF RcvStop
  <2>2. errs' \in [Clients -> 0..ErrorsPerDrop]
    BY <1>18, <2>1 DEF RcvStop, NoErrorWhileAlive
  <2>3. QED
    BY <1>18, <2>1, <2>2 DEF RcvStop
<1>19. ASSUME NEW p \in Publishers, PublishCall(p) PROVE TypeOK'
  BY <1>19 DEF PublishCall
<1>20. ASSUME NEW p \in Publishers, Publish(p) PROVE TypeOK'
  BY <1>20 DEF Publish, Goroutines
<1>21. ASSUME NEW p \in Publishers, PublishReturn(p) PROVE TypeOK'
  BY <1>21 DEF PublishReturn
<1>22. ASSUME NEW s \in Subscribers, SubscribeLock(s) PROVE TypeOK'
  BY <1>22 DEF SubscribeLock, Announce, Goroutines
<1>23. ASSUME NEW s \in Subscribers, Subscribe(s) PROVE TypeOK'
  BY <1>23 DEF Subscribe, Exclusive, SubPcs
<1>24. ASSUME NEW c \in Clients, Drop(c) PROVE TypeOK'
  BY <1>24 DEF Drop
<1>25. ASSUME NEW p \in Publishers, PublishRefused(p) PROVE TypeOK'
  BY <1>25 DEF PublishRefused
<1>26. QED
  BY <1>1, <1>2, <1>3, <1>4, <1>5, <1>6, <1>7, <1>8, <1>9, <1>10, <1>11,
     <1>12, <1>13, <1>14, <1>15, <1>16, <1>17, <1>18, <1>19, <1>20, <1>21,
     <1>22, <1>23, <1>24, <1>25
     DEF Next, Step, Conn, ConnRedial, Sub, Receiver, Publisher

\* Every step keeps the errors of working connections at zero.
LEMMA NoErrorStep ==
    ASSUME TypeOK, NoErrorWhileAlive, Next
    PROVE  NoErrorWhileAlive'
<1> USE DEF NoErrorWhileAlive, TypeOK, connVars, lockVars, subVars, netVars, pubVars
<1>1. CASE ConnDone
  BY <1>1 DEF ConnDone
<1>2. CASE ConnSignal
  BY <1>2 DEF ConnSignal
<1>3. CASE ConnSendClosed
  BY <1>3 DEF ConnSendClosed
<1>4. CASE ConnLock
  BY <1>4 DEF ConnLock
<1>5. CASE ConnReset
  BY <1>5 DEF ConnReset
<1>6. ASSUME NEW c \in Clients, ConnError(c) PROVE NoErrorWhileAlive'
  BY <1>6 DEF ConnError
<1>7. ASSUME NEW c \in Clients, ConnDial(c) PROVE NoErrorWhileAlive'
  BY <1>7 DEF ConnDial, Unused
<1>8. CASE SubStart
  BY <1>8 DEF SubStart
<1>9. CASE SubLoop
  BY <1>9 DEF SubLoop
<1>10. CASE SubDone
  BY <1>10 DEF SubDone
<1>11. CASE SubStop
  BY <1>11 DEF SubStop
<1>12. CASE SubRestart
  BY <1>12 DEF SubRestart
<1>13. CASE SubReread
  BY <1>13 DEF SubReread
<1>14. CASE Cancel
  BY <1>14 DEF Cancel
<1>15. ASSUME NEW s \in Slots, RcvRun(s) PROVE NoErrorWhileAlive'
  BY <1>15 DEF RcvRun
<1>16. ASSUME NEW s \in Slots, RcvOpen(s) PROVE NoErrorWhileAlive'
  BY <1>16 DEF RcvOpen
<1>17. ASSUME NEW s \in Slots, RcvFail(s) PROVE NoErrorWhileAlive'
  BY <1>17 DEF RcvFail
<1>18. ASSUME NEW s \in Slots, RcvStop(s) PROVE NoErrorWhileAlive'
  BY <1>18, ReceiverSteps DEF RcvStop
<1>19. ASSUME NEW p \in Publishers, PublishCall(p) PROVE NoErrorWhileAlive'
  BY <1>19 DEF PublishCall
<1>20. ASSUME NEW p \in Publishers, Publish(p) PROVE NoErrorWhileAlive'
  BY <1>20 DEF Publish
<1>21. ASSUME NEW p \in Publishers, PublishReturn(p) PROVE NoErrorWhileAlive'
  BY <1>21 DEF PublishReturn
<1>22. ASSUME NEW s \in Subscribers, SubscribeLock(s) PROVE NoErrorWhileAlive'
  BY <1>22 DEF SubscribeLock
<1>23. ASSUME NEW s \in Subscribers, Subscribe(s) PROVE NoErrorWhileAlive'
  BY <1>23 DEF Subscribe
<1>24. ASSUME NEW c \in Clients, Drop(c) PROVE NoErrorWhileAlive'
  BY <1>24 DEF Drop
<1>25. ASSUME NEW p \in Publishers, PublishRefused(p) PROVE NoErrorWhileAlive'
  BY <1>25 DEF PublishRefused
<1>26. QED
  BY <1>1, <1>2, <1>3, <1>4, <1>5, <1>6, <1>7, <1>8, <1>9, <1>10, <1>11,
     <1>12, <1>13, <1>14, <1>15, <1>16, <1>17, <1>18, <1>19, <1>20, <1>21,
     <1>22, <1>23, <1>24, <1>25
     DEF Next, Step, Conn, ConnRedial, Sub, Receiver, Publisher

\* A writer replaces the client only when no publisher is sending on it.
LEMMA LockStep ==
    ASSUME TypeOK, LockInv, Next
    PROVE  LockInv'
<1> USE DEF LockInv, SendOnCurrentClient, TypeOK, connVars, lockVars, subVars,
            netVars, pubVars
<1>1. CASE ConnDone
  BY <1>1 DEF ConnDone
<1>2. CASE ConnSignal
  BY <1>2 DEF ConnSignal
<1>3. CASE ConnSendClosed
  BY <1>3 DEF ConnSendClosed
<1>4. CASE ConnLock
  BY <1>4 DEF ConnLock
<1>5. CASE ConnReset
  BY <1>5, ConstantsOK DEF ConnReset, Exclusive
<1>6. ASSUME NEW c \in Clients, ConnError(c) PROVE LockInv'
  BY <1>6 DEF ConnError
<1>7. ASSUME NEW c \in Clients, ConnDial(c) PROVE LockInv'
  BY <1>7 DEF ConnDial
<1>8. CASE SubStart
  BY <1>8 DEF SubStart
<1>9. CASE SubLoop
  BY <1>9 DEF SubLoop
<1>10. CASE SubDone
  BY <1>10 DEF SubDone
<1>11. CASE SubStop
  BY <1>11, ConstantsOK DEF SubStop
<1>12. CASE SubRestart
  BY <1>12, ConstantsOK DEF SubRestart
<1>13. CASE SubReread
  BY <1>13 DEF SubReread
<1>14. CASE Cancel
  BY <1>14 DEF Cancel
<1>15. ASSUME NEW s \in Slots, RcvRun(s) PROVE LockInv'
  BY <1>15 DEF RcvRun
<1>16. ASSUME NEW s \in Slots, RcvOpen(s) PROVE LockInv'
  BY <1>16 DEF RcvOpen
<1>17. ASSUME NEW s \in Slots, RcvFail(s) PROVE LockInv'
  BY <1>17 DEF RcvFail
<1>18. ASSUME NEW s \in Slots, RcvStop(s) PROVE LockInv'
  BY <1>18 DEF RcvStop
<1>19. ASSUME NEW p \in Publishers, PublishCall(p) PROVE LockInv'
  BY <1>19 DEF PublishCall
<1>20. ASSUME NEW p \in Publishers, Publish(p) PROVE LockInv'
  BY <1>20 DEF Publish
<1>21. ASSUME NEW p \in Publishers, PublishReturn(p) PROVE LockInv'
  BY <1>21 DEF PublishReturn
<1>22. ASSUME NEW s \in Subscribers, SubscribeLock(s) PROVE LockInv'
  BY <1>22 DEF SubscribeLock
<1>23. ASSUME NEW s \in Subscribers, Subscribe(s) PROVE LockInv'
  BY <1>23 DEF Subscribe
<1>24. ASSUME NEW c \in Clients, Drop(c) PROVE LockInv'
  BY <1>24 DEF Drop
<1>25. ASSUME NEW p \in Publishers, PublishRefused(p) PROVE LockInv'
  BY <1>25 DEF PublishRefused
<1>26. QED
  BY <1>1, <1>2, <1>3, <1>4, <1>5, <1>6, <1>7, <1>8, <1>9, <1>10, <1>11,
     <1>12, <1>13, <1>14, <1>15, <1>16, <1>17, <1>18, <1>19, <1>20, <1>21,
     <1>22, <1>23, <1>24, <1>25
     DEF Next, Step, Conn, ConnRedial, Sub, Receiver, Publisher

\* Only SubDone closes receiverChan, and cancellation is not undone.
LEMMA ChanStep ==
    ASSUME ChanInv, Next
    PROVE  ChanInv'
<1> USE DEF ChanInv, PanicOnlyInShutdown, connVars, lockVars, subVars, netVars, pubVars
<1>1. CASE ConnDone
  BY <1>1 DEF ConnDone
<1>2. CASE ConnSignal
  BY <1>2 DEF ConnSignal
<1>3. CASE ConnSendClosed
  BY <1>3 DEF ConnSendClosed
<1>4. CASE ConnLock
  BY <1>4 DEF ConnLock
<1>5. CASE ConnReset
  BY <1>5 DEF ConnReset
<1>6. ASSUME NEW c \in Clients, ConnError(c) PROVE ChanInv'
  BY <1>6 DEF ConnError
<1>7. ASSUME NEW c \in Clients, ConnDial(c) PROVE ChanInv'
  BY <1>7 DEF ConnDial
<1>8. CASE SubStart
  BY <1>8 DEF SubStart
<1>9. CASE SubLoop
  BY <1>9 DEF SubLoop
<1>10. CASE SubDone
  BY <1>10 DEF SubDone
<1>11. CASE SubStop
  BY <1>11 DEF SubStop
<1>12. CASE SubRestart
  BY <1>12 DEF SubRestart
<1>13. CASE SubReread
  BY <1>13 DEF SubReread
<1>14. CASE Cancel
  BY <1>14 DEF Cancel
<1>15. ASSUME NEW s \in Slots, RcvRun(s) PROVE ChanInv'
  BY <1>15 DEF RcvRun
<1>16. ASSUME NEW s \in Slots, RcvOpen(s) PROVE ChanInv'
  BY <1>16 DEF RcvOpen
<1>17. ASSUME NEW s \in Slots, RcvFail(s) PROVE ChanInv'
  BY <1>17 DEF RcvFail
<1>18. ASSUME NEW s \in Slots, RcvStop(s) PROVE ChanInv'
  BY <1>18 DEF RcvStop
<1>19. ASSUME NEW p \in Publishers, PublishCall(p) PROVE ChanInv'
  BY <1>19 DEF PublishCall
<1>20. ASSUME NEW p \in Publishers, Publish(p) PROVE ChanInv'
  BY <1>20 DEF Publish
<1>21. ASSUME NEW p \in Publishers, PublishReturn(p) PROVE ChanInv'
  BY <1>21 DEF PublishReturn
<1>22. ASSUME NEW s \in Subscribers, SubscribeLock(s) PROVE ChanInv'
  BY <1>22 DEF SubscribeLock
<1>23. ASSUME NEW s \in Subscribers, Subscribe(s) PROVE ChanInv'
  BY <1>23 DEF Subscribe
<1>24. ASSUME NEW c \in Clients, Drop(c) PROVE ChanInv'
  BY <1>24 DEF Drop
<1>25. ASSUME NEW p \in Publishers, PublishRefused(p) PROVE ChanInv'
  BY <1>25 DEF PublishRefused
<1>26. QED
  BY <1>1, <1>2, <1>3, <1>4, <1>5, <1>6, <1>7, <1>8, <1>9, <1>10, <1>11,
     <1>12, <1>13, <1>14, <1>15, <1>16, <1>17, <1>18, <1>19, <1>20, <1>21,
     <1>22, <1>23, <1>24, <1>25
     DEF Next, Step, Conn, ConnRedial, Sub, Receiver, Publisher

-----------------------------------------------------------------------------

\* The inductive invariant behind the theorems below.
LEMMA InvAlways == Spec => []Inv
<1>1. Inv /\ [Next]_vars => Inv'
  <2> SUFFICES ASSUME Inv, [Next]_vars PROVE Inv'
    OBVIOUS
  <2>1. CASE Next
    BY <2>1, TypeStep, NoErrorStep, LockStep, ChanStep DEF Inv
  <2>2. CASE UNCHANGED vars
    BY <2>2 DEF vars, connVars, lockVars, subVars, netVars, pubVars, Inv, TypeOK,
       NoErrorWhileAlive, LockInv, ChanInv, SendOnCurrentClient, PanicOnlyInShutdown
  <2>3. QED
    BY <2>1, <2>2
<1>2. QED
  BY InitInv, <1>1, PTL DEF Spec

\* Every variable keeps its type; that errs stays within ErrorsPerDrop rests
\* on a working connection having reported nothing.
THEOREM TypeCorrect == Spec => []TypeOK
<1>1. Inv => TypeOK
  BY DEF Inv
<1>2. QED
  BY InvAlways, <1>1, PTL

\* publish: the client stays the current one during the whole Send.
THEOREM SendsOnCurrentClient == Spec => []SendOnCurrentClient
<1>1. Inv => SendOnCurrentClient
  BY DEF Inv, LockInv
<1>2. QED
  BY InvAlways, <1>1, PTL

\* sendReceiverSignal: no reconnection sends on a closed receiverChan unless
\* the context was cancelled.
THEOREM PanicsOnlyInShutdown == Spec => []PanicOnlyInShutdown
<1>1. Inv => PanicOnlyInShutdown
  BY DEF Inv, ChanInv
<1>2. QED
  BY InvAlways, <1>1, PTL

-----------------------------------------------------------------------------
(* What one error per connection buys.                                     *)

LEMMA ErrorStep ==
    ASSUME ErrorsPerDrop = 1, TypeOK, NoErrorWhileAlive, ErrorInv, Next
    PROVE  ErrorInv'
<1> USE DEF ErrorInv, TypeOK, NoErrorWhileAlive, connVars, lockVars, subVars, netVars, pubVars
<1>1. CASE ConnDone
  BY <1>1 DEF ConnDone
<1>2. CASE ConnSignal
  BY <1>2 DEF ConnSignal
<1>3. CASE ConnSendClosed
  BY <1>3 DEF ConnSendClosed
<1>4. CASE ConnLock
  BY <1>4 DEF ConnLock
<1>5. CASE ConnReset
  BY <1>5 DEF ConnReset
<1>6. ASSUME NEW c \in Clients, ConnError(c) PROVE ErrorInv'
  BY <1>6 DEF ConnError
<1>7. ASSUME NEW c \in Clients, ConnDial(c) PROVE ErrorInv'
  BY <1>7 DEF ConnDial
<1>8. CASE SubStart
  BY <1>8 DEF SubStart
<1>9. CASE SubLoop
  BY <1>9 DEF SubLoop
<1>10. CASE SubDone
  BY <1>10 DEF SubDone
<1>11. CASE SubStop
  BY <1>11 DEF SubStop
<1>12. CASE SubRestart
  BY <1>12 DEF SubRestart
<1>13. CASE SubReread
  BY <1>13 DEF SubReread
<1>14. CASE Cancel
  BY <1>14 DEF Cancel
<1>15. ASSUME NEW s \in Slots, RcvRun(s) PROVE ErrorInv'
  BY <1>15 DEF RcvRun
<1>16. ASSUME NEW s \in Slots, RcvOpen(s) PROVE ErrorInv'
  BY <1>16 DEF RcvOpen
<1>17. ASSUME NEW s \in Slots, RcvFail(s) PROVE ErrorInv'
  BY <1>17 DEF RcvFail
<1>18. ASSUME NEW s \in Slots, RcvStop(s) PROVE ErrorInv'
  BY <1>18, ReceiverSteps DEF RcvStop
<1>19. ASSUME NEW p \in Publishers, PublishCall(p) PROVE ErrorInv'
  BY <1>19 DEF PublishCall
<1>20. ASSUME NEW p \in Publishers, Publish(p) PROVE ErrorInv'
  BY <1>20 DEF Publish
<1>21. ASSUME NEW p \in Publishers, PublishReturn(p) PROVE ErrorInv'
  BY <1>21 DEF PublishReturn
<1>22. ASSUME NEW s \in Subscribers, SubscribeLock(s) PROVE ErrorInv'
  BY <1>22 DEF SubscribeLock
<1>23. ASSUME NEW s \in Subscribers, Subscribe(s) PROVE ErrorInv'
  BY <1>23 DEF Subscribe
<1>24. ASSUME NEW c \in Clients, Drop(c) PROVE ErrorInv'
  BY <1>24 DEF Drop
<1>25. ASSUME NEW p \in Publishers, PublishRefused(p) PROVE ErrorInv'
  BY <1>25 DEF PublishRefused
<1>26. QED
  BY <1>1, <1>2, <1>3, <1>4, <1>5, <1>6, <1>7, <1>8, <1>9, <1>10, <1>11,
     <1>12, <1>13, <1>14, <1>15, <1>16, <1>17, <1>18, <1>19, <1>20, <1>21,
     <1>22, <1>23, <1>24, <1>25
     DEF Next, Step, Conn, ConnRedial, Sub, Receiver, Publisher

\* If a broken connection reports its error once, conn only ever gives up a
\* client whose connection is broken.
THEOREM StopsOnlyBrokenClients ==
    ErrorsPerDrop = 1 => (Spec => []StopsOnlyBrokenClient)
<1> SUFFICES ASSUME ErrorsPerDrop = 1 PROVE Spec => []StopsOnlyBrokenClient
  OBVIOUS
<1>1. Init => ErrorInv
  BY DEF Init, ErrorInv
<1>2. Inv /\ ErrorInv /\ [Next]_vars => ErrorInv'
  <2> SUFFICES ASSUME Inv, ErrorInv, [Next]_vars PROVE ErrorInv'
    OBVIOUS
  <2>1. CASE Next
    BY <2>1, ErrorStep DEF Inv
  <2>2. CASE UNCHANGED vars
    BY <2>2 DEF vars, connVars, netVars, ErrorInv
  <2>3. QED
    BY <2>1, <2>2
<1>3. ErrorInv => StopsOnlyBrokenClient
  BY DEF ErrorInv, StopsOnlyBrokenClient
<1>4. QED
  BY InvAlways, <1>1, <1>2, <1>3, PTL DEF Spec

-----------------------------------------------------------------------------
(* Receivers that cannot be stopped.                                       *)

RunsWith(s, ctx) == rcv[s].st \in {"queued", "active"} /\ rcv[s].ctx = ctx
Vacant(s) == rcv[s].st = "free"

\* conn has told the subscription to stop, or found none, and has not yet told it
\* to restart.
BetweenSignals == connPc \in {"setNil", "dial", "setNew", "restart", "sendRestart"}

\* A stop signal cancels every receiver that holds a cancel function, and later
\* ones until the restart.  A restart finds an uncancelled receiver only when the stop signal came
\* before the subscription: the subscription has then spawned at most one.
OrphanInv ==
    /\ chan = "nil" <=> subPc = "none"
    /\ subPc \in {"none", "start"} => subCtx = "current" /\ \A s \in Slots : Vacant(s)
    /\ subPc = "reread" => ~BetweenSignals
    /\ subCtx = "cancelled" => \A s \in Slots : ~RunsWith(s, "current")
    /\ BetweenSignals /\ subPc = "loop" /\ subCtx = "current" => \A s \in Slots : Vacant(s)
    /\ (BetweenSignals \/ subPc = "reread") /\ subCtx = "current" =>
          /\ \A s, t \in Slots : Vacant(s) \/ Vacant(t) \/ s = t
          /\ \A s \in Slots : ~RunsWith(s, "orphan")
    /\ \A s, t \in Slots : RunsWith(s, "orphan") /\ RunsWith(t, "orphan") => s = t

\* What a step does to the receivers' states and contexts.
LEMMA CancelEffect ==
    ASSUME TypeOK, rcv' = CancelReceivers, NEW s \in Slots
    PROVE  /\ Vacant(s)' <=> Vacant(s)
           /\ ~RunsWith(s, "current")'
           /\ RunsWith(s, "orphan")' <=> RunsWith(s, "orphan")
<1>1. rcv[s] \in Receivers BY DEF TypeOK
<1>2. CASE RunsWith(s, "current")
  <2>1. rcv[s] \in Running BY <1>1, <1>2 DEF RunsWith, Receivers, Free, Spawned
  <2>2. rcv'[s] = [rcv[s] EXCEPT !.ctx = "cancelled"]
    BY <1>2 DEF CancelReceivers, RunsWith
  <2>3. rcv'[s].st = rcv[s].st /\ rcv'[s].ctx = "cancelled" BY <2>1, <2>2 DEF Running
  <2> QED BY <1>2, <2>3 DEF RunsWith, Vacant
<1>3. CASE ~RunsWith(s, "current")
  <2>1. rcv'[s] = rcv[s] BY <1>3 DEF CancelReceivers, RunsWith
  <2> QED BY <1>3, <2>1 DEF RunsWith, Vacant
<1> QED BY <1>2, <1>3

LEMMA ForgetEffect ==
    ASSUME TypeOK, rcv' = ForgetReceivers, NEW s \in Slots
    PROVE  /\ Vacant(s)' <=> Vacant(s)
           /\ ~RunsWith(s, "current")'
           /\ RunsWith(s, "orphan")' <=> RunsWith(s, "orphan") \/ RunsWith(s, "current")
<1>1. rcv[s] \in Receivers BY DEF TypeOK
<1>2. CASE RunsWith(s, "current")
  <2>1. rcv[s] \in Running BY <1>1, <1>2 DEF RunsWith, Receivers, Free, Spawned
  <2>2. rcv'[s] = [rcv[s] EXCEPT !.ctx = "orphan"]
    BY <1>2 DEF ForgetReceivers, RunsWith
  <2>3. rcv'[s].st = rcv[s].st /\ rcv'[s].ctx = "orphan" BY <2>1, <2>2 DEF Running
  <2> QED BY <1>2, <2>3 DEF RunsWith, Vacant
<1>3. CASE ~RunsWith(s, "current")
  <2>1. rcv'[s] = rcv[s] BY <1>3 DEF ForgetReceivers, RunsWith
  <2> QED BY <1>3, <2>1 DEF RunsWith, Vacant
<1> QED BY <1>2, <1>3

\* A receiver that is scheduled takes over subCtx; one that subscribes, fails or
\* stops has the context it had, or ends.
LEMMA ReceiverEffect ==
    ASSUME TypeOK, NEW s \in Slots, Receiver(s), NEW t \in Slots
    PROVE  /\ Vacant(t) => Vacant(t)'
           /\ RunsWith(t, "orphan")' => RunsWith(t, "orphan")
           /\ RunsWith(t, "current")' => RunsWith(t, "current") \/ subCtx = "current"
           /\ UNCHANGED <<connPc, subPc, subCtx, chan>>
<1>1. UNCHANGED <<connPc, subPc, subCtx, chan>>
  BY DEF Receiver, RcvRun, RcvOpen, RcvFail, RcvStop, connVars, subVars
<1>2. rcv[s] \in Receivers BY DEF TypeOK
<1>3. CASE t # s
  <2>1. rcv'[t] = rcv[t]
    BY <1>3 DEF Receiver, RcvRun, RcvOpen, RcvFail, RcvStop, TypeOK
  <2> QED BY <1>1, <2>1 DEF Vacant, RunsWith
<1>4. CASE t = s /\ RcvRun(s)
  <2>1. CASE subClient = None BY <1>1, <1>4, <2>1 DEF RcvRun, Vacant, RunsWith
  <2>2. CASE subClient # None
    <3>1. rcv'[s] = [st |-> "queued", client |-> subClient, ctx |-> subCtx]
      BY <1>4, <2>2 DEF RcvRun, TypeOK
    <3>2. rcv[s].st = "spawned" /\ subCtx \in {"current", "cancelled"}
      BY <1>4 DEF RcvRun, TypeOK
    <3> QED BY <1>1, <1>4, <3>1, <3>2 DEF Vacant, RunsWith
  <2> QED BY <2>1, <2>2
<1>5. CASE t = s /\ RcvOpen(s)
  <2>1. rcv[s].st = "queued" /\ rcv'[s] = [rcv[s] EXCEPT !.st = "active"]
    BY <1>5 DEF RcvOpen, TypeOK
  <2>2. rcv[s] \in Running BY <1>2, <2>1 DEF Receivers, Free, Spawned
  <2>3. rcv'[s].st = "active" /\ rcv'[s].ctx = rcv[s].ctx BY <2>1, <2>2 DEF Running
  <2> QED BY <1>1, <1>5, <2>1, <2>3 DEF Vacant, RunsWith
<1>6. CASE t = s /\ (RcvFail(s) \/ RcvStop(s))
  <2>1. rcv'[s] = Free BY <1>6 DEF RcvFail, RcvStop, TypeOK
  <2>2. rcv'[s].st = "free" BY <2>1 DEF Free
  <2> QED BY <1>1, <1>6, <2>2 DEF Vacant, RunsWith
<1> QED BY <1>3, <1>4, <1>5, <1>6 DEF Receiver

LEMMA OrphanInit == Init => OrphanInv
BY DEF Init, OrphanInv, Vacant, RunsWith, BetweenSignals, Free

LEMMA OrphanStep ==
    ASSUME TypeOK, OrphanInv, Step
    PROVE  OrphanInv'
<1> USE DEF OrphanInv, BetweenSignals
<1>1. CASE UNCHANGED <<rcv, subPc, subCtx, chan>> /\ (BetweenSignals' => BetweenSignals)
  BY <1>1 DEF Vacant, RunsWith
<1>2. CASE ConnSignal
  <2>1. UNCHANGED <<rcv, subPc, subCtx, chan>> BY <1>2 DEF ConnSignal, subVars
  <2>2. BetweenSignals' => BetweenSignals \/ chan = "nil" BY <1>2 DEF ConnSignal
  <2> QED BY <1>1, <2>1, <2>2 DEF Vacant, RunsWith
<1>3. ASSUME NEW s \in Subscribers, Subscribe(s) PROVE OrphanInv'
  <2>1. UNCHANGED <<rcv, subCtx, connPc>> BY <1>3 DEF Subscribe, connVars
  <2>2. \/ UNCHANGED <<chan, subPc>>
        \/ chan = "nil" /\ chan' = "open" /\ subPc' = "start"
    BY <1>3 DEF Subscribe
  <2> QED BY <2>1, <2>2 DEF Vacant, RunsWith
<1>4. CASE SubStart
  <2>1. UNCHANGED <<rcv, subCtx, connPc, chan>> BY <1>4 DEF SubStart, connVars
  <2>2. subPc = "start" /\ subPc' \in {"start", "loop"} BY <1>4 DEF SubStart
  <2> QED BY <2>1, <2>2 DEF Vacant, RunsWith
<1>5. CASE SubLoop
  <2>1. UNCHANGED <<subCtx, connPc, chan>> /\ subPc = "loop" /\ subPc' = "select"
    BY <1>5 DEF SubLoop, connVars
  <2>2. CASE UNCHANGED rcv BY <2>1, <2>2 DEF Vacant, RunsWith
  <2>3. CASE rcv' # rcv
    <3>1. PICK s \in Slots : rcv' = [rcv EXCEPT ![s] = Spawned]
      BY <1>5, <2>3 DEF SubLoop
    <3>2. rcv'[s].st = "spawned" BY <3>1 DEF Spawned, TypeOK
    <3>3. \A t \in Slots : t # s => rcv'[t] = rcv[t] BY <3>1 DEF TypeOK
    <3>4. \A t \in Slots : /\ t # s => (Vacant(t)' <=> Vacant(t))
                           /\ RunsWith(t, "orphan")' => RunsWith(t, "orphan")
                           /\ RunsWith(t, "current")' => RunsWith(t, "current")
      BY <3>2, <3>3 DEF Vacant, RunsWith
    <3> QED BY <2>1, <3>4
  <2> QED BY <2>2, <2>3
<1>6. CASE SubDone \/ SubStop
  <2>1. subCtx' = "cancelled" /\ rcv' = CancelReceivers /\ subPc = "select"
        /\ chan' # "nil" /\ subPc' \in {"loop", "exit"}
    BY <1>6 DEF SubDone, SubStop
  <2> QED BY <2>1, CancelEffect
<1>7. CASE SubRestart
  <2>1. UNCHANGED <<rcv, subCtx, chan>> /\ BetweenSignals /\ connPc' = "wait"
        /\ subPc = "select" /\ subPc' = "reread"
    BY <1>7 DEF SubRestart
  <2> QED BY <2>1 DEF Vacant, RunsWith
<1>8. CASE SubReread
  <2>1. UNCHANGED <<connPc, chan>> /\ subPc = "reread" /\ subPc' = "loop"
        /\ subCtx' = "current" /\ rcv' = ForgetReceivers
    BY <1>8 DEF SubReread, connVars
  <2>2. ~BetweenSignals' BY <2>1
  <2>3. \A s \in Slots : RunsWith(s, "current") => ~Vacant(s) BY DEF RunsWith, Vacant
  <2>4. subCtx \in {"current", "cancelled"} BY DEF TypeOK
  <2>5. \A s, t \in Slots : RunsWith(s, "orphan")' /\ RunsWith(t, "orphan")' => s = t
    BY <2>1, <2>3, <2>4, ForgetEffect
  <2> QED BY <2>1, <2>2, <2>5
<1>9. ASSUME NEW s \in Slots, Receiver(s) PROVE OrphanInv'
  <2>1. /\ UNCHANGED <<connPc, subPc, subCtx, chan>>
        /\ \A t \in Slots : /\ Vacant(t) => Vacant(t)'
                            /\ RunsWith(t, "orphan")' => RunsWith(t, "orphan")
                            /\ RunsWith(t, "current")' =>
                                  RunsWith(t, "current") \/ subCtx = "current"
    BY <1>9, ReceiverEffect
  <2> QED BY <2>1
<1>10. CASE Conn \/ ConnRedial \/ Cancel
  <2>1. CASE ConnSignal BY <1>2, <2>1
  <2>2. CASE ConnDone \/ ConnSendClosed \/ ConnLock \/ ConnReset \/ Cancel
    BY <1>1, <2>2 DEF ConnDone, ConnSendClosed, ConnLock, ConnReset, Cancel, connVars, subVars
  <2>3. ASSUME NEW c \in Clients, ConnError(c) \/ ConnDial(c) PROVE OrphanInv'
    BY <1>1, <2>3 DEF ConnError, ConnDial, subVars
  <2> QED BY <1>10, <2>1, <2>2, <2>3 DEF Conn, ConnRedial
<1>11. ASSUME NEW p \in Publishers,
              PublishCall(p) \/ PublishRefused(p) \/ Publisher(p)
       PROVE  OrphanInv'
  BY <1>1, <1>11 DEF PublishCall, PublishRefused, Publisher, Publish, PublishReturn,
                     connVars, subVars
<1>12. ASSUME NEW s \in Subscribers, SubscribeLock(s) PROVE OrphanInv'
  BY <1>1, <1>12 DEF SubscribeLock, connVars, subVars
<1>13. ASSUME NEW c \in Clients, Drop(c) PROVE OrphanInv'
  BY <1>1, <1>13 DEF Drop, connVars, subVars
<1> QED BY <1>3, <1>4, <1>5, <1>6, <1>7, <1>8, <1>9, <1>10, <1>11, <1>12, <1>13
        DEF Step, Sub

\* However often a client reconnects, it leaks at most one receiver: only the
\* first restart can overwrite the cancel function of an uncancelled one.
THEOREM LeaksAtMostOneReceiver == Spec => []AtMostOneOrphan
<1>1. Inv /\ OrphanInv /\ [Next]_vars => OrphanInv'
  <2> SUFFICES ASSUME Inv, OrphanInv, [Next]_vars PROVE OrphanInv'
    OBVIOUS
  <2>1. CASE Next
    BY <2>1, OrphanStep DEF Inv, Next
  <2>2. CASE UNCHANGED vars
    BY <2>2 DEF vars, connVars, subVars, OrphanInv, BetweenSignals, Vacant, RunsWith
  <2> QED BY <2>1, <2>2
<1>2. OrphanInv => AtMostOneOrphan
  <2> SUFFICES ASSUME OrphanInv PROVE AtMostOneOrphan OBVIOUS
  <2> DEFINE orphans == {s \in Slots : Uncancelled(s) /\ rcv[s].ctx = "orphan"}
  <2>1. \A s, t \in orphans : s = t BY DEF OrphanInv, RunsWith, Uncancelled
  <2> HIDE DEF orphans
  <2>2. CASE orphans = {}
    BY <2>2, FS_EmptySet DEF AtMostOneOrphan, orphans
  <2>3. CASE orphans # {}
    <3>1. PICK s \in orphans : TRUE BY <2>3
    <3>2. orphans = {s} BY <2>1, <3>1
    <3>3. Cardinality(orphans) = 1 BY <3>2, FS_Singleton
    <3> QED BY <3>3 DEF AtMostOneOrphan, orphans
  <2> QED BY <2>2, <2>3
<1> QED
  BY InvAlways, <1>1, <1>2, OrphanInit, PTL DEF Spec
=============================================================================
