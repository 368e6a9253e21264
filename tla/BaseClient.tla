----------------------------- MODULE BaseClient -----------------------------
(***************************************************************************)
(* The connection and subscription machinery shared by the source and the  *)
(* agent CloudEvents clients (pkg/cloudevents/generic/baseclient.go) over  *)
(* MQTT.  Four kinds of goroutine meet here:                               *)
(*   - "conn", started by connect: waits for a connection error, tells the *)
(*     subscription to stop, redials, tells it to restart;                 *)
(*   - "sub", started by subscribe: spawns and cancels the receivers;      *)
(*   - the receivers, each one a StartReceiver call on one client;         *)
(*   - callers of publish and of subscribe.                                *)
(* They share the client under a sync.RWMutex and two unbuffered channels, *)
(* receiverChan and the options' errorChan.                                *)
(***************************************************************************)
EXTENDS Naturals, FiniteSets

CONSTANTS
    Clients,        \* names for the protocol clients that dialling returns
    Slots,          \* receiver goroutines that may exist at once (a bound)
    Publishers,     \* goroutines calling publish
    Subscribers,    \* goroutines calling subscribe, each once
    ErrorsPerDrop,  \* most errors one broken connection reports on errorChan
    MaxDrops,       \* connections the environment breaks (a bound)
    None            \* Go's nil, and "no goroutine"

ASSUME ConstantsOK ==
    /\ ErrorsPerDrop \in Nat \ {0}
    /\ MaxDrops \in Nat
    /\ None \notin Clients \cup Publishers \cup Subscribers \cup {"conn"}
    /\ "conn" \notin Publishers \cup Subscribers
    /\ Publishers \cap Subscribers = {}

VARIABLES
    connPc,      \* where the conn goroutine is
    connClient,  \* its local cloudEventsClient
    cur,         \* c.cloudEventsClient
    chan,        \* c.receiverChan: "nil", "open" or "closed"
    readers,     \* goroutines holding the RWMutex for reading
    writer,      \* the goroutine that called Lock: it waits for the readers to
                 \* leave, and no reader enters meanwhile (writer preference)
    subPc,       \* where the sub goroutine is
    subClient,   \* its local cloudEventsClient
    subCtx,      \* its local receiverCtx: "current", or "cancelled"
    rcv,         \* the receiver in each slot
    alive,       \* clients whose network connection works
    errs,        \* per client, goroutines blocked sending its error on errorChan
    pubPc, pubClient,  \* the publishers
    callPc,      \* the callers of subscribe
    cancelled,   \* ctx.Done() is closed
    crash,       \* the panic that ended the process, or "none"
    drops        \* connections broken so far

connVars == <<connPc, connClient>>
lockVars == <<readers, writer>>
subVars  == <<subPc, subClient, subCtx>>
netVars  == <<alive, errs>>
pubVars  == <<pubPc, pubClient>>
vars == <<connVars, cur, chan, lockVars, subVars, rcv, netVars, pubVars,
          callPc, cancelled, crash, drops>>

Goroutines == {"conn"} \cup Publishers \cup Subscribers

\* A receiver goroutine: not running, spawned but not yet scheduled, waiting
\* for the receiverMu of its client, or subscribed to the broker.
Free    == [st |-> "free"]
Spawned == [st |-> "spawned"]
Running == [st: {"queued", "active"}, client: Clients,
            ctx: {"current", "orphan", "cancelled"}]
Receivers == {Free, Spawned} \cup Running

ConnPcs == {"wait", "stop", "sendStop", "setNil",
            "dial", "setNew", "restart", "sendRestart", "exit"}
SubPcs  == {"none", "start", "loop", "select", "reread", "exit"}

TypeOK ==
    /\ connPc \in ConnPcs
    /\ connClient \in Clients \cup {None}
    /\ cur \in Clients \cup {None}
    /\ chan \in {"nil", "open", "closed"}
    /\ readers \subseteq Goroutines
    /\ writer \in Goroutines \cup {None}
    /\ subPc \in SubPcs
    /\ subClient \in Clients \cup {None}
    /\ subCtx \in {"current", "cancelled"}
    /\ rcv \in [Slots -> Receivers]
    /\ alive \subseteq Clients
    /\ errs \in [Clients -> 0..ErrorsPerDrop]
    /\ pubPc \in [Publishers -> {"idle", "want", "sending"}]
    /\ pubClient \in [Publishers -> Clients \cup {None}]
    /\ callPc \in [Subscribers -> {"idle", "lock", "done"}]
    /\ cancelled \in BOOLEAN
    /\ crash \in {"none", "closedChan", "nilClient"}
    /\ drops \in 0..MaxDrops

\* connect has dialled the first client and started the conn goroutine.
Init ==
    /\ \E c \in Clients : connClient = c /\ cur = c /\ alive = {c}
    /\ connPc = "wait"
    /\ chan = "nil"
    /\ readers = {} /\ writer = None
    /\ subPc = "none" /\ subClient = None /\ subCtx = "current"
    /\ rcv = [s \in Slots |-> Free]
    /\ errs = [c \in Clients |-> 0]
    /\ pubPc = [p \in Publishers |-> "idle"]
    /\ pubClient = [p \in Publishers |-> None]
    /\ callPc = [s \in Subscribers |-> "idle"]
    /\ cancelled = FALSE
    /\ crash = "none"
    /\ drops = 0

-----------------------------------------------------------------------------
(* The RWMutex.                                                            *)

CanRLock == writer = None
Announce(g) == writer = None /\ writer' = g
Exclusive(g) == writer = g /\ readers = {}

\* Holders of a context: what a receiver's ctx becomes when the sub goroutine
\* cancels receiverCtx, and when it overwrites receiverCancel with a new one.
CancelReceivers == [s \in Slots |->
    IF rcv[s].st \in {"queued", "active"} /\ rcv[s].ctx = "current"
    THEN [rcv[s] EXCEPT !.ctx = "cancelled"] ELSE rcv[s]]
ForgetReceivers == [s \in Slots |->
    IF rcv[s].st \in {"queued", "active"} /\ rcv[s].ctx = "current"
    THEN [rcv[s] EXCEPT !.ctx = "orphan"] ELSE rcv[s]]

-----------------------------------------------------------------------------
(* Mutants: plausible mistakes in the code below, one for each property.   *)

\* resetClient assigns the client without waiting for the readers.
ConnResetNoLock ==
    /\ connPc \in {"setNew", "setNil"}
    /\ writer = "conn"
    /\ cur' = connClient
    /\ writer' = None
    /\ connPc' = IF connPc = "setNew" THEN "restart" ELSE "dial"
    /\ UNCHANGED <<connClient, chan, readers, subVars, rcv, netVars, pubVars,
                   callPc, cancelled, crash, drops>>

\* The stop signal does not cancel the receivers.
SubStopNoCancel ==
    /\ subPc = "select" /\ connPc = "sendStop" /\ chan = "open"
    /\ readers' = readers \ {"conn"}
    /\ connPc' = "setNil" /\ connClient' = None
    /\ subClient' = None
    /\ subPc' = "loop"
    /\ UNCHANGED <<cur, chan, subCtx, rcv, writer, netVars, pubVars, callPc,
                   cancelled, crash, drops>>

\* The stop signal closes receiverChan.
SubStopCloses ==
    /\ subPc = "select" /\ connPc = "sendStop" /\ chan = "open"
    /\ readers' = readers \ {"conn"}
    /\ connPc' = "setNil" /\ connClient' = None
    /\ subCtx' = "cancelled"
    /\ rcv' = CancelReceivers
    /\ subClient' = None
    /\ chan' = "closed"
    /\ subPc' = "loop"
    /\ UNCHANGED <<cur, writer, netVars, pubVars, callPc, cancelled, crash, drops>>

\* An error stays in the channel after conn has handled it.
ConnErrorKept(c) ==
    /\ connPc = "wait" /\ errs[c] > 0
    /\ connPc' = "stop"
    /\ UNCHANGED <<connClient, cur, chan, lockVars, subVars, rcv, netVars,
                   pubVars, callPc, cancelled, crash, drops>>

\* The restart starts the receiver on the client it had, not on the new one.
SubRereadStale ==
    /\ subPc = "reread" /\ CanRLock
    /\ subCtx' = "current"
    /\ rcv' = ForgetReceivers
    /\ subPc' = "loop"
    /\ UNCHANGED <<connVars, cur, chan, lockVars, subClient, netVars, pubVars,
                   callPc, cancelled, crash, drops>>

\* publish returns without releasing the read lock.
PublishReturnNoUnlock(p) ==
    /\ pubPc[p] = "sending"
    /\ pubPc' = [pubPc EXCEPT ![p] = "idle"]
    /\ pubClient' = [pubClient EXCEPT ![p] = None]
    /\ UNCHANGED <<connVars, cur, chan, lockVars, subVars, rcv, netVars, callPc,
                   cancelled, crash, drops>>

\* Stopping a receiver reports an error also for a broken connection.
RcvStopReports(s) ==
    LET c == rcv[s].client IN
    /\ rcv[s].st = "active" /\ rcv[s].ctx = "cancelled"
    /\ rcv' = [rcv EXCEPT ![s] = Free]
    /\ alive' = alive \ {c}
    /\ errs' = [errs EXCEPT ![c] = @ + 1]
    /\ UNCHANGED <<connVars, cur, chan, lockVars, subVars, pubVars, callPc,
                   cancelled, crash, drops>>

-----------------------------------------------------------------------------
(* The conn goroutine.                                                     *)

\* The select: the context is done, or an error is received.  Nobody closes
\* errorChan, so the third outcome of the select has no step.
ConnDone ==
    /\ connPc = "wait" /\ cancelled
    /\ connPc' = "exit"
    /\ UNCHANGED <<connClient, cur, chan, lockVars, subVars, rcv, netVars,
                   pubVars, callPc, cancelled, crash, drops>>

ConnError(c) ==
    /\ connPc = "wait" /\ errs[c] > 0
    /\ errs' = [errs EXCEPT ![c] = @ - 1]
    /\ connPc' = "stop"
    /\ UNCHANGED <<connClient, cur, chan, lockVars, subVars, rcv, alive,
                   pubVars, callPc, cancelled, crash, drops>>

\* sendReceiverSignal takes the read lock and, if there is a subscription,
\* keeps it while it blocks on the channel.
ConnSignal ==
    /\ connPc \in {"stop", "restart"} /\ CanRLock
    /\ IF chan = "nil"
       THEN /\ connPc' = IF connPc = "stop" THEN "setNil" ELSE "wait"
            /\ connClient' = IF connPc = "stop" THEN None ELSE connClient
            /\ UNCHANGED readers
       ELSE /\ connPc' = IF connPc = "stop" THEN "sendStop" ELSE "sendRestart"
            /\ readers' = readers \cup {"conn"}
            /\ UNCHANGED connClient
    /\ UNCHANGED <<cur, chan, writer, subVars, rcv, netVars, pubVars, callPc,
                   cancelled, crash, drops>>

\* A send on a closed channel panics, also one that was already blocked.
ConnSendClosed ==
    /\ connPc \in {"sendStop", "sendRestart"} /\ chan = "closed"
    /\ crash' = "closedChan"
    /\ UNCHANGED <<connVars, cur, chan, lockVars, subVars, rcv, netVars,
                   pubVars, callPc, cancelled, drops>>

\* resetClient: Lock, assign, Unlock.
ConnLock ==
    /\ connPc \in {"setNew", "setNil"}
    /\ Announce("conn")
    /\ UNCHANGED <<connVars, cur, chan, readers, subVars, rcv, netVars,
                   pubVars, callPc, cancelled, crash, drops>>

ConnReset ==
    /\ connPc \in {"setNew", "setNil"}
    /\ Exclusive("conn")
    /\ cur' = connClient
    /\ writer' = None
    /\ connPc' = IF connPc = "setNew" THEN "restart" ELSE "dial"
    /\ UNCHANGED <<connClient, chan, readers, subVars, rcv, netVars, pubVars,
                   callPc, cancelled, crash, drops>>

\* A name is reused once nothing refers to the client that had it.
Unused(c) ==
    /\ c \notin alive \cup {cur, connClient, subClient}
    /\ errs[c] = 0
    /\ \A s \in Slots : rcv[s].st \in {"queued", "active"} => rcv[s].client # c
    /\ \A p \in Publishers : pubClient[p] # c

\* The redial succeeds; a failed one waits and tries again, which changes
\* nothing.  The client ID is fixed, so the broker takes the session over and
\* disconnects a client that is still connected.
ConnDial(c) ==
    /\ connPc = "dial" /\ Unused(c)
    /\ connClient' = c
    /\ connPc' = "setNew"
    /\ alive' = {c}
    /\ errs' = [d \in Clients |-> IF d \in alive THEN errs[d] + 1 ELSE errs[d]]
    /\ UNCHANGED <<cur, chan, lockVars, subVars, rcv, pubVars, callPc,
                   cancelled, crash, drops>>

-----------------------------------------------------------------------------
(* subscribe and the sub goroutine.                                        *)

SubscribeLock(s) ==
    /\ callPc[s] = "idle"
    /\ Announce(s)
    /\ callPc' = [callPc EXCEPT ![s] = "lock"]
    /\ UNCHANGED <<connVars, cur, chan, readers, subVars, rcv, netVars,
                   pubVars, cancelled, crash, drops>>

Subscribe(s) ==
    /\ callPc[s] = "lock"
    /\ Exclusive(s)
    /\ IF chan = "nil"
       THEN chan' = "open" /\ subPc' = "start"
       ELSE UNCHANGED <<chan, subPc>>
    /\ writer' = None
    /\ callPc' = [callPc EXCEPT ![s] = "done"]
    /\ UNCHANGED <<connVars, cur, readers, subClient, subCtx, rcv, netVars,
                   pubVars, cancelled, crash, drops>>

\* The goroutine reads c.cloudEventsClient without the lock.  While
\* resetClient is writing that two-word interface value the read may be torn:
\* a non-nil interface holding a nil pointer, which StartReceiver dereferences.
SubStart ==
    /\ subPc = "start"
    /\ \/ subClient' = cur /\ subPc' = "loop" /\ UNCHANGED crash
       \/ /\ Exclusive("conn") /\ (cur = None) # (connClient = None)
          /\ crash' = "nilClient"
          /\ UNCHANGED <<subClient, subPc>>
    /\ UNCHANGED <<connVars, cur, chan, lockVars, subCtx, rcv, netVars,
                   pubVars, callPc, cancelled, drops>>

\* The top of the loop: a receiver goroutine is spawned when there is a client.
SubLoop ==
    /\ subPc = "loop"
    /\ IF subClient = None
       THEN UNCHANGED rcv
       ELSE \E s \in Slots : rcv[s] = Free /\ rcv' = [rcv EXCEPT ![s] = Spawned]
    /\ subPc' = "select"
    /\ UNCHANGED <<connVars, cur, chan, lockVars, subClient, subCtx, netVars,
                   pubVars, callPc, cancelled, crash, drops>>

\* The select when the context is done.
SubDone ==
    /\ subPc = "select" /\ cancelled
    /\ subCtx' = "cancelled"
    /\ rcv' = CancelReceivers
    /\ chan' = "closed"
    /\ subPc' = "exit"
    /\ UNCHANGED <<connVars, cur, lockVars, subClient, netVars, pubVars,
                   callPc, cancelled, crash, drops>>

\* The rendezvous of conn's send with the select of the sub goroutine; conn
\* returns from sendReceiverSignal and releases the read lock.
SubStop ==
    /\ subPc = "select" /\ connPc = "sendStop" /\ chan = "open"
    /\ readers' = readers \ {"conn"}
    /\ connPc' = "setNil" /\ connClient' = None
    /\ subCtx' = "cancelled"
    /\ rcv' = CancelReceivers
    /\ subClient' = None
    /\ subPc' = "loop"
    /\ UNCHANGED <<cur, chan, writer, netVars, pubVars, callPc, cancelled,
                   crash, drops>>

SubRestart ==
    /\ subPc = "select" /\ connPc = "sendRestart" /\ chan = "open"
    /\ readers' = readers \ {"conn"}
    /\ connPc' = "wait"
    /\ subPc' = "reread"
    /\ UNCHANGED <<connClient, cur, chan, writer, subClient, subCtx, rcv,
                   netVars, pubVars, callPc, cancelled, crash, drops>>

\* The restart then reads the client under the read lock and replaces the
\* receiver context, the cancel function of the previous one included.
SubReread ==
    /\ subPc = "reread" /\ CanRLock
    /\ subClient' = cur
    /\ subCtx' = "current"
    /\ rcv' = ForgetReceivers
    /\ subPc' = "loop"
    /\ UNCHANGED <<connVars, cur, chan, lockVars, netVars, pubVars, callPc,
                   cancelled, crash, drops>>

-----------------------------------------------------------------------------
(* The receiver goroutines: CloudEvents client and MQTT protocol.          *)

\* The spawned closure captures cloudEventsClient and receiverCtx by
\* reference: it uses what they hold when it is scheduled.
RcvRun(s) ==
    /\ rcv[s].st = "spawned"
    /\ IF subClient = None
       THEN crash' = "nilClient" /\ UNCHANGED rcv
       ELSE /\ rcv' = [rcv EXCEPT ![s] =
                 [st |-> "queued", client |-> subClient, ctx |-> subCtx]]
            /\ UNCHANGED crash
    /\ UNCHANGED <<connVars, cur, chan, lockVars, subVars, netVars, pubVars,
                   callPc, cancelled, drops>>

\* StartReceiver holds the client's receiverMu for its whole run.
MutexFree(c) ==
    \A s \in Slots : rcv[s].st = "active" => rcv[s].client # c

RcvOpen(s) ==
    /\ rcv[s].st = "queued" /\ MutexFree(rcv[s].client)
    /\ rcv[s].client \in alive
    /\ rcv' = [rcv EXCEPT ![s].st = "active"]
    /\ UNCHANGED <<connVars, cur, chan, lockVars, subVars, netVars, pubVars,
                   callPc, cancelled, crash, drops>>

\* OpenInbound cannot subscribe: the receiver ends with an error.
RcvFail(s) ==
    /\ rcv[s].st = "queued" /\ MutexFree(rcv[s].client)
    /\ rcv[s].client \notin alive \/ rcv[s].ctx = "cancelled"
    /\ rcv' = [rcv EXCEPT ![s] = Free]
    /\ UNCHANGED <<connVars, cur, chan, lockVars, subVars, netVars, pubVars,
                   callPc, cancelled, crash, drops>>

\* The context is done: OpenInbound disconnects the MQTT client.  Closing a
\* working connection makes its reader fail, which reports one more error
\* unless the reader notices first that the client is stopping.
RcvStop(s) ==
    LET c == rcv[s].client IN
    /\ rcv[s].st = "active" /\ rcv[s].ctx = "cancelled"
    /\ rcv' = [rcv EXCEPT ![s] = Free]
    /\ alive' = alive \ {c}
    /\ \/ UNCHANGED errs
       \/ c \in alive /\ errs' = [errs EXCEPT ![c] = @ + 1]
    /\ UNCHANGED <<connVars, cur, chan, lockVars, subVars, pubVars, callPc,
                   cancelled, crash, drops>>

-----------------------------------------------------------------------------
(* publish: the read lock is held while the event is sent.                 *)

PublishCall(p) ==
    /\ pubPc[p] = "idle"
    /\ pubPc' = [pubPc EXCEPT ![p] = "want"]
    /\ UNCHANGED <<connVars, cur, chan, lockVars, subVars, rcv, netVars,
                   pubClient, callPc, cancelled, crash, drops>>

\* The rate limiter's Wait or WithContext returns an error.
PublishRefused(p) ==
    /\ pubPc[p] = "want"
    /\ pubPc' = [pubPc EXCEPT ![p] = "idle"]
    /\ UNCHANGED <<connVars, cur, chan, lockVars, subVars, rcv, netVars,
                   pubClient, callPc, cancelled, crash, drops>>

Publish(p) ==
    /\ pubPc[p] = "want" /\ CanRLock
    /\ IF cur = None
       THEN pubPc' = [pubPc EXCEPT ![p] = "idle"] /\ UNCHANGED <<readers, pubClient>>
       ELSE /\ pubPc' = [pubPc EXCEPT ![p] = "sending"]
            /\ pubClient' = [pubClient EXCEPT ![p] = cur]
            /\ readers' = readers \cup {p}
    /\ UNCHANGED <<connVars, cur, chan, writer, subVars, rcv, netVars, callPc,
                   cancelled, crash, drops>>

PublishReturn(p) ==
    /\ pubPc[p] = "sending"
    /\ pubPc' = [pubPc EXCEPT ![p] = "idle"]
    /\ pubClient' = [pubClient EXCEPT ![p] = None]
    /\ readers' = readers \ {p}
    /\ UNCHANGED <<connVars, cur, chan, writer, subVars, rcv, netVars, callPc,
                   cancelled, crash, drops>>

-----------------------------------------------------------------------------
(* The environment.                                                        *)

\* A connection breaks.  A failed read reports one error; a ping timeout
\* reports its own and then, by closing the connection, the reader's.
Drop(c) ==
    /\ c \in alive /\ drops < MaxDrops
    /\ alive' = alive \ {c}
    /\ \E n \in 1..ErrorsPerDrop : errs' = [errs EXCEPT ![c] = n]
    /\ drops' = drops + 1
    /\ UNCHANGED <<connVars, cur, chan, lockVars, subVars, rcv, pubVars,
                   callPc, cancelled, crash>>

Cancel ==
    /\ ~cancelled
    /\ cancelled' = TRUE
    /\ UNCHANGED <<connVars, cur, chan, lockVars, subVars, rcv, netVars,
                   pubVars, callPc, crash, drops>>

-----------------------------------------------------------------------------

Conn == \/ ConnDone \/ ConnSignal \/ ConnSendClosed \/ ConnLock \/ ConnReset
        \/ \E c \in Clients : ConnError(c)
ConnRedial == \E c \in Clients : ConnDial(c)
Sub  == SubStart \/ SubLoop \/ SubDone \/ SubStop \/ SubRestart \/ SubReread
Receiver(s) == RcvRun(s) \/ RcvOpen(s) \/ RcvFail(s) \/ RcvStop(s)
Publisher(p) == Publish(p) \/ PublishReturn(p)

Step ==
    \/ Conn \/ ConnRedial \/ Sub \/ Cancel
    \/ \E s \in Slots : Receiver(s)
    \/ \E p \in Publishers : PublishCall(p) \/ PublishRefused(p) \/ Publisher(p)
    \/ \E s \in Subscribers : SubscribeLock(s) \/ Subscribe(s)
    \/ \E c \in Clients : Drop(c)

\* A panic in any goroutine ends the process.
Next == crash = "none" /\ Step

Spec == Init /\ [][Next]_vars

\* Runnable goroutines are scheduled, a Send returns, and the broker accepts a
\* redial in the end.  Connections need not break, callers need not call.
Fairness ==
    /\ WF_vars(crash = "none" /\ Conn)
    /\ WF_vars(crash = "none" /\ ConnRedial)
    /\ WF_vars(crash = "none" /\ Sub)
    /\ \A s \in Slots : WF_vars(crash = "none" /\ Receiver(s))
    /\ \A p \in Publishers : WF_vars(crash = "none" /\ Publisher(p))
    /\ \A s \in Subscribers : WF_vars(crash = "none" /\ Subscribe(s))

FairSpec == Spec /\ Fairness

-----------------------------------------------------------------------------
(* Properties.                                                             *)

\* An event is sent on the client that is current for as long as the send
\* lasts: no reconnection replaces or clears c.cloudEventsClient under it.
SendOnCurrentClient ==
    \A p \in Publishers : pubPc[p] = "sending" => pubClient[p] = cur

\* The signals that conn sends can only meet a closed receiverChan, and panic,
\* when the client's context was cancelled: reconnections alone never do it.
PanicOnlyInShutdown == crash = "closedChan" => cancelled

\* conn stops the receivers and drops the current client only when the
\* connection of that client is broken (baseclient.go, "the cloudevents client
\* network connection is closed, send the receiver stop signal").
StopsOnlyBrokenClient ==
    connPc \in {"stop", "sendStop", "setNil"} => cur \notin alive

Uncancelled(s) ==
    rcv[s].st \in {"queued", "active"} /\ rcv[s].ctx # "cancelled"

\* A receiver whose cancel function was overwritten can never be stopped.  A
\* client leaks at most one, however often it reconnects: only the first
\* restart can find an uncancelled receiver.
AtMostOneOrphan ==
    Cardinality({s \in Slots : Uncancelled(s) /\ rcv[s].ctx = "orphan"}) <= 1

Receiving ==
    /\ cur \in alive
    /\ \E s \in Slots : rcv[s].st = "active" /\ rcv[s].client = cur

\* Once connections stop breaking, a subscribed client ends up connected and
\* subscribed for good, on the connection it publishes on.
Resubscribed ==
    <>[](crash # "none" \/ cancelled \/ chan = "nil" \/ Receiving)

\* Every call of publish and of subscribe returns: neither a reconnection nor
\* another caller blocks it for ever.
CallsReturn ==
    /\ \A p \in Publishers : pubPc[p] = "want" ~> (pubPc[p] = "idle" \/ crash # "none")
    /\ \A s \in Subscribers : callPc[s] = "lock" ~> (callPc[s] = "done" \/ crash # "none")
=============================================================================
