----------------------------- MODULE GrpcAgent -----------------------------
(***************************************************************************)
(* A client's subscription over gRPC, from the streams to the informer:    *)
(* the callbacks of GrpcProtocol run the handlers, and those of an agent   *)
(* put the works they let through into the ManifestWorkWatcher, next to    *)
(* the Patch calls of the agent's controllers.                             *)
(***************************************************************************)
EXTENDS GrpcProtocol

CONSTANT Patchers   \* controllers that patch works of the agent

ASSUME PatchersOK == Patchers \cap Events = {}

VARIABLES informer, waiting

Watcher == INSTANCE WorkWatcher WITH Callers <- Events \cup Patchers

watcherVars == <<informer, waiting>>
vars == <<protocolVars, informer, waiting>>

TypeOK == ProtocolTypeOK /\ Watcher!WatcherTypeOK
Init == ProtocolInit /\ Watcher!WatcherInit

Agent == client \in Clusters

-----------------------------------------------------------------------------

\* The handler puts the work of a spec event into the watcher.
Handle(e) ==
    /\ Agent /\ e \in callbacks /\ e.kind = "spec"
    /\ Watcher!Receive(e)
    /\ UNCHANGED protocolVars

\* The handler ignores the event, or it is not one for the watcher.
Ignore(e) ==
    /\ e \in callbacks \ waiting
    /\ CallbackReturns(e)
    /\ UNCHANGED watcherVars

\* A Patch call puts the patched work into the watcher.
Patch(p) ==
    /\ Agent
    /\ Watcher!Receive(p)
    /\ UNCHANGED protocolVars

\* The reflector takes a work, and the handler or the Patch call returns.
Taken(c) ==
    /\ Watcher!Take(c)
    /\ IF c \in callbacks THEN CallbackReturns(c) ELSE UNCHANGED protocolVars

Protocol == ProtocolNext /\ UNCHANGED watcherVars

Next ==
    \/ Protocol
    \/ \E e \in Events : Handle(e) \/ Ignore(e)
    \/ \E p \in Patchers : Patch(p)
    \/ \E c \in Events \cup Patchers : Taken(c)
    \/ Agent /\ Watcher!Watch /\ UNCHANGED protocolVars
    \/ Watcher!Stop /\ UNCHANGED protocolVars

Spec == Init /\ [][Next]_vars

-----------------------------------------------------------------------------
(* The goroutines run and the calls of the gRPC client return.  Nothing    *)
(* makes anybody publish, a stream break or a context end.                 *)

Opener == \/ \E k \in Kinds : Subscribe(k) \/ SubscribeFails(k)
          \/ OpenDone

FairSpec ==
    /\ Spec
    /\ WF_vars(Opener /\ UNCHANGED watcherVars)
    /\ WF_vars((\E k \in Kinds : Recv(k)) /\ UNCHANGED watcherVars)
    /\ WF_vars((\E k \in Kinds : HandOver(k)) /\ UNCHANGED watcherVars)
    /\ WF_vars(PollEnd /\ UNCHANGED watcherVars)
    /\ WF_vars(Return /\ UNCHANGED watcherVars)
    /\ WF_vars(\E e \in Events : Handle(e) \/ Ignore(e))
    /\ WF_vars(\E e \in Events : Taken(e))

-----------------------------------------------------------------------------

\* When the context of a subscription ends, StartReceiver returns, whatever
\* its pollers and callbacks are at: unless a handler waits in Receive and
\* nobody reads the watcher.
ReceiverReturns ==
    cancelled ~> (receiver = "returned" \/ (waiting # {} /\ informer # "watching"))

\* agentoptions.go and sourceoptions.go say of errorChan: "grpc client
\* connection doesn't have error channel, it will handle reconnecting
\* automatically".  A subscription that has lost a stream should get it back.
Reconnects ==
    \A k \in Kinds : stream[k] = "broken" ~> (stream[k] = "open" \/ cancelled)
=============================================================================
