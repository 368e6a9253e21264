---------------------------- MODULE GrpcProtocol ----------------------------
(***************************************************************************)
(* How a client receives events through gRPC: the streams of its topics,   *)
(* the goroutine that reads each of them, the unbuffered channel incoming, *)
(* and the polling goroutines of the CloudEvents client's StartReceiver,   *)
(* which run a callback for every message.                                 *)
(***************************************************************************)
EXTENDS Topics

CONSTANTS
    Clients,      \* the clients whose receiver is looked at
    Events,       \* events that may be published
    MaxPublished, \* how many of them are (a bound)
    Pollers       \* goroutines that call Receive

ASSUME ClientsOK ==
    /\ Clients \subseteq Sources \cup Clusters
    /\ Events \subseteq EventType /\ None \notin Events
    /\ \A d, e \in Events : d.id = e.id => d = e
    /\ Pollers \in Nat \ {0} /\ MaxPublished \in Nat

VARIABLES
    client,     \* the client that receives
    sent,       \* history: the events published
    opening,    \* OpenInbound is "subscribing" (or waiting) or "done"
    stream,     \* per kind, its stream: "none", "open" or "broken"
    flow,       \* per kind, what the server has sent on it and Recv not returned
    reading,    \* per kind, the goroutine that reads it runs
    held,       \* per kind, the message that goroutine is about to hand over
    cancelled,  \* the receiver's context
    closed,     \* closeChan
    polling,    \* goroutines still calling Receive
    callbacks,  \* the events of the callbacks that run
    receiver,   \* StartReceiver is "running" or "returned"
    got         \* history: per kind, the events Receive returned

streamVars   == <<stream, flow, reading, held>>
receiverVars == <<polling, callbacks, receiver, got>>
protocolVars == <<client, sent, opening, streamVars, cancelled, closed, receiverVars>>

ProtocolTypeOK ==
    /\ client \in Clients
    /\ sent \subseteq Events
    /\ opening \in {"subscribing", "done"}
    /\ stream \in [Kinds -> {"none", "open", "broken"}]
    /\ flow \in [Kinds -> Seq(Events)]
    /\ reading \in [Kinds -> BOOLEAN]
    /\ held \in [Kinds -> Events \cup {None}]
    /\ cancelled \in BOOLEAN /\ closed \in BOOLEAN
    /\ polling \in 0..Pollers
    /\ callbacks \subseteq Events
    /\ receiver \in {"running", "returned"}
    /\ got \in [Kinds -> Seq(Events \cup {None})]

ProtocolInit ==
    /\ client \in Clients
    /\ sent = {}
    /\ opening = "subscribing"
    /\ stream = [k \in Kinds |-> "none"]
    /\ flow = [k \in Kinds |-> <<>>]
    /\ reading = [k \in Kinds |-> FALSE]
    /\ held = [k \in Kinds |-> None]
    /\ cancelled = FALSE /\ closed = FALSE
    /\ polling = Pollers
    /\ callbacks = {}
    /\ receiver = "running"
    /\ got = [k \in Kinds |-> <<>>]

\* What each event is when its message has been read and decoded.
Arrives == [e \in Events |-> Received(e)]

-----------------------------------------------------------------------------
(* Mutants: plausible mistakes in the code below.                          *)

\* The goroutine that reads a stream ends after a message.
HandOverOnce(k) ==
    /\ held[k] # None /\ polling > 0
    /\ held' = [held EXCEPT ![k] = None]
    /\ reading' = [reading EXCEPT ![k] = FALSE]
    /\ got' = [got EXCEPT ![k] = Append(@, Arrives[held[k]])]
    /\ callbacks' = callbacks \cup ({Arrives[held[k]]} \ {None})
    /\ UNCHANGED <<client, sent, opening, stream, flow, cancelled, closed, polling, receiver>>

\* Receive selects on closeChan and not on its context.
PollEndClosed ==
    /\ closed /\ polling > 0
    /\ polling' = polling - 1
    /\ UNCHANGED <<client, sent, opening, streamVars, cancelled, closed, callbacks, receiver, got>>

\* A callback calls wg.Done without the wg.Add before it.
CallbackReturnsNoAdd(e) ==
    /\ callbacks' = callbacks \ {e}
    /\ polling' = polling - 1
    /\ UNCHANGED <<client, sent, opening, streamVars, cancelled, closed, receiver, got>>

-----------------------------------------------------------------------------
(* The server and the clients that publish.                                *)

\* Send, and the server's forwarding of the event to the streams whose topic
\* matches.  A send that fails changes nothing.
Publish(e) ==
    /\ e \notin sent /\ Cardinality(sent) < MaxPublished
    /\ Sendable(e)
    /\ sent' = sent \cup {e}
    /\ flow' = [k \in Kinds |->
                  IF stream[k] = "open" /\ Matches(TopicOf(e), Filter(client, k))
                  THEN Append(flow[k], e) ELSE flow[k]]
    /\ UNCHANGED <<client, opening, stream, reading, held, cancelled, closed, receiverVars>>

\* The connection of a stream is lost, or the server ends it.
Break(k) ==
    /\ stream[k] = "open"
    /\ stream' = [stream EXCEPT ![k] = "broken"]
    /\ UNCHANGED <<client, sent, opening, flow, reading, held, cancelled, closed, receiverVars>>

-----------------------------------------------------------------------------
(* OpenInbound.                                                            *)

\* The topic whose turn it is.
NextTopic(k) ==
    \E i \in DOMAIN Subscribed(client) :
        /\ k = Subscribed(client)[i] /\ stream[k] = "none"
        /\ \A j \in 1..(i - 1) : stream[Subscribed(client)[j]] # "none"

Subscribe(k) ==
    /\ opening = "subscribing" /\ NextTopic(k) /\ ~cancelled
    /\ stream' = [stream EXCEPT ![k] = "open"]
    /\ reading' = [reading EXCEPT ![k] = TRUE]
    /\ UNCHANGED <<client, sent, opening, flow, held, cancelled, closed, receiverVars>>

\* OpenInbound returns the error, and StartReceiver cancels the context.
SubscribeFails(k) ==
    /\ opening = "subscribing" /\ NextTopic(k)
    /\ opening' = "done" /\ cancelled' = TRUE
    /\ UNCHANGED <<client, sent, streamVars, closed, receiverVars>>

OpenDone ==
    /\ opening = "subscribing"
    /\ \A k \in Kinds : ~NextTopic(k)
    /\ cancelled \/ closed
    /\ opening' = "done"
    /\ UNCHANGED <<client, sent, streamVars, cancelled, closed, receiverVars>>

-----------------------------------------------------------------------------
(* The goroutine that reads a stream.                                      *)

Recv(k) ==
    /\ reading[k] /\ held[k] = None /\ flow[k] # <<>>
    /\ held' = [held EXCEPT ![k] = Head(flow[k])]
    /\ flow' = [flow EXCEPT ![k] = Tail(@)]
    /\ UNCHANGED <<client, sent, opening, stream, reading, cancelled, closed, receiverVars>>

\* It ends without a word.
RecvError(k) ==
    /\ reading[k] /\ held[k] = None
    /\ stream[k] = "broken" \/ cancelled
    /\ reading' = [reading EXCEPT ![k] = FALSE]
    /\ stream' = [stream EXCEPT ![k] = "broken"]
    /\ flow' = [flow EXCEPT ![k] = <<>>]
    /\ UNCHANGED <<client, sent, opening, held, cancelled, closed, receiverVars>>

\* The rendezvous on incoming.  The poller starts the callback and calls
\* Receive again; a message that is no event has none.
HandOver(k) ==
    /\ held[k] # None /\ polling > 0
    /\ held' = [held EXCEPT ![k] = None]
    /\ got' = [got EXCEPT ![k] = Append(@, Arrives[held[k]])]
    /\ callbacks' = callbacks \cup ({Arrives[held[k]]} \ {None})
    /\ UNCHANGED <<client, sent, opening, stream, flow, reading, cancelled, closed, polling, receiver>>

-----------------------------------------------------------------------------
(* StartReceiver.                                                          *)

\* Receive returns io.EOF.
PollEnd ==
    /\ cancelled /\ polling > 0
    /\ polling' = polling - 1
    /\ UNCHANGED <<client, sent, opening, streamVars, cancelled, closed, callbacks, receiver, got>>

CallbackReturns(e) ==
    /\ callbacks' = callbacks \ {e}
    /\ UNCHANGED <<client, sent, opening, streamVars, cancelled, closed, polling, receiver, got>>

Return ==
    /\ opening = "done" /\ polling = 0 /\ callbacks = {}
    /\ receiver = "running" /\ receiver' = "returned"
    /\ UNCHANGED <<client, sent, opening, streamVars, cancelled, closed, polling, callbacks, got>>

\* The user's context ends, and the base client cancels the receiver's.
CancelReceiver ==
    /\ ~cancelled /\ cancelled' = TRUE
    /\ UNCHANGED <<client, sent, opening, streamVars, closed, receiverVars>>

Close ==
    /\ ~closed /\ closed' = TRUE
    /\ UNCHANGED <<client, sent, opening, streamVars, cancelled, receiverVars>>

-----------------------------------------------------------------------------

\* Everything but the callbacks.
ProtocolNext ==
    \/ \E e \in Events : Publish(e)
    \/ \E k \in Kinds :
          \/ Subscribe(k) \/ SubscribeFails(k) \/ Break(k)
          \/ Recv(k) \/ RecvError(k) \/ HandOver(k)
    \/ OpenDone \/ PollEnd \/ Return \/ CancelReceiver \/ Close

-----------------------------------------------------------------------------
(* The receiver is a mailbox.                                              *)

\* What the goroutine holds comes before what is still on the stream.
Pending(k) == IF held[k] = None THEN flow[k] ELSE <<held[k]>> \o flow[k]
EventKind(e) == e.kind

Box == INSTANCE Mailbox WITH
         open <- [k \in Kinds |-> stream[k] = "open"],
         due <- [k \in Kinds |-> Pending(k)],
         stopped <- cancelled,
         KindOf <- EventKind

\* Whatever the interleaving of server, goroutines and pollers, Receive
\* returns the events that are for the client, of each kind in the order they
\* were published, none twice and none left out before the stream ends.
InOrder == Box!Spec

\* A published event is received while its stream and the receiver last: the
\* goroutine blocked on incoming finds a poller.
Delivers == Box!Delivers
=============================================================================
