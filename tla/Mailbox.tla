------------------------------ MODULE Mailbox ------------------------------
(***************************************************************************)
(* What a subscription promises to a client: of every kind of event it is  *)
(* subscribed to, it gets those that are for it, each once and in the      *)
(* order they were published, until the subscription is cut.  Events that  *)
(* are published before or after are not for this subscription, and those  *)
(* under way when it is cut may be lost, the last ones first.              *)
(***************************************************************************)
EXTENDS Naturals, Sequences

CONSTANTS
    Clients, Kinds, Events,
    KindOf(_),     \* the kind of an event
    For(_, _)      \* whether an event is for a client

VARIABLES
    client,   \* who receives
    sent,     \* the events that have been published
    open,     \* per kind, whether the client is subscribed
    due,      \* per kind, the events it is still to get
    got,      \* per kind, the events it got
    stopped   \* the client does not want any more

vars == <<client, sent, open, due, got, stopped>>

Init ==
    /\ client \in Clients
    /\ sent = {}
    /\ open = [k \in Kinds |-> FALSE]
    /\ due = [k \in Kinds |-> <<>>]
    /\ got = [k \in Kinds |-> <<>>]
    /\ stopped = FALSE

Publish(e) ==
    /\ e \notin sent
    /\ sent' = sent \cup {e}
    /\ due' = [k \in Kinds |-> IF k = KindOf(e) /\ open[k] /\ For(e, client)
                               THEN Append(due[k], e) ELSE due[k]]
    /\ UNCHANGED <<client, open, got, stopped>>

Open(k) ==
    /\ open' = [open EXCEPT ![k] = TRUE]
    /\ UNCHANGED <<client, sent, due, got, stopped>>

Cut(k) ==
    /\ open' = [open EXCEPT ![k] = FALSE]
    /\ \E n \in 0..Len(due[k]) : due' = [due EXCEPT ![k] = SubSeq(@, 1, n)]
    /\ UNCHANGED <<client, sent, got, stopped>>

Deliver(k) ==
    /\ due[k] # <<>>
    /\ got' = [got EXCEPT ![k] = Append(@, Head(due[k]))]
    /\ due' = [due EXCEPT ![k] = Tail(@)]
    /\ UNCHANGED <<client, sent, open, stopped>>

Stop ==
    /\ stopped' = TRUE
    /\ UNCHANGED <<client, sent, open, due, got>>

Next ==
    \/ \E e \in Events : Publish(e)
    \/ \E k \in Kinds : Open(k) \/ Cut(k) \/ Deliver(k)
    \/ Stop

Spec == Init /\ [][Next]_vars

-----------------------------------------------------------------------------

\* As nobody publishes for ever, a client that stays gets all that is due to
\* it, of every kind whose subscription is not cut.
Drained == \A k \in Kinds : due[k] = <<>> \/ ~open[k]
Delivers == ~Drained ~> (Drained \/ stopped)
=============================================================================
