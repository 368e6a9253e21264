------------------------------- MODULE Topics -------------------------------
(***************************************************************************)
(* The topics that events are published on and those that a client         *)
(* subscribes to.  The options of MQTT and of gRPC build them in the same  *)
(* way, from patterns that MQTT lets the user configure and gRPC does not. *)
(*                                                                         *)
(* A topic is the sequence of its segments.                                *)
(***************************************************************************)
EXTENDS CloudEvents, Sequences, FiniteSets

ASSUME NoWildcards == "+" \notin Sources \cup Clusters

SpecTopic         == <<"sources", "+", "clusters", "+", "spec">>
StatusTopic       == <<"sources", "+", "clusters", "+", "status">>
SpecResyncTopic   == <<"sources", "clusters", "+", "specresync">>
StatusResyncTopic == <<"sources", "+", "clusters", "statusresync">>

Wildcards(topic) == {i \in DOMAIN topic : topic[i] = "+"}

-----------------------------------------------------------------------------
(* Mutants: plausible mistakes in the code below.                          *)

\* The first placeholder is replaced instead of the second.
ReplaceFirst(topic, name, n) ==
    [i \in DOMAIN topic |->
        IF topic[i] = "+" /\ Cardinality({j \in Wildcards(topic) : j <= i}) = 1
        THEN name ELSE topic[i]]

-----------------------------------------------------------------------------

ReplaceNth(topic, name, n) ==
    [i \in DOMAIN topic |->
        IF topic[i] = "+" /\ Cardinality({j \in Wildcards(topic) : j <= i}) = n
        THEN name ELSE topic[i]]

ReplaceAll(topic, name) ==
    [i \in DOMAIN topic |-> IF topic[i] = "+" THEN name ELSE topic[i]]

-----------------------------------------------------------------------------

\* WithContext of an agent's options and of a source's.
AgentTopic(e) ==
    IF e.kind = "specresync" THEN ReplaceAll(SpecResyncTopic, e.cluster)
    ELSE ReplaceAll(ReplaceNth(StatusTopic, e.source, 1), e.cluster)

SourceTopic(e) ==
    IF e.kind = "statusresync" THEN ReplaceAll(StatusResyncTopic, e.source)
    ELSE ReplaceAll(ReplaceNth(SpecTopic, e.source, 1), e.cluster)

TopicOf(e) == IF Sender(e) \in Clusters THEN AgentTopic(e) ELSE SourceTopic(e)

\* The kinds of event a client subscribes to, in the order of its topics.
Subscribed(client) ==
    IF client \in Clusters THEN <<"spec", "statusresync">> ELSE <<"status", "specresync">>

AgentFilter(client, kind) ==
    IF kind = "spec" THEN ReplaceNth(SpecTopic, client, 2) ELSE StatusResyncTopic

SourceFilter(client, kind) ==
    IF kind = "status" THEN ReplaceNth(StatusTopic, client, 1) ELSE SpecResyncTopic

Filter(client, kind) ==
    IF client \in Clusters THEN AgentFilter(client, kind) ELSE SourceFilter(client, kind)

\* The broker's, or the gRPC server's.
Matches(topic, filter) ==
    /\ Len(topic) = Len(filter)
    /\ \A i \in DOMAIN filter : filter[i] \in {"+", topic[i]}

-----------------------------------------------------------------------------
\* Who an event is for, whatever its topic: a spec for the agent of its
\* cluster, a status for the source the work came from, a resync request for
\* everybody on the other side.
For(e, client) ==
    CASE e.kind = "spec"         -> client = e.cluster
      [] e.kind = "status"       -> client = e.source
      [] e.kind = "specresync"   -> client \in Sources
      [] e.kind = "statusresync" -> client \in Clusters
=============================================================================
