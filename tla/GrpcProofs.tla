----------------------------- MODULE GrpcProofs -----------------------------
(***************************************************************************)
(* Proofs about GrpcAgent, for any sources, agents, events, versions and   *)
(* numbers of polling goroutines: its types, and that a receiver           *)
(* implements Mailbox.                                                     *)
(***************************************************************************)
EXTENDS GrpcAgent, FiniteSetTheorems, TLAPS

(* The placeholders of the topics.  Cardinality counts them, so the first  *)
(* is the one with a single placeholder up to it.                          *)

LEMMA Counts ==
    /\ Cardinality({}) = 0
    /\ \A x : Cardinality({x}) = 1
    /\ \A x, y : x # y => Cardinality({x, y}) = 2
<1>1. \A x : IsFiniteSet({x}) /\ Cardinality({x}) = 1 BY FS_Singleton
<1>2. ASSUME NEW x, NEW y, x # y PROVE Cardinality({x, y}) = 2
  <2>1. {x, y} = {x} \cup {y} /\ y \notin {x} BY <1>2
  <2>2. Cardinality({x} \cup {y}) = Cardinality({x}) + 1 BY <1>1, <2>1, FS_AddElement
  <2> QED BY <1>1, <2>1, <2>2
<1> QED BY <1>1, <1>2, FS_EmptySet

\* A topic of works: placeholders in the second and the fourth segment.
LEMMA WorkTopics ==
    ASSUME NEW last, last # "+", NEW x, NEW t,
           t = <<"sources", "+", "clusters", "+", last>>
    PROVE  /\ ReplaceNth(t, x, 1) = <<"sources", x, "clusters", "+", last>>
           /\ ReplaceNth(t, x, 2) = <<"sources", "+", "clusters", x, last>>
<1>1. DOMAIN t = 1..5 /\ Wildcards(t) = {2, 4} BY DEF Wildcards
<1>2. /\ {j \in Wildcards(t) : j <= 2} = {2}
      /\ {j \in Wildcards(t) : j <= 4} = {2, 4}
  BY <1>1
<1>3. /\ Cardinality({j \in Wildcards(t) : j <= 2}) = 1
      /\ Cardinality({j \in Wildcards(t) : j <= 4}) = 2
  <2>1. 2 # 4 OBVIOUS
  <2>2. Cardinality({2}) = 1 /\ Cardinality({2, 4}) = 2 BY <2>1, Counts, Zenon
  <2> QED BY <1>2, <2>2
<1>4. /\ \A i \in 1..5 : ReplaceNth(t, x, 1)[i] = <<"sources", x, "clusters", "+", last>>[i]
      /\ \A i \in 1..5 : ReplaceNth(t, x, 2)[i] = <<"sources", "+", "clusters", x, last>>[i]
  <2>1. \A i \in 1..5 : i = 1 \/ i = 2 \/ i = 3 \/ i = 4 \/ i = 5 OBVIOUS
  <2>2. \A n \in {1, 2} : \A i \in 1..5 : ReplaceNth(t, x, n)[i] =
          IF t[i] = "+" /\ Cardinality({j \in Wildcards(t) : j <= i}) = n THEN x ELSE t[i]
    BY <1>1 DEF ReplaceNth
  <2> QED BY <1>3, <2>1, <2>2
<1>5. \A n \in {1, 2} : ReplaceNth(t, x, n) = [i \in 1..5 |-> ReplaceNth(t, x, n)[i]]
  BY <1>1 DEF ReplaceNth
<1> QED BY <1>4, <1>5

\* The topics and filters, segment by segment.
LEMMA Filters ==
    ASSUME NEW c \in Sources \cup Clusters
    PROVE  /\ AgentFilter(c, "spec") = <<"sources", "+", "clusters", c, "spec">>
           /\ AgentFilter(c, "statusresync") = <<"sources", "+", "clusters", "statusresync">>
           /\ SourceFilter(c, "status") = <<"sources", c, "clusters", "+", "status">>
           /\ SourceFilter(c, "specresync") = <<"sources", "clusters", "+", "specresync">>
<1>1. ReplaceNth(SpecTopic, c, 2) = <<"sources", "+", "clusters", c, "spec">>
  <2>1. "spec" # "+" OBVIOUS
  <2> QED BY <2>1, WorkTopics DEF SpecTopic
<1>2. ReplaceNth(StatusTopic, c, 1) = <<"sources", c, "clusters", "+", "status">>
  <2>1. "status" # "+" OBVIOUS
  <2> QED BY <2>1, WorkTopics DEF StatusTopic
<1> QED BY <1>1, <1>2 DEF AgentFilter, SourceFilter, SpecResyncTopic, StatusResyncTopic

LEMMA TopicsOfEvents ==
    ASSUME NEW e \in EventType
    PROVE  /\ e.kind = "spec" =>
                TopicOf(e) = <<"sources", e.source, "clusters", e.cluster, "spec">>
           /\ e.kind = "status" =>
                TopicOf(e) = <<"sources", e.source, "clusters", e.cluster, "status">>
           /\ e.kind = "specresync" =>
                TopicOf(e) = <<"sources", "clusters", e.cluster, "specresync">>
           /\ e.kind = "statusresync" =>
                TopicOf(e) = <<"sources", e.source, "clusters", "statusresync">>
<1>1. CASE e.kind = "spec"
  <2>1. e.source \in Sources /\ e.source \notin Clusters /\ e.source # "+"
    BY <1>1, EventsOK, NoWildcards DEF EventType
  <2>2. TopicOf(e) = ReplaceAll(ReplaceNth(SpecTopic, e.source, 1), e.cluster)
    BY <1>1, <2>1 DEF TopicOf, Sender, SourceTopic
  <2>3. ReplaceNth(SpecTopic, e.source, 1) = <<"sources", e.source, "clusters", "+", "spec">>
    BY "spec" # "+", WorkTopics DEF SpecTopic
  <2>4. TopicOf(e) = <<"sources", e.source, "clusters", e.cluster, "spec">>
    BY <2>1, <2>2, <2>3 DEF ReplaceAll
  <2> QED BY <1>1, <2>4
<1>2. CASE e.kind = "status"
  <2>1. e.source \in Sources /\ e.source # "+" /\ e.cluster \in Clusters
    BY <1>2, EventsOK, NoWildcards DEF EventType
  <2>2. TopicOf(e) = ReplaceAll(ReplaceNth(StatusTopic, e.source, 1), e.cluster)
    BY <1>2, <2>1 DEF TopicOf, Sender, AgentTopic
  <2>3. ReplaceNth(StatusTopic, e.source, 1) = <<"sources", e.source, "clusters", "+", "status">>
    BY "status" # "+", WorkTopics DEF StatusTopic
  <2>4. TopicOf(e) = <<"sources", e.source, "clusters", e.cluster, "status">>
    BY <2>1, <2>2, <2>3 DEF ReplaceAll
  <2> QED BY <1>2, <2>4
<1>3. CASE e.kind = "specresync"
  <2>1. e.cluster \in Clusters BY <1>3 DEF EventType
  <2>2. TopicOf(e) = ReplaceAll(SpecResyncTopic, e.cluster)
    BY <1>3, <2>1 DEF TopicOf, Sender, AgentTopic
  <2>3. TopicOf(e) = <<"sources", "clusters", e.cluster, "specresync">>
    BY <2>2 DEF ReplaceAll, SpecResyncTopic
  <2> QED BY <1>3, <2>3
<1>4. CASE e.kind = "statusresync"
  <2>1. e.source \in Sources /\ e.source \notin Clusters
    BY <1>4, EventsOK DEF EventType
  <2>2. TopicOf(e) = ReplaceAll(StatusResyncTopic, e.source)
    BY <1>4, <2>1 DEF TopicOf, Sender, SourceTopic
  <2>3. TopicOf(e) = <<"sources", e.source, "clusters", "statusresync">>
    BY <2>2 DEF ReplaceAll, StatusResyncTopic
  <2> QED BY <1>4, <2>3
<1>5. e.kind \in {"spec", "status", "specresync", "statusresync"} BY DEF EventType
<1> QED BY <1>1, <1>2, <1>3, <1>4, <1>5

LEMMA FiveSegments ==
    ASSUME NEW a1, NEW a2, NEW a3, NEW a4, NEW a5, NEW b1, NEW b2, NEW b3, NEW b4, NEW b5
    PROVE  Matches(<<a1, a2, a3, a4, a5>>, <<b1, b2, b3, b4, b5>>)
             <=> /\ b1 \in {"+", a1} /\ b2 \in {"+", a2} /\ b3 \in {"+", a3}
                 /\ b4 \in {"+", a4} /\ b5 \in {"+", a5}
BY DEF Matches

LEMMA FourSegments ==
    ASSUME NEW a1, NEW a2, NEW a3, NEW a4, NEW b1, NEW b2, NEW b3, NEW b4
    PROVE  Matches(<<a1, a2, a3, a4>>, <<b1, b2, b3, b4>>)
             <=> /\ b1 \in {"+", a1} /\ b2 \in {"+", a2} /\ b3 \in {"+", a3}
                 /\ b4 \in {"+", a4}
BY DEF Matches

LEMMA OtherLength ==
    ASSUME NEW a1, NEW a2, NEW a3, NEW a4, NEW b1, NEW b2, NEW b3, NEW b4, NEW b5
    PROVE  /\ ~Matches(<<a1, a2, a3, a4>>, <<b1, b2, b3, b4, b5>>)
           /\ ~Matches(<<b1, b2, b3, b4, b5>>, <<a1, a2, a3, a4>>)
BY DEF Matches

\* A subscription gets the events of its kind that are for the client, and
\* those only: what the topics and filters of the options are for.
THEOREM Routing ==
    ASSUME NEW e \in EventType, NEW c \in Sources \cup Clusters,
           NEW i \in DOMAIN Subscribed(c), NEW k, k = Subscribed(c)[i]
    PROVE  Matches(TopicOf(e), Filter(c, k)) <=> (e.kind = k /\ For(e, c))
<1>1. c # "+" /\ (c \in Clusters <=> c \notin Sources) BY EventsOK, NoWildcards
<1>2. e.kind \in {"spec", "status", "specresync", "statusresync"} BY DEF EventType
<1>3. CASE c \in Clusters
  <2>1. k \in {"spec", "statusresync"} BY <1>3 DEF Subscribed
  <2>2. k = "spec" => Filter(c, k) = <<"sources", "+", "clusters", c, "spec">>
    BY <1>3, Filters DEF Filter
  <2>3. k = "statusresync" => Filter(c, k) = <<"sources", "+", "clusters", "statusresync">>
    BY <1>3, Filters DEF Filter
  <2>4. CASE k = "spec"
    <3>1. CASE e.kind = k
      BY <3>1, <2>4, <2>2, <1>1, <1>3, TopicsOfEvents, FiveSegments DEF For
    <3>2. CASE e.kind # k
      BY <3>2, <2>4, <2>2, <1>2, TopicsOfEvents, FiveSegments, OtherLength
    <3> QED BY <3>1, <3>2
  <2>5. CASE k = "statusresync"
    <3>1. CASE e.kind = k
      BY <3>1, <2>5, <2>3, <1>1, <1>3, TopicsOfEvents, FourSegments DEF For
    <3>2. CASE e.kind # k
      BY <3>2, <2>5, <2>3, <1>2, TopicsOfEvents, FourSegments, OtherLength
    <3> QED BY <3>1, <3>2
  <2> QED BY <2>1, <2>4, <2>5
<1>4. CASE c \notin Clusters
  <2>1. k \in {"status", "specresync"} BY <1>4 DEF Subscribed
  <2>2. k = "status" => Filter(c, k) = <<"sources", c, "clusters", "+", "status">>
    BY <1>4, Filters DEF Filter
  <2>3. k = "specresync" => Filter(c, k) = <<"sources", "clusters", "+", "specresync">>
    BY <1>4, Filters DEF Filter
  <2>4. CASE k = "status"
    <3>1. CASE e.kind = k
      BY <3>1, <2>4, <2>2, <1>1, <1>4, TopicsOfEvents, FiveSegments DEF For
    <3>2. CASE e.kind # k
      BY <3>2, <2>4, <2>2, <1>2, TopicsOfEvents, FiveSegments, OtherLength
    <3> QED BY <3>1, <3>2
  <2>5. CASE k = "specresync"
    <3>1. CASE e.kind = k
      BY <3>1, <2>5, <2>3, <1>1, <1>4, TopicsOfEvents, FourSegments DEF For
    <3>2. CASE e.kind # k
      BY <3>2, <2>5, <2>3, <1>2, TopicsOfEvents, FourSegments, OtherLength
    <3> QED BY <3>1, <3>2
  <2> QED BY <2>1, <2>4, <2>5
<1> QED BY <1>3, <1>4

-----------------------------------------------------------------------------
(* The way of an event through protobuf.                                   *)

Types == {"bool", "int32", "string", "bytes", "uri", "uriref", "time"}

\* Every type has a protobuf attribute of its own.
LEMMA AttributeRoundTrip ==
    ASSUME NEW t \in Types, NEW v PROVE ValueFrom(AttributeFor(Value(t, v))) = Value(t, v)
<1>1. DOMAIN Protobuf = Types BY DEF Protobuf, Types
<1>2. \A u \in Types : Protobuf[u] = Protobuf[t] <=> u = t BY DEF Protobuf, Types
<1> DEFINE a == AttributeFor(Value(t, v))
           c == CHOOSE u \in DOMAIN Protobuf : Protobuf[u] = a.attr
<1>3. a.attr = Protobuf[t] /\ a.v = v BY DEF AttributeFor, Value
<1>4. c \in DOMAIN Protobuf /\ Protobuf[c] = a.attr
  <2> HIDE DEF a
  <2> QED BY <1>1, <1>3
<1>5. c = t BY <1>1, <1>2, <1>3, <1>4
<1>6. ValueFrom(a) = Value(c, a.v) BY DEF ValueFrom
<1> QED BY <1>3, <1>5, <1>6

LEMMA MessageRoundTrip ==
    ASSUME NEW id, NEW type, NEW source, NEW F, F # {}, NEW x,
           x = [n \in F |-> x[n]],
           \A n \in F : ValueFrom(AttributeFor(x[n])) = x[n]
    PROVE  LET evt == [id |-> id, type |-> type, source |-> source, fields |-> x]
           IN  ~Unknown(WritePBMessage(evt)) /\ ReadBinary(WritePBMessage(evt)) = evt
<1> DEFINE evt == [id |-> id, type |-> type, source |-> source, fields |-> x]
           A == {<<"ce-", n>> : n \in F}
           msg == WritePBMessage(evt)
<1>1. DOMAIN evt.fields = F /\ \A n \in F : evt.fields[n] = x[n] OBVIOUS
<1>2. /\ msg.Id = id /\ msg.Type = type /\ msg.Source = source
      /\ msg.Attributes = [a \in A |-> AttributeFor(x[a[2]])]
  BY <1>1 DEF WritePBMessage
<1>3. DOMAIN msg.Attributes = A /\ A # {}
  <2>1. PICK n : n \in F OBVIOUS
  <2>2. <<"ce-", n>> \in A BY <2>1
  <2> QED BY <1>2, <2>2
<1>4. {a[2] : a \in A} = F
  <2>1. \A a \in A : a[2] \in F OBVIOUS
  <2>2. \A n \in F : \E a \in A : a[2] = n
    <3> SUFFICES ASSUME NEW n \in F PROVE \E a \in A : a[2] = n OBVIOUS
    <3>1. <<"ce-", n>> \in A /\ <<"ce-", n>>[2] = n OBVIOUS
    <3> QED BY <3>1
  <2> HIDE DEF A
  <2> QED BY <2>1, <2>2
<1>5. \A n \in F : msg.Attributes[<<"ce-", n>>] = AttributeFor(x[n])
  <2> SUFFICES ASSUME NEW n \in F PROVE msg.Attributes[<<"ce-", n>>] = AttributeFor(x[n])
    OBVIOUS
  <2>1. <<"ce-", n>> \in A OBVIOUS
  <2> QED BY <1>2, <2>1
<1>6. [n \in F |-> ValueFrom(msg.Attributes[<<"ce-", n>>])] = x BY <1>5
<1>7. ReadBinary(msg) = [id |-> msg.Id, type |-> msg.Type, source |-> msg.Source,
                         fields |-> [n \in F |-> ValueFrom(msg.Attributes[<<"ce-", n>>])]]
  <2> HIDE DEF msg, A
  <2> QED BY <1>3, <1>4 DEF ReadBinary
<1> QED BY <1>2, <1>3, <1>6, <1>7 DEF Unknown

\* Only a codec that cannot read versions makes nothing of an event.
LEMMA ReceivedEvent ==
    ASSUME NEW e \in EventType
    PROVE  /\ Received(e) \in {e, None}
           /\ VersionAs = "ToInteger" => Received(e) = e
<1> DEFINE F == Fields(e)
           x == [n \in F |-> Narrowed(Field(e, n))]
           evt == NewEvent(e)
<1>1. e.kind \in {"spec", "status", "specresync", "statusresync"} BY DEF EventType
<1>2. "time" \in F /\ F \subseteq {"time", "resourceversion", "clustername", "originalsource"}
  BY <1>1 DEF Fields
<1>3. /\ "time" \in F => x["time"] = Value("time", e.id)
      /\ "resourceversion" \in F => x["resourceversion"] = Value("int32", e.ver)
      /\ "clustername" \in F => x["clustername"] = Value("string", e.cluster)
      /\ "originalsource" \in F => x["originalsource"] = Value("string", e.source)
  BY DEF Field, Narrowed, Value
<1>4. \A n \in F : ValueFrom(AttributeFor(x[n])) = x[n]
  <2> SUFFICES ASSUME NEW n \in F PROVE ValueFrom(AttributeFor(x[n])) = x[n]
    OBVIOUS
  <2> HIDE DEF x, F
  <2>1. \E t \in {"time", "int32", "string"} : \E v : x[n] = Value(t, v)
    BY <1>2, <1>3
  <2> QED BY <2>1, AttributeRoundTrip DEF Types
<1>5. evt = [id |-> e.id, type |-> e.kind, source |-> Sender(e), fields |-> x]
  BY DEF NewEvent
<1>6. ~Unknown(WritePBMessage(evt)) /\ ReadBinary(WritePBMessage(evt)) = evt
  <2>1. F # {} /\ x = [n \in F |-> x[n]] BY <1>2
  <2> HIDE DEF x, F, evt
  <2> QED BY <1>4, <1>5, <2>1, MessageRoundTrip
<1>7. Received(e) = Decode(evt)
  BY <1>6 DEF Received
<1>8. CASE e.kind \in {"spec", "status"}
  <2>1. F = {"time", "resourceversion", "clustername"}
            \cup (IF e.kind = "status" THEN {"originalsource"} ELSE {})
    BY <1>8 DEF Fields
  <2>2. e = [id |-> e.id, kind |-> e.kind, source |-> e.source, cluster |-> e.cluster,
             ver |-> e.ver]
    BY <1>8 DEF EventType
  <2> QED BY <1>3, <1>5, <1>7, <1>8, <2>1, <2>2 DEF Decode, Readable, Value, Sender
<1>9. CASE e.kind = "specresync"
  <2>1. F = {"time", "clustername"} BY <1>9 DEF Fields
  <2>2. e = [id |-> e.id, kind |-> "specresync", source |-> None, cluster |-> e.cluster,
             ver |-> None]
    BY <1>9 DEF EventType
  <2> QED BY <1>3, <1>5, <1>7, <1>9, <2>1, <2>2 DEF Decode, Value, Sender
<1>10. CASE e.kind = "statusresync"
  <2>1. F = {"time"} BY <1>10 DEF Fields
  <2>2. e = [id |-> e.id, kind |-> "statusresync", source |-> e.source, cluster |-> None,
             ver |-> None]
    BY <1>10 DEF EventType
  <2> QED BY <1>3, <1>5, <1>7, <1>10, <2>1, <2>2 DEF Decode, Value, Sender
<1> QED BY <1>1, <1>8, <1>9, <1>10

-----------------------------------------------------------------------------
(* Type correctness.                                                       *)

LEMMA ArrivesType == \A e \in Events : Arrives[e] \in {e, None}
BY ReceivedEvent, ClientsOK DEF Arrives

LEMMA InitType == Init => TypeOK
<1> SUFFICES ASSUME Init PROVE TypeOK OBVIOUS
<1>0. Pollers \in Nat \ {0} BY ClientsOK
<1>1. ProtocolTypeOK
  <2> USE DEF Init, ProtocolInit
  <2>1. client \in Clients /\ sent \subseteq Events /\ callbacks \subseteq Events OBVIOUS
  <2>2. /\ opening \in {"subscribing", "done"} /\ receiver \in {"running", "returned"}
        /\ stream \in [Kinds -> {"none", "open", "broken"}]
    OBVIOUS
  <2>3. /\ flow \in [Kinds -> Seq(Events)] /\ got \in [Kinds -> Seq(Events \cup {None})]
        /\ held \in [Kinds -> Events \cup {None}]
    OBVIOUS
  <2>4. reading \in [Kinds -> BOOLEAN] /\ cancelled \in BOOLEAN /\ closed \in BOOLEAN
    OBVIOUS
  <2>5. polling \in 0..Pollers BY <1>0
  <2> QED BY <2>1, <2>2, <2>3, <2>4, <2>5 DEF ProtocolTypeOK
<1>2. Watcher!WatcherTypeOK BY DEF Init, Watcher!WatcherInit, Watcher!WatcherTypeOK
<1> QED BY <1>1, <1>2 DEF TypeOK

LEMMA ProtocolNextType == ProtocolTypeOK /\ ProtocolNext => ProtocolTypeOK'
<1> SUFFICES ASSUME ProtocolTypeOK, ProtocolNext PROVE ProtocolTypeOK' OBVIOUS
<1> USE DEF ProtocolTypeOK
<1>1. ASSUME NEW e \in Events, Publish(e) PROVE ProtocolTypeOK'
  BY <1>1 DEF Publish, receiverVars
<1>2. ASSUME NEW k \in Kinds, Subscribe(k) \/ SubscribeFails(k) \/ Break(k)
      PROVE  ProtocolTypeOK'
  BY <1>2 DEF Subscribe, SubscribeFails, Break, streamVars, receiverVars
<1>3. ASSUME NEW k \in Kinds, Recv(k) PROVE ProtocolTypeOK'
  <2>1. flow[k] \in Seq(Events) /\ flow[k] # <<>> BY <1>3 DEF Recv
  <2>2. Head(flow[k]) \in Events /\ Tail(flow[k]) \in Seq(Events) BY <2>1
  <2> QED BY <1>3, <2>2 DEF Recv, receiverVars
<1>4. ASSUME NEW k \in Kinds, RecvError(k) PROVE ProtocolTypeOK'
  BY <1>4 DEF RecvError, receiverVars
<1>5. ASSUME NEW k \in Kinds, HandOver(k) PROVE ProtocolTypeOK'
  <2>1. held[k] \in Events /\ Arrives[held[k]] \in Events \cup {None}
    BY <1>5, ArrivesType DEF HandOver
  <2>2. Append(got[k], Arrives[held[k]]) \in Seq(Events \cup {None}) BY <2>1
  <2> QED BY <1>5, <2>1, <2>2 DEF HandOver
<1>6. CASE OpenDone \/ Return \/ CancelReceiver \/ Close
  BY <1>6 DEF OpenDone, Return, CancelReceiver, Close, streamVars, receiverVars
<1>7. CASE PollEnd
  <2>1. Pollers \in Nat \ {0} BY ClientsOK
  <2> QED BY <1>7, <2>1 DEF PollEnd, streamVars
<1> QED BY <1>1, <1>2, <1>3, <1>4, <1>5, <1>6, <1>7 DEF ProtocolNext

LEMMA NextType == TypeOK /\ [Next]_vars => TypeOK'
<1> SUFFICES ASSUME TypeOK, [Next]_vars PROVE TypeOK' OBVIOUS
<1> USE DEF TypeOK
<1>1. CASE Protocol
  BY <1>1, ProtocolNextType DEF Protocol, watcherVars, Watcher!WatcherTypeOK
<1>2. ASSUME NEW e \in Events, CallbackReturns(e) PROVE ProtocolTypeOK'
  BY <1>2 DEF CallbackReturns, ProtocolTypeOK, streamVars
<1>3. UNCHANGED protocolVars => ProtocolTypeOK'
  BY DEF ProtocolTypeOK, protocolVars, streamVars, receiverVars
<1>4. ASSUME NEW c \in Events \cup Patchers, Watcher!Receive(c) \/ Watcher!Take(c)
      PROVE  Watcher!WatcherTypeOK'
  BY <1>4 DEF Watcher!Receive, Watcher!Take, Watcher!WatcherTypeOK
<1>5. ASSUME NEW e \in Events, Handle(e) \/ Ignore(e) PROVE TypeOK'
  BY <1>2, <1>3, <1>4, <1>5 DEF Handle, Ignore, watcherVars, Watcher!WatcherTypeOK
<1>6. ASSUME NEW p \in Patchers, Patch(p) PROVE TypeOK'
  BY <1>3, <1>4, <1>6 DEF Patch
<1>7. ASSUME NEW c \in Events \cup Patchers, Taken(c) PROVE TypeOK'
  <2>1. c \in callbacks => c \in Events BY DEF ProtocolTypeOK
  <2> QED BY <1>2, <1>3, <1>4, <1>7, <2>1 DEF Taken
<1>8. CASE UNCHANGED protocolVars /\ (Watcher!Watch \/ Watcher!Stop)
  BY <1>3, <1>8 DEF Watcher!Watch, Watcher!Stop, Watcher!WatcherTypeOK
<1>9. CASE UNCHANGED vars BY <1>3, <1>9 DEF vars, Watcher!WatcherTypeOK
<1> QED BY <1>1, <1>5, <1>6, <1>7, <1>8, <1>9 DEF Next

\* However many events, pollers and patches there are, what a receiver holds,
\* returns and hands to its callbacks are events that were there to publish:
\* decoding drops an event or gives it back, and makes none up.
THEOREM TypeCorrect == Spec => []TypeOK
BY InitType, NextType, PTL DEF Spec

-----------------------------------------------------------------------------
(* The refinement.                                                         *)

\* Streams are those of the client's topics, and are read when they are there.
StreamsInv ==
    \A k \in Kinds :
        /\ stream[k] # "none" => \E i \in DOMAIN Subscribed(client) : k = Subscribed(client)[i]
        /\ reading[k] => stream[k] # "none"

LEMMA InitStreams == Init => StreamsInv
BY DEF Init, ProtocolInit, StreamsInv

LEMMA NextStreams == TypeOK /\ StreamsInv /\ [Next]_vars => StreamsInv'
<1> SUFFICES ASSUME TypeOK, StreamsInv, [Next]_vars PROVE StreamsInv' OBVIOUS
<1> USE DEF TypeOK, ProtocolTypeOK, StreamsInv
<1>1. ASSUME NEW k \in Kinds, Subscribe(k) PROVE StreamsInv'
  BY <1>1 DEF Subscribe, NextTopic
<1>2. ASSUME NEW k \in Kinds, Break(k) \/ RecvError(k) PROVE StreamsInv'
  BY <1>2 DEF Break, RecvError
<1>3. CASE UNCHANGED <<client, stream, reading>> BY <1>3
<1> QED
  BY <1>1, <1>2, <1>3 DEF Next, Protocol, ProtocolNext, vars, protocolVars, streamVars,
     receiverVars, Publish, SubscribeFails, Recv, HandOver, OpenDone, PollEnd, Return,
     CancelReceiver, Close, Handle, Ignore, Patch, Taken, CallbackReturns

LEMMA InitRefines == Init => Box!Init
BY DEF Init, ProtocolInit, Pending, Box!Init

LEMMA PublishRefines ==
    ASSUME TypeOK, StreamsInv, NEW e \in Events, Publish(e) PROVE Box!Publish(e)
<1> USE DEF TypeOK, ProtocolTypeOK
<1>1. e \in EventType /\ client \in Sources \cup Clusters BY ClientsOK
<1>2. \A k \in Kinds : stream[k] = "open" =>
        (Matches(TopicOf(e), Filter(client, k)) <=> (e.kind = k /\ For(e, client)))
  BY <1>1, Routing DEF StreamsInv
<1>3. ASSUME NEW k \in Kinds
      PROVE  Pending(k)' = IF k = e.kind /\ stream[k] = "open" /\ For(e, client)
                           THEN Append(Pending(k), e) ELSE Pending(k)
  <2>1. flow[k] \in Seq(Events) /\ held' = held BY DEF Publish
  <2>2. flow'[k] = IF k = e.kind /\ stream[k] = "open" /\ For(e, client)
                   THEN Append(flow[k], e) ELSE flow[k]
    BY <1>2 DEF Publish
  <2>3. <<held[k]>> \o Append(flow[k], e) = Append(<<held[k]>> \o flow[k], e)
    BY <2>1
  <2> QED BY <2>1, <2>2, <2>3 DEF Pending
<1> QED BY <1>3 DEF Publish, receiverVars, EventKind, Box!Publish

LEMMA RecvRefines ==
    ASSUME TypeOK, NEW k \in Kinds, Recv(k) PROVE UNCHANGED Box!vars
<1> USE DEF TypeOK, ProtocolTypeOK
<1>1. ASSUME NEW j \in Kinds PROVE Pending(j)' = Pending(j)
  <2>1. CASE j # k BY <2>1 DEF Recv, Pending
  <2>2. CASE j = k
    <3>1. flow[k] \in Seq(Events) /\ flow[k] # <<>> BY DEF Recv
    <3>2. <<Head(flow[k])>> \o Tail(flow[k]) = flow[k] BY <3>1
    <3>3. Head(flow[k]) # None BY <3>1, ClientsOK
    <3>4. held[k] = None /\ held'[k] = Head(flow[k]) /\ flow'[k] = Tail(flow[k]) BY DEF Recv
    <3> QED BY <2>2, <3>2, <3>3, <3>4 DEF Pending
  <2> QED BY <2>1, <2>2
<1> QED BY <1>1 DEF Recv, receiverVars, Box!vars

LEMMA HandOverRefines ==
    ASSUME TypeOK, VersionAs = "ToInteger", NEW k \in Kinds, HandOver(k) PROVE Box!Deliver(k)
<1> USE DEF TypeOK, ProtocolTypeOK
<1>1. held[k] \in Events /\ Arrives[held[k]] = held[k]
  BY ReceivedEvent, ClientsOK DEF HandOver, Arrives
<1>2. Pending(k) = <<held[k]>> \o flow[k] /\ flow[k] \in Seq(Events) BY DEF HandOver, Pending
<1>3. Pending(k) # <<>> /\ Head(Pending(k)) = held[k] /\ Tail(Pending(k)) = flow[k]
  BY <1>1, <1>2
<1>4. ASSUME NEW j \in Kinds
      PROVE  Pending(j)' = IF j = k THEN Tail(Pending(k)) ELSE Pending(j)
  BY <1>3 DEF HandOver, Pending
<1>5. got' = [got EXCEPT ![k] = Append(@, Head(Pending(k)))]
  BY <1>1, <1>3 DEF HandOver
<1> QED BY <1>3, <1>4, <1>5 DEF HandOver, Box!Deliver

LEMMA CutRefines ==
    ASSUME TypeOK, NEW k \in Kinds, Break(k) \/ RecvError(k) PROVE Box!Cut(k)
<1> USE DEF TypeOK, ProtocolTypeOK
<1>1. Pending(k) \in Seq(Events) BY DEF Pending
<1>2. PICK n \in 0..Len(Pending(k)) :
        \A j \in Kinds : Pending(j)' = IF j = k THEN SubSeq(Pending(k), 1, n) ELSE Pending(j)
  <2>1. CASE Break(k)
    <3>1. SubSeq(Pending(k), 1, Len(Pending(k))) = Pending(k) BY <1>1
    <3>2. Len(Pending(k)) \in 0..Len(Pending(k)) BY <1>1
    <3>3. \A j \in Kinds : Pending(j)' = Pending(j) BY <2>1 DEF Break, Pending
    <3> QED BY <3>1, <3>2, <3>3
  <2>2. CASE RecvError(k)
    <3>1. SubSeq(Pending(k), 1, 0) = <<>> /\ 0 \in 0..Len(Pending(k)) BY <1>1
    <3>2. \A j \in Kinds : Pending(j)' = IF j = k THEN <<>> ELSE Pending(j)
      BY <2>2 DEF RecvError, Pending
    <3> QED BY <3>1, <3>2
  <2> QED BY <2>1, <2>2
<1>3. \A j \in Kinds : (stream'[j] = "open") = IF j = k THEN FALSE ELSE (stream[j] = "open")
  BY DEF Break, RecvError
<1>4. UNCHANGED <<client, sent, got, cancelled>> BY DEF Break, RecvError, receiverVars
<1> QED BY <1>2, <1>3, <1>4 DEF Box!Cut

LEMMA OpenRefines ==
    ASSUME TypeOK, NEW k \in Kinds, Subscribe(k) PROVE Box!Open(k)
<1>1. \A j \in Kinds : Pending(j)' = Pending(j) BY DEF Subscribe, Pending
<1>2. \A j \in Kinds : (stream'[j] = "open") = IF j = k THEN TRUE ELSE (stream[j] = "open")
  BY DEF Subscribe, TypeOK, ProtocolTypeOK
<1> QED BY <1>1, <1>2 DEF Subscribe, receiverVars, Box!Open

LEMMA NextRefines ==
    ASSUME TypeOK, StreamsInv, VersionAs = "ToInteger", [Next]_vars
    PROVE  [Box!Next]_(Box!vars)
<1>1. ASSUME NEW k \in Kinds, SubscribeFails(k) PROVE Box!Stop
  BY <1>1 DEF SubscribeFails, streamVars, receiverVars, Pending, Box!Stop
<1>2. CASE CancelReceiver
  BY <1>2 DEF CancelReceiver, streamVars, receiverVars, Pending, Box!Next, Box!Stop
<1>3. UNCHANGED <<client, sent, stream, flow, held, got, cancelled>> => UNCHANGED Box!vars
  BY DEF Pending, Box!vars
<1>4. CASE Protocol
  <2>1. CASE OpenDone \/ PollEnd \/ Return \/ Close
    BY <1>3, <2>1 DEF OpenDone, PollEnd, Return, Close, streamVars, receiverVars
  <2>2. ASSUME NEW e \in Events, Publish(e) PROVE Box!Next
    BY <2>2, PublishRefines DEF Box!Next
  <2>3. ASSUME NEW k \in Kinds,
               Subscribe(k) \/ SubscribeFails(k) \/ Break(k) \/ Recv(k) \/ RecvError(k) \/ HandOver(k)
        PROVE  Box!Next \/ UNCHANGED Box!vars
    <3>1. Subscribe(k) => Box!Next BY OpenRefines DEF Box!Next
    <3>2. SubscribeFails(k) => Box!Next BY <1>1 DEF Box!Next
    <3>3. Break(k) \/ RecvError(k) => Box!Next BY CutRefines DEF Box!Next
    <3>4. Recv(k) => UNCHANGED Box!vars BY RecvRefines
    <3>5. HandOver(k) => Box!Next BY HandOverRefines DEF Box!Next
    <3> QED BY <2>3, <3>1, <3>2, <3>3, <3>4, <3>5
  <2>4. ProtocolNext BY <1>4 DEF Protocol
  <2> QED BY <1>2, <2>1, <2>2, <2>3, <2>4 DEF ProtocolNext
<1>5. CASE UNCHANGED vars \/ UNCHANGED protocolVars
  BY <1>3, <1>5 DEF vars, protocolVars, streamVars, receiverVars
<1>6. ASSUME NEW e \in Events, CallbackReturns(e) PROVE UNCHANGED Box!vars
  BY <1>3, <1>6 DEF CallbackReturns, streamVars
<1>7. callbacks \subseteq Events BY DEF TypeOK, ProtocolTypeOK
<1> QED BY <1>4, <1>5, <1>6, <1>7 DEF Next, Handle, Ignore, Patch, Taken

\* A receiver whose codec reads the versions gRPC brings gets what is meant
\* for it, once and in order.
THEOREM ReceivesInOrder ==
    ASSUME VersionAs = "ToInteger" PROVE Spec => InOrder
<1>1. TypeOK /\ StreamsInv /\ [Next]_vars => [Box!Next]_(Box!vars) BY NextRefines
<1> QED
  BY <1>1, InitType, NextType, InitStreams, NextStreams, InitRefines, PTL
     DEF Spec, InOrder, Box!Spec

=============================================================================
