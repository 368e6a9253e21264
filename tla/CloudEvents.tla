---------------------------- MODULE CloudEvents ----------------------------
(***************************************************************************)
(* The events that sources and agents exchange, and what becomes of their  *)
(* attributes on the way through gRPC: types.go builds an event,           *)
(* write_message.go turns it into its protobuf form, message.go turns that *)
(* back, and a codec decodes the event.                                    *)
(*                                                                         *)
(* An attribute has a Go type and a value.  The payload, the time and the  *)
(* names of resources decide nothing and stand behind the event's ID.  An  *)
(* agent is named by its cluster.                                          *)
(***************************************************************************)
EXTENDS Naturals

CONSTANTS
    Sources, Clusters,
    None,          \* a field an event does not have, or an event that is dropped
    MaxInt32,      \* the largest CloudEvents integer
    VersionAs      \* how the receiver's codec reads versions: "ToString" in the
                   \* codecs of works, "ToInteger" in those of the tests' source

ASSUME EventsOK ==
    /\ MaxInt32 \in Nat
    /\ VersionAs \in {"ToInteger", "ToString"}
    /\ None \notin Sources \cup Clusters \cup Nat
    /\ Sources \cap Clusters = {}

Kinds == {"spec", "status", "specresync", "statusresync"}

\* A resync request for specs is an agent's, for any source; one for statuses
\* is a source's, for any agent.
EventType ==
    [id: Nat, kind: {"spec", "status"}, source: Sources, cluster: Clusters, ver: Nat]
    \cup [id: Nat, kind: {"specresync"}, source: {None}, cluster: Clusters, ver: {None}]
    \cup [id: Nat, kind: {"statusresync"}, source: Sources, cluster: {None}, ver: {None}]

Value(type, v) == [type |-> type, v |-> v]

-----------------------------------------------------------------------------
(* types.go and the codecs that encode.                                    *)

Sender(e) == IF e.kind \in {"spec", "statusresync"} THEN e.source ELSE e.cluster

Fields(e) ==
    CASE e.kind = "spec"         -> {"time", "resourceversion", "clustername"}
      [] e.kind = "status"       -> {"time", "resourceversion", "clustername", "originalsource"}
      [] e.kind = "specresync"   -> {"time", "clustername"}
      [] e.kind = "statusresync" -> {"time"}

Field(e, n) ==
    CASE n = "time"            -> Value("time", e.id)
      [] n = "resourceversion" -> Value("int64", e.ver)
      [] n = "clustername"     -> Value("string", e.cluster)
      [] n = "originalsource"  -> Value("string", e.source)

\* The CloudEvents library narrows every integer to 32 bits.  An event with a
\* version beyond is not valid, and not sent.
Fits(x)      == x.type = "int64" => x.v <= MaxInt32
Narrowed(x)  == IF x.type = "int64" THEN Value("int32", x.v) ELSE x
Sendable(e)  == \A n \in Fields(e) : Fits(Field(e, n))

NewEvent(e) ==
    [id |-> e.id, type |-> e.kind, source |-> Sender(e),
     fields |-> [n \in Fields(e) |-> Narrowed(Field(e, n))]]

-----------------------------------------------------------------------------
(* The protobuf form.                                                      *)

Protobuf == [bool |-> "CeBoolean", int32 |-> "CeInteger", string |-> "CeString",
             bytes |-> "CeBytes", uri |-> "CeUri", uriref |-> "CeUriRef",
             time |-> "CeTimestamp"]

AttributeFor(x) == [attr |-> Protobuf[x.type], v |-> x.v]
ValueFrom(a)    == Value(CHOOSE t \in DOMAIN Protobuf : Protobuf[t] = a.attr, a.v)

\* All names but that of the content type get a prefix.
WritePBMessage(evt) ==
    [Id |-> evt.id, Type |-> evt.type, Source |-> evt.source,
     Attributes |-> [a \in {<<"ce-", n>> : n \in DOMAIN evt.fields} |->
                        AttributeFor(evt.fields[a[2]])]]

\* A message without attributes has no known encoding and cannot be read.
Unknown(msg) == DOMAIN msg.Attributes = {}

ReadBinary(msg) ==
    [id |-> msg.Id, type |-> msg.Type, source |-> msg.Source,
     fields |-> [n \in {a[2] : a \in DOMAIN msg.Attributes} |->
                   ValueFrom(msg.Attributes[<<"ce-", n>>])]]

-----------------------------------------------------------------------------
(* The codecs that decode.                                                 *)

Readable(x) == x.type \in {"string", IF VersionAs = "ToInteger" THEN "int32" ELSE "string"}

Decode(evt) ==
    LET F == DOMAIN evt.fields
        Or(n, other) == IF n \in F THEN evt.fields[n].v ELSE other
    IN  IF "resourceversion" \in F /\ ~Readable(evt.fields["resourceversion"]) THEN None
        ELSE [id |-> evt.id, kind |-> evt.type,
              source |-> IF evt.type \in {"spec", "statusresync"} THEN evt.source
                         ELSE Or("originalsource", None),
              cluster |-> Or("clustername", None),
              ver |-> Or("resourceversion", None)]

\* What the receiver makes of an event.
Received(e) ==
    LET msg == WritePBMessage(NewEvent(e))
    IN  IF Unknown(msg) THEN None ELSE Decode(ReadBinary(msg))
=============================================================================
