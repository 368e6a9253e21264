------------------------------ MODULE WorkSync ------------------------------
(***************************************************************************)
(* How manifestworks travel from the sources to the cache of one agent:    *)
(* the spec events and the spec resync of the generic source and agent     *)
(* clients (sourceclient.go, agentclient.go), the agent's event handler    *)
(* (resourcehandler.go), the Patch calls of the agent's controllers        *)
(* (manifestwork.go) and the informer they all write through.              *)
(*                                                                         *)
(* The cache is only read by the code; it is written by the informer from  *)
(* the events put into the ManifestWorkWatcher.  Every received event is   *)
(* handled in a goroutine of its own, so the events of one work are        *)
(* decided, handled and put into the watcher in any order.                 *)
(***************************************************************************)
EXTENDS Naturals, Sequences

CONSTANTS
    Sources,      \* source clients
    Works,        \* resource IDs
    Owner,        \* the source that creates each work
    Absent,       \* no object in a cache or store
    MaxVersion,   \* last resource version a source reaches (a bound)
    MaxDups,      \* events the broker delivers twice (a bound)
    MaxPatches,   \* Patch calls (a bound)
    MaxResyncs    \* spec resync requests, restarts included (a bound)

ASSUME ConstantsOK ==
    /\ Owner \in [Works -> Sources]
    /\ Absent \notin [ver: 0..MaxVersion, del: BOOLEAN, fin: BOOLEAN]
    /\ MaxVersion \in Nat /\ MaxDups \in Nat
    /\ MaxPatches \in Nat /\ MaxResyncs \in Nat

VARIABLES
    src,       \* per work, its object at the owner: state and version
    specs,     \* spec events in the broker
    requests,  \* spec resync requests in the broker, one copy per source
    reports,   \* works whose deletion the agent has reported to their source
    handling,  \* goroutines between deciding an action and reading the cache
    receiving, \* watcher.Receive calls waiting for the reflector
    fifo,      \* per work, the informer's queued deltas
    cache,     \* per work, the informer's store, which the listers read
    patches,   \* Patch calls between reading the cache and publishing
    clean,     \* history: see ResyncRepairs
    dups, patched, resynced  \* counters for the bounds

counters == <<dups, patched, resynced>>
net      == <<specs, requests, reports>>
agent    == <<handling, receiving, fifo, cache, patches>>
vars     == <<src, net, agent, clean, counters>>

Versions == 0..MaxVersion

\* A cached manifestwork: resource version, deletion timestamp and finalizer.
Objects == [ver: Versions, del: BOOLEAN, fin: BOOLEAN]
\* A delta carries the new object, or Absent for a deletion.
Deltas  == Objects \cup {Absent}

SpecEvents == [work: Works, ver: Versions, del: BOOLEAN]
Requests   == [to: Sources, vers: [Works -> Versions]]

TypeOK ==
    /\ src \in [Works -> [st: {"none", "live", "deleting", "gone"}, ver: Versions]]
    /\ specs \subseteq SpecEvents
    /\ requests \subseteq Requests
    /\ reports \subseteq Works
    /\ handling \subseteq [action: {"Modified", "Deleted"}, evt: SpecEvents]
    /\ receiving \subseteq [work: Works, obj: Deltas]
    /\ fifo \in [Works -> Seq(Deltas)]
    /\ cache \in [Works -> Deltas]
    /\ patches \subseteq [work: Works, obj: Objects, status: BOOLEAN]
    /\ clean \in BOOLEAN
    /\ dups \in 0..MaxDups /\ patched \in 0..MaxPatches /\ resynced \in 0..MaxResyncs

\* The agent's informer has sent the resync request of its first List.
EmptyList == [w \in Works |-> 0]
Init ==
    /\ src = [w \in Works |-> [st |-> "none", ver |-> 0]]
    /\ specs = {}
    /\ requests = [to: Sources, vers: {EmptyList}]
    /\ reports = {}
    /\ handling = {} /\ receiving = {} /\ patches = {}
    /\ fifo = [w \in Works |-> <<>>]
    /\ cache = [w \in Works |-> Absent]
    /\ clean = FALSE
    /\ dups = 0 /\ patched = 0 /\ resynced = 0

Event(w, v, d) == [work |-> w, ver |-> v, del |-> d]
Listed(s) == {w \in Works : Owner[w] = s /\ src[w].st \in {"live", "deleting"}}

-----------------------------------------------------------------------------
(* Mutants: plausible mistakes in the code below, one for each property.   *)

\* A resync is answered with a delete event also for works the source has.
RespondDeletesAll(r) ==
    {Event(w, src[w].ver, src[w].st = "deleting") :
        w \in {x \in Listed(r.to) : src[x].ver > r.vers[x]}}
    \cup {Event(w, r.vers[w], TRUE) : w \in {x \in Works : r.vers[x] > 0}}

\* An update is published with a version the source has not reached.
UpdateTwice(w) ==
    /\ src[w].st = "live" /\ src[w].ver < MaxVersion
    /\ src' = [src EXCEPT ![w].ver = @ + 1]
    /\ specs' = specs \cup {Event(w, src[w].ver + 2, FALSE)}
    /\ clean' = FALSE
    /\ UNCHANGED <<requests, reports, agent, counters>>

\* A handled work keeps the resource version of the cached one.
HandledAsCached(h, last) == [last EXCEPT !.del = h.action = "Deleted"]

\* A patch that leaves a work without finalizers removes it.
DeletingUnfinalized(p) == ~p.obj.fin

\* A source publishes a change that it then fails to store.
ChangeUnstored(w, st) ==
    /\ src[w].ver < MaxVersion
    /\ src' \in {src, [src EXCEPT ![w] = [st |-> st, ver |-> src[w].ver + 1]]}
    /\ specs' = specs \cup {Event(w, src[w].ver + 1, st = "deleting")}
    /\ clean' = FALSE
    /\ UNCHANGED <<requests, reports, agent, counters>>

-----------------------------------------------------------------------------
(* The sources.  A source numbers every change of a work, its deletion     *)
(* included, as the ResourceObject interface asks.                         *)

\* A user of the source client stores a change and publishes it.
Change(w, st) ==
    /\ src[w].ver < MaxVersion
    /\ src' = [src EXCEPT ![w] = [st |-> st, ver |-> src[w].ver + 1]]
    /\ specs' = specs \cup {Event(w, src[w].ver + 1, st = "deleting")}
    /\ clean' = FALSE
    /\ UNCHANGED <<requests, reports, agent, counters>>

Create(w) == src[w].st = "none" /\ Change(w, "live")
Update(w) == src[w].st = "live" /\ Change(w, "live")
Delete(w) == src[w].st = "live" /\ Change(w, "deleting")

\* respondResyncSpecRequest: the works the request has in an older version or
\* not at all, then a delete event for every requested work the source does
\* not list.  A failed publish loses the events from there on, see Lose.
Respond(r) ==
    {Event(w, src[w].ver, src[w].st = "deleting") :
        w \in {x \in Listed(r.to) : src[x].ver > r.vers[x]}}
    \cup {Event(w, r.vers[w], TRUE) :
            w \in {x \in Works : r.vers[x] > 0} \ Listed(r.to)}

ReceiveRequest(r) ==
    /\ requests' = requests \ {r}
    /\ specs' = specs \cup Respond(r)
    /\ UNCHANGED <<src, reports, agent, clean, counters>>

\* The source learns from the agent's last status that the manifests of a
\* deleting work are gone (statusAction: the work is listed and its status has
\* changed), and its user removes the work.
ReceiveReport(w) ==
    /\ reports' = reports \ {w}
    /\ src' = IF src[w].st = "deleting" THEN [src EXCEPT ![w].st = "gone"] ELSE src
    /\ clean' = FALSE
    /\ UNCHANGED <<specs, requests, agent, counters>>

-----------------------------------------------------------------------------
(* The broker delivers events in any order.  It loses those published while *)
(* the receiver is disconnected, and may deliver one twice.                 *)

Lose ==
    /\ \/ \E e \in specs : specs' = specs \ {e} /\ UNCHANGED <<requests, reports>>
       \/ \E r \in requests : requests' = requests \ {r} /\ UNCHANGED <<specs, reports>>
       \/ \E w \in reports : reports' = reports \ {w} /\ UNCHANGED <<specs, requests>>
    /\ clean' = FALSE
    /\ UNCHANGED <<src, agent, counters>>

TakeSpec(e) ==
    \/ specs' = specs \ {e} /\ UNCHANGED dups
    \/ dups < MaxDups /\ dups' = dups + 1 /\ UNCHANGED specs

-----------------------------------------------------------------------------
(* The agent's event handler.                                              *)

\* specAction, from the cache as it is when the event arrives.
SpecAction(e) ==
    IF cache[e.work] = Absent THEN "Added"
    ELSE IF e.del THEN "Deleted"
    ELSE IF e.ver = cache[e.work].ver THEN "none"
    ELSE "Modified"

\* receive: an added work goes to the watcher as it came.
Decide(e) ==
    LET action == SpecAction(e) IN
    /\ TakeSpec(e)
    /\ handling' = IF action \in {"Modified", "Deleted"}
                   THEN handling \cup {[action |-> action, evt |-> e]}
                   ELSE handling
    /\ receiving' = IF action = "Added"
                    THEN receiving \cup {[work |-> e.work,
                            obj |-> [ver |-> e.ver, del |-> e.del, fin |-> FALSE]]}
                    ELSE receiving
    /\ UNCHANGED <<src, requests, reports, fifo, cache, patches, clean, patched, resynced>>

\* The handler reads the cache again.  It keeps the local fields of the cached
\* work when it modifies it, and only sets the deletion timestamp when it
\* deletes it.
Handled(h, last) ==
    IF h.action = "Modified"
    THEN [ver |-> h.evt.ver, del |-> FALSE, fin |-> last.fin]
    ELSE [last EXCEPT !.del = TRUE]

Ignored(h, last) ==
    \/ last = Absent
    \/ h.action = "Modified" /\ h.evt.ver <= last.ver

Handle(h) ==
    LET w == h.evt.work IN
    /\ handling' = handling \ {h}
    /\ receiving' = IF Ignored(h, cache[w]) THEN receiving
                    ELSE receiving \cup {[work |-> w, obj |-> Handled(h, cache[w])]}
    /\ UNCHANGED <<src, net, fifo, cache, patches, clean, counters>>

-----------------------------------------------------------------------------
(* The watcher and the informer behind it.                                 *)

\* The reflector takes one event out of the watcher's channel.
Receive(p) ==
    /\ receiving' = receiving \ {p}
    /\ fifo' = [fifo EXCEPT ![p.work] = Append(@, p.obj)]
    /\ UNCHANGED <<src, net, handling, cache, patches, clean, counters>>

\* The informer applies the next delta of a work to its store.
Apply(w) ==
    /\ fifo[w] # <<>>
    /\ cache' = [cache EXCEPT ![w] = Head(fifo[w])]
    /\ fifo' = [fifo EXCEPT ![w] = Tail(@)]
    /\ UNCHANGED <<src, net, handling, receiving, patches, clean, counters>>

-----------------------------------------------------------------------------
(* Patch calls of the agent's controllers, applied to the cached work.     *)

StartPatch(w, obj, status) ==
    /\ patched < MaxPatches
    /\ patched' = patched + 1
    /\ patches' = patches \cup {[work |-> w, obj |-> obj, status |-> status]}
    /\ clean' = FALSE
    /\ UNCHANGED <<src, net, handling, receiving, fifo, cache, dups, resynced>>

PatchStatus(w) == cache[w] # Absent /\ StartPatch(w, cache[w], TRUE)
\* A controller adds its finalizer to a work that is not deleting, and removes
\* it when it has cleaned up after a deleting one.
PatchFinalizer(w) ==
    /\ cache[w] # Absent
    /\ StartPatch(w, [cache[w] EXCEPT !.fin = ~cache[w].del], FALSE)

\* A status patch publishes the status, and so does a patch that leaves a
\* deleting work without finalizers; the latter removes the work from the
\* cache.  When the publish fails nothing else happens.
Deleting(p) == ~p.status /\ p.obj.del /\ ~p.obj.fin

FinishPatch(p) ==
    /\ patches' = patches \ {p}
    /\ receiving' = receiving \cup
          {[work |-> p.work, obj |-> IF Deleting(p) THEN Absent ELSE p.obj]}
    /\ reports' = IF Deleting(p) THEN reports \cup {p.work} ELSE reports
    /\ UNCHANGED <<src, specs, requests, handling, fifo, cache, clean, counters>>

FailPatch(p) ==
    /\ p.status \/ Deleting(p)
    /\ patches' = patches \ {p}
    /\ UNCHANGED <<src, net, handling, receiving, fifo, cache, clean, counters>>

-----------------------------------------------------------------------------
(* Spec resync.                                                            *)

Idle ==
    /\ specs = {} /\ requests = {} /\ reports = {}
    /\ handling = {} /\ receiving = {} /\ patches = {}
    /\ \A w \in Works : fifo[w] = <<>>

CachedVersions ==
    [w \in Works |-> IF cache[w] = Absent THEN 0 ELSE cache[w].ver]

\* Resync publishes the versions of all the works in the cache, whichever
\* source they come from, on a topic that every source reads.
Resync ==
    /\ resynced < MaxResyncs
    /\ resynced' = resynced + 1
    /\ requests' = requests \cup [to: Sources, vers: {CachedVersions}]
    /\ clean' = Idle
    /\ UNCHANGED <<src, specs, reports, agent, dups, patched>>

\* The agent stops, and its memory with it.  When it starts again the first
\* List of its informer resyncs with an empty cache.
Restart ==
    /\ resynced < MaxResyncs
    /\ resynced' = resynced + 1
    /\ handling' = {} /\ receiving' = {} /\ patches' = {}
    /\ fifo' = [w \in Works |-> <<>>]
    /\ cache' = [w \in Works |-> Absent]
    /\ requests' = requests \cup [to: Sources, vers: {EmptyList}]
    /\ clean' = (specs = {} /\ requests = {} /\ reports = {})
    /\ UNCHANGED <<src, specs, reports, dups, patched>>

-----------------------------------------------------------------------------

Next ==
    \/ \E w \in Works :
          \/ Create(w) \/ Update(w) \/ Delete(w)
          \/ PatchStatus(w) \/ PatchFinalizer(w) \/ Apply(w)
    \/ \E r \in requests : ReceiveRequest(r)
    \/ \E w \in reports : ReceiveReport(w)
    \/ \E e \in specs : Decide(e)
    \/ \E h \in handling : Handle(h)
    \/ \E p \in receiving : Receive(p)
    \/ \E p \in patches : FinishPatch(p) \/ FailPatch(p)
    \/ Lose \/ Resync \/ Restart

Spec == Init /\ [][Next]_vars

-----------------------------------------------------------------------------
(* Properties.                                                             *)

\* The agent only marks a work as deleting, and so starts removing its
\* manifests, when the source that owns the work has deleted it.
DeletedByOwner ==
    \A w \in Works :
        cache[w] # Absent => (cache[w].del => src[w].st \in {"deleting", "gone"})

\* The agent never holds a version of a work its source has not reached: the
\* comparison of versions in a resync would then skip later updates.
NeverAhead ==
    \A w \in Works : cache[w] # Absent => cache[w].ver <= src[w].ver

\* What a resync is for: an agent that has missed or reordered events agrees
\* with the source again.  "clean" says a resync request was sent when nothing
\* was under way, and since then nothing was changed, patched or lost.
InSync(w) ==
    CASE src[w].st = "none"     -> cache[w] = Absent
      [] src[w].st = "live"     -> cache[w] # Absent /\ cache[w].ver = src[w].ver /\ ~cache[w].del
      [] src[w].st = "deleting" -> cache[w] # Absent /\ cache[w].del
      [] src[w].st = "gone"     -> cache[w] # Absent => cache[w].del

ResyncRepairs == clean /\ Idle => \A w \in Works : InSync(w)

-----------------------------------------------------------------------------
(* What the controllers are promised.                                      *)

Owners ==
    [w \in Works |-> [ver |-> src[w].ver, deleted |-> src[w].st \in {"deleting", "gone"}]]

\* The finalizers are the controllers' own business.
Visible ==
    [w \in Works |-> IF cache[w] = Absent THEN Absent
                    ELSE [ver |-> cache[w].ver, del |-> cache[w].del]]

Cache == INSTANCE AgentCache WITH owner <- Owners, cache <- Visible, rounds <- resynced

\* Every step of the protocol changes the agent's cache as AgentCache allows:
\* a controller never sees a work vanish that its owner still has, except by a
\* restart, and never one that its owner did not make.
CachePromise == Cache!Spec
=============================================================================
