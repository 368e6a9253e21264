----------------------------- MODULE StatusSync -----------------------------
(***************************************************************************)
(* How the status of manifestworks gets from one agent to their source:    *)
(* the status patches of the agent's controllers (manifestwork.go), the    *)
(* status events and the status resync of the generic clients              *)
(* (agentclient.go, sourceclient.go) and the hashes both sides compare.    *)
(*                                                                         *)
(* Which works the agent has is the subject of WorkSync, as is the report  *)
(* of a deletion.  Here works come to the agent and leave it as the source *)
(* has them, and a spec event is what it does to the cached status.        *)
(***************************************************************************)
EXTENDS Naturals, FiniteSets

CONSTANTS
    Works,       \* resource IDs
    Statuses,    \* statuses with different hashes
    Empty,       \* the status of a work that has none yet
    Absent,      \* no such work
    MaxChanges,  \* works created or removed, spec updates, changes of the manifests (a bound)
    MaxMishaps,  \* lost or repeated messages, failed publishes, restarts (a bound)
    MaxResyncs   \* status resync requests (a bound)

ASSUME ConstantsOK ==
    /\ Empty \in Statuses /\ Absent \notin Statuses
    /\ MaxChanges \in Nat /\ MaxMishaps \in Nat /\ MaxResyncs \in Nat

VARIABLES
    actual,     \* per work, the status its manifests give it
    cache,      \* per work, its status in the agent's informer store
    patches,    \* Patch calls between reading the cache and publishing
    receiving,  \* statuses on their way through the watcher into the cache
    events,     \* status events in the broker
    requests,   \* status resync requests in the broker
    deciding,   \* the source's goroutines between statusAction and the handler
    store,      \* per work, its status at the source
    published,  \* history: per work, statuses the broker has been given
    clean,      \* history: see StatusResyncRepairs
    changes, mishaps, resyncs  \* counters for the bounds

counters == <<changes, mishaps, resyncs>>
agent    == <<actual, cache, patches, receiving>>
net      == <<events, requests>>
source   == <<deciding, store>>
vars     == <<agent, net, source, published, clean, counters>>

Reports == [work: Works, status: Statuses]
Put     == [work: Works, status: Statuses \cup {Absent}]
\* The hashes of the works a source lists.
Hashes  == [Works -> Statuses \cup {Absent}]

TypeOK ==
    /\ actual \in [Works -> Statuses]
    /\ cache \in [Works -> Statuses \cup {Absent}]
    /\ patches \subseteq Reports /\ receiving \subseteq Put
    /\ events \subseteq Reports /\ requests \subseteq Hashes
    /\ deciding \subseteq Reports
    /\ store \in [Works -> Statuses \cup {Absent}]
    /\ published \in [Works -> SUBSET Statuses]
    /\ clean \in BOOLEAN
    /\ changes \in 0..MaxChanges /\ mishaps \in 0..MaxMishaps
    /\ resyncs \in 0..MaxResyncs

\* The source may have works that the agent is about to hear of.
Init ==
    /\ actual \in [Works -> Statuses \ {Empty}]
    /\ cache = [w \in Works |-> Absent]
    /\ store \in [Works -> {Absent, Empty}]
    /\ patches = {} /\ receiving = {} /\ deciding = {}
    /\ events = {} /\ requests = {}
    /\ published = [w \in Works |-> {}]
    /\ clean = FALSE
    /\ changes = 0 /\ mishaps = 0 /\ resyncs = 0

Status(w, s) == [work |-> w, status |-> s]
Listed(side) == {w \in Works : side[w] # Absent}

Change == changes < MaxChanges /\ changes' = changes + 1 /\ UNCHANGED <<mishaps, resyncs>>
Mishap == mishaps < MaxMishaps /\ mishaps' = mishaps + 1 /\ UNCHANGED <<changes, resyncs>>

-----------------------------------------------------------------------------
(* Mutants.  The patch refreshes the cache although nothing was published; *)
(* it publishes and does not refresh it; a request is answered only for    *)
(* works that have no status at the source; or also for works that the     *)
(* agent does not have.                                                    *)

FailPatchRefreshes(p) ==
    /\ patches' = patches \ {p}
    /\ receiving' = receiving \cup {p}
    /\ Mishap
    /\ UNCHANGED <<actual, cache, net, source, published, clean>>

FinishPatchNoRefresh(p) ==
    /\ patches' = patches \ {p}
    /\ events' = events \cup {p}
    /\ published' = [published EXCEPT ![p.work] = @ \cup {p.status}]
    /\ UNCHANGED <<actual, cache, receiving, requests, source, clean, counters>>

RespondMissing(r) ==
    {Status(w, cache[w]) : w \in {x \in Listed(cache) : Listed(r) = {} \/ r[x] = Empty}}

RespondUnlisted(r) == {Status(w, cache[w]) : w \in {x \in Works : r[x] # cache[x]}}

-----------------------------------------------------------------------------
(* The agent.                                                              *)

\* The controller of a work, one call at a time, finds that the cached status is
\* not the actual one, and patches.
StartPatch(w) ==
    /\ cache[w] \notin {Absent, actual[w]}
    /\ \A p \in patches : p.work # w
    /\ patches' = patches \cup {Status(w, actual[w])}
    /\ clean' = FALSE
    /\ UNCHANGED <<actual, cache, receiving, net, source, published, counters>>

\* Patch publishes the status, then refreshes the cache through the watcher.
FinishPatch(p) ==
    /\ patches' = patches \ {p}
    /\ events' = events \cup {p}
    /\ receiving' = receiving \cup {p}
    /\ published' = [published EXCEPT ![p.work] = @ \cup {p.status}]
    /\ UNCHANGED <<actual, cache, requests, source, clean, counters>>

\* When the publish fails nothing else happens.
FailPatch(p) ==
    /\ patches' = patches \ {p}
    /\ Mishap
    /\ UNCHANGED <<actual, cache, receiving, net, source, published, clean>>

\* The reflector and the informer behind the watcher.  Calls of Receive wait for
\* the reflector in no particular order.
Apply(p) ==
    /\ receiving' = receiving \ {p}
    /\ cache' = [cache EXCEPT ![p.work] = p.status]
    /\ UNCHANGED <<actual, patches, net, source, published, clean, counters>>

\* The handler of a spec event keeps the status that it finds in the cache.
HandleSpec(w) ==
    /\ cache[w] # Absent
    /\ receiving' = receiving \cup {Status(w, cache[w])}
    /\ Change
    /\ UNCHANGED <<actual, cache, patches, net, source, published, clean>>

\* A work arrives at the agent without a status, and leaves it when the source
\* has it no more.
Follow(w, s) ==
    /\ receiving' = receiving \cup {Status(w, s)}
    /\ receiving' # receiving
    /\ clean' = FALSE
    /\ UNCHANGED <<actual, cache, patches, net, source, published, counters>>

Add(w)  == store[w] # Absent /\ cache[w] = Absent /\ Follow(w, Empty)
Drop(w) == store[w] = Absent /\ cache[w] # Absent /\ Follow(w, Absent)

\* Applying the manifests gives another result.
Turn(w) ==
    /\ actual' \in {[actual EXCEPT ![w] = s] : s \in Statuses \ {Empty, actual[w]}}
    /\ Change
    /\ UNCHANGED <<cache, patches, receiving, net, source, published, clean>>

\* The agent starts again with an empty cache.
Restart ==
    /\ cache' = [w \in Works |-> Absent]
    /\ patches' = {} /\ receiving' = {}
    /\ clean' = FALSE
    /\ Mishap
    /\ UNCHANGED <<actual, net, source, published>>

\* respondResyncStatusRequest: every work when the request has no hashes, or
\* else the works whose status is not the one the source has; those the source
\* does not list are left to the spec resync.
Respond(r) ==
    {Status(w, cache[w]) :
        w \in {x \in Listed(cache) : Listed(r) = {} \/ (r[x] # Absent /\ r[x] # cache[x])}}

ReceiveRequest(r) ==
    /\ requests' = requests \ {r}
    /\ events' = events \cup Respond(r)
    /\ published' = [w \in Works |-> published[w] \cup {e.status : e \in {x \in Respond(r) : x.work = w}}]
    /\ UNCHANGED <<agent, source, clean, counters>>

-----------------------------------------------------------------------------
(* The broker loses and repeats messages, and delivers them in any order.  *)

Lose ==
    /\ \/ \E e \in events : events' = events \ {e} /\ UNCHANGED requests
       \/ \E r \in requests : requests' = requests \ {r} /\ UNCHANGED events
    /\ clean' = FALSE
    /\ Mishap
    /\ UNCHANGED <<agent, source, published>>

Take(e) ==
    \/ events' = events \ {e} /\ UNCHANGED counters
    \/ UNCHANGED events /\ Mishap

-----------------------------------------------------------------------------
(* The source.                                                             *)

\* statusAction: the event of a work that is not listed, or whose status is the
\* listed one, is dropped.
StatusAction(e) == IF store[e.work] \in {Absent, e.status} THEN {} ELSE {"StatusModified"}

\* receive, up to the call of the handler.
Decide(e) ==
    /\ Take(e)
    /\ deciding' = IF StatusAction(e) = {} THEN deciding ELSE deciding \cup {e}
    /\ UNCHANGED <<agent, requests, store, published, clean>>

\* The user's handler stores the status of a work it still has.
Handle(e) ==
    /\ deciding' = deciding \ {e}
    /\ store' = IF store[e.work] = Absent THEN store ELSE [store EXCEPT ![e.work] = e.status]
    /\ UNCHANGED <<agent, net, published, clean, counters>>

\* A user of the source creates a work, or removes one.
Write(w, s) ==
    /\ store' = [store EXCEPT ![w] = s]
    /\ clean' = FALSE
    /\ Change
    /\ UNCHANGED <<agent, net, deciding, published>>

Create(w) == store[w] = Absent /\ Write(w, Empty)
Remove(w) == store[w] # Absent /\ Write(w, Absent)

Idle ==
    /\ patches = {} /\ receiving = {} /\ deciding = {}
    /\ events = {} /\ requests = {}

\* Resync publishes the hashes of the works the source lists.
Resync ==
    /\ resyncs < MaxResyncs
    /\ resyncs' = resyncs + 1
    /\ requests' = requests \cup {store}
    /\ clean' = Idle
    /\ UNCHANGED <<agent, events, source, published, changes, mishaps>>

-----------------------------------------------------------------------------

Next ==
    \/ \E w \in Works :
          \/ StartPatch(w) \/ HandleSpec(w) \/ Add(w) \/ Drop(w) \/ Turn(w)
          \/ Create(w) \/ Remove(w)
    \/ \E p \in patches : FinishPatch(p) \/ FailPatch(p)
    \/ \E p \in receiving : Apply(p)
    \/ \E r \in requests : ReceiveRequest(r)
    \/ \E e \in events : Decide(e)
    \/ \E e \in deciding : Handle(e)
    \/ Lose \/ Restart \/ Resync

\* Controllers look again when the cache changes, a call of Patch returns and the
\* informer delivers.  Nothing makes a source resync.
Fairness ==
    \A w \in Works :
        /\ WF_vars(StartPatch(w))
        /\ \A p \in [work: {w}, status: Statuses] : WF_vars(p \in patches /\ FinishPatch(p))
        /\ \A p \in [work: {w}, status: Statuses \cup {Absent}] :
              WF_vars(p \in receiving /\ Apply(p))

Spec == Init /\ [][Next]_vars /\ Fairness

-----------------------------------------------------------------------------
(* Properties.                                                             *)

\* What a status resync is for: whatever was lost or overtaken before, the
\* source has the agent's status of each work both have.  "clean" says that the
\* request was sent when nothing was under way, and that since then no work was
\* patched, came or went, and no message was lost.
StatusResyncRepairs ==
    clean /\ Idle =>
        \A w \in Listed(store) \cap Listed(cache) : store[w] = cache[w]

\* A controller does not patch again what the cache shows, so the cache only
\* shows what was given to the broker.
PublishedFirst == \A w \in Listed(cache) : cache[w] \in published[w] \cup {Empty}

\* A spec event handled next to a patch puts the old status back, a publish may fail
\* and the agent may restart: in the end the agent's controllers have brought the
\* cache to the actual status of every work the source wants there.
Converges ==
    <>[](\A w \in Listed(store) \cap Listed(cache) : cache[w] = actual[w])
=============================================================================
