---------------------------- MODULE WorkApplier ----------------------------
(***************************************************************************)
(* The work applier (workapplier.go, workcache.go) and the controller that *)
(* calls it: Apply reads the work from a lister that lags behind the       *)
(* server, skips the call when the cache of hashes and generations or a    *)
(* comparison says so, and else creates or patches it.                     *)
(*                                                                         *)
(* The controller is not part of the SDK.  It has one worker per work, is  *)
(* called when what it wants or what the lister shows changes, and again   *)
(* after an error.  A call and the server's answer are one step: what      *)
(* others do while a request is on its way they may as well do while the   *)
(* lister is behind.                                                       *)
(***************************************************************************)
EXTENDS ApiServer

CONSTANTS
    Losable,   \* verbs of the requests whose answer may be lost
    MaxWants,  \* changes of what the controller wants (a bound)
    MaxLost    \* lost answers (a bound)

ASSUME ApplierConstants ==
    /\ Losable \subseteq {"create", "patch", "delete"}
    /\ MaxWants \in Nat /\ MaxLost \in Nat

VARIABLES
    desired,  \* the spec the controller wants, or None for no work
    dirty,    \* the controller has to look at the work
    lister,   \* the lister's copy of the work
    listed,   \* the revision it is from
    cache,    \* the applier's cache entry of the work, or None
    wants, lost

applierVars == <<desired, dirty, lister, listed, cache, wants, lost>>

ApplierInit ==
    /\ desired \in Specs
    /\ dirty = TRUE
    /\ lister = None /\ listed = 0 /\ cache = None
    /\ wants = 0 /\ lost = 0

-----------------------------------------------------------------------------
(* Mutants: the cache ignores the generation, is updated by a patch that   *)
(* is refused, or by a create that found the work.                         *)

SafeToSkipHash(required, existing) == cache # None /\ cache.hash = required

PatchWorkCached ==
    /\ desired # None /\ lister # None /\ desired # lister.spec
    /\ dirty /\ dirty' = TRUE
    /\ cache' = [hash |-> desired, generation |-> lister.generation]
    /\ UNCHANGED <<hub, revision, desired, lister, listed, wants, lost>>

AlreadyExistsCached ==
    /\ desired # None /\ lister = None /\ hub # None
    /\ dirty /\ dirty' = FALSE
    /\ cache' = [hash |-> desired, generation |-> None]
    /\ UNCHANGED <<hub, revision, desired, lister, listed, wants, lost>>

-----------------------------------------------------------------------------
(* Apply and Delete.                                                       *)

Entry(required, existing) == [hash |-> required, generation |-> existing.generation]

SafeToSkipApply(required, existing) == cache # None /\ cache = Entry(required, existing)

ManifestWorkEqual(new, old) == new = old.spec

\* The controller calls Apply or Delete, which ends without an error, or with
\* one after which the controller tries again.
Done(entry) ==
    /\ dirty /\ dirty' = FALSE
    /\ cache' = entry
    /\ UNCHANGED <<desired, lister, listed, wants, lost>>

Skip ==
    /\ desired # None /\ lister # None
    /\ SafeToSkipApply(desired, lister) \/ ManifestWorkEqual(desired, lister)
    /\ Done(cache)
    /\ UNCHANGED <<hub, revision>>

ToCreate == desired # None /\ lister = None

CreateWork ==
    /\ ToCreate /\ hub = None
    /\ Create(desired)
    /\ Done([hash |-> desired, generation |-> 1])

\* No error: the lister will show the work.
AlreadyExists ==
    /\ ToCreate /\ hub # None
    /\ Done(cache)
    /\ UNCHANGED <<hub, revision>>

\* The patch is for the version in the lister.  One that is refused changes
\* nothing and is tried again.
ToPatch ==
    /\ desired # None /\ lister # None
    /\ ~SafeToSkipApply(desired, lister) /\ ~ManifestWorkEqual(desired, lister)
    /\ Accepts([NoChange(lister) EXCEPT !.spec = desired])

\* The cache gets the generation that was patched.
PatchWork ==
    /\ ToPatch
    /\ Patch([NoChange(lister) EXCEPT !.spec = desired])
    /\ Done(Entry(desired, lister))

\* Only a delete that succeeds removes the cache entry.
DeleteWork ==
    /\ desired = None /\ hub # None
    /\ Delete
    /\ Done(None)

NotFound ==
    /\ desired = None /\ hub = None
    /\ Done(cache)
    /\ UNCHANGED <<hub, revision>>

\* The server did what it was asked to, and the applier gets an error.
LoseAnswer ==
    /\ dirty /\ lost < MaxLost
    /\ \/ "create" \in Losable /\ ToCreate /\ hub = None /\ Create(desired)
       \/ "patch" \in Losable /\ ToPatch /\ Patch([NoChange(lister) EXCEPT !.spec = desired])
       \/ "delete" \in Losable /\ desired = None /\ hub # None /\ Delete
    /\ lost' = lost + 1
    /\ UNCHANGED <<desired, dirty, lister, listed, cache, wants>>

-----------------------------------------------------------------------------
(* The controller's side.                                                  *)

Want ==
    /\ wants < MaxWants
    /\ desired' \in (Specs \cup {None}) \ {desired}
    /\ wants' = wants + 1
    /\ dirty' = TRUE
    /\ UNCHANGED <<hub, revision, lister, listed, cache, lost>>

\* The informer may take in several versions before the controller looks, but
\* it misses none: also a work that came and went makes the controller look.
Listen ==
    /\ listed # revision
    /\ lister' = hub /\ listed' = revision
    /\ dirty' = TRUE
    /\ UNCHANGED <<hub, revision, desired, cache, wants, lost>>

Reconcile ==
    Skip \/ CreateWork \/ AlreadyExists \/ PatchWork \/ DeleteWork \/ NotFound

ApplierNext == Want \/ Listen \/ Reconcile \/ LoseAnswer

ApplierFairness == WF_applierVars(Listen) /\ WF_applierVars(Reconcile)

-----------------------------------------------------------------------------

\* safeToSkipApply skips a call when hash and generation match.  If they match
\* those of the work on the hub, that work is the one the controller would
\* apply, however stale the lister was and whatever others have changed.
CacheSound ==
    \A work \in Specs :
        hub # None /\ SafeToSkipApply(work, hub) => ManifestWorkEqual(work, hub)

\* Apply and Delete with a controller that calls them again on errors and
\* changes: the hub gets what the controller wants in the end, although calls
\* are skipped, refused and lost, others change the work, and a work that is
\* no longer wanted waits for its finalizers.
Applied ==
    <>[](IF desired = None THEN hub = None ELSE hub # None /\ hub.spec = desired)
=============================================================================
