------------------------------ MODULE Patcher ------------------------------
(***************************************************************************)
(* The generic patcher (patcher.go), used by controllers that share a work *)
(* with each other and with the work applier.  A controller works on the   *)
(* copy its informer holds; the patcher builds a merge patch from that     *)
(* copy, and lists, the finalizers and the conditions of the status, are   *)
(* replaced as a whole by such a patch.  The resource version of the copy  *)
(* is what keeps the entries of others in them.                            *)
(***************************************************************************)
EXTENDS ApiServer

CONSTANTS
    IgnoreResourceVersion,  \* the PatchOptions
    MaxSpecPatches          \* accepted calls of PatchSpec (a bound)

ASSUME PatcherConstants == IgnoreResourceVersion \in BOOLEAN /\ MaxSpecPatches \in Nat

VARIABLES
    cached,      \* for each controller its copy of the work
    holds,       \* the life of the work in which its finalizer was accepted, until removed
    reported,    \* the life of the work in which its condition was accepted
    specPatches

patcherVars == <<cached, holds, reported, specPatches>>

PatcherInit ==
    /\ cached = [c \in Controllers |-> None]
    /\ holds = [c \in Controllers |-> None]
    /\ reported = [c \in Controllers |-> None]
    /\ specPatches = 0

-----------------------------------------------------------------------------
(* Mutant: the resource version is left out whatever the options say.      *)

HeaderNoVersion(object) == [NoChange(object) EXCEPT !.resourceVersion = None]

-----------------------------------------------------------------------------
(* The patches a call sends: none when the copy shows nothing to change.   *)

Header(object) ==
    IF IgnoreResourceVersion THEN [NoChange(object) EXCEPT !.resourceVersion = None]
                             ELSE NoChange(object)

AddFinalizer(object, finalizer) ==
    IF finalizer \in object.finalizers THEN {}
    ELSE {[Header(object) EXCEPT !.finalizers = object.finalizers \cup {finalizer}]}

RemoveFinalizer(object, finalizer) ==
    IF finalizer \notin object.finalizers THEN {}
    ELSE {[Header(object) EXCEPT !.finalizers = object.finalizers \ {finalizer}]}

PatchStatus(object, status) ==
    IF status = object.status THEN {} ELSE {[Header(object) EXCEPT !.status = status]}

PatchSpec(object, spec) ==
    IF spec = object.spec THEN {} ELSE {[Header(object) EXCEPT !.spec = spec]}

-----------------------------------------------------------------------------
(* The controllers.  A call and the server's answer are one step: what      *)
(* others do while a patch is on its way they may as well do while the     *)
(* copy it is built from is out of date.                                   *)

Sync(c) ==
    /\ cached[c] # hub
    /\ cached' = [cached EXCEPT ![c] = hub]
    /\ UNCHANGED <<hub, revision, holds, reported, specPatches>>

\* A patch that is refused changes nothing: it is an error that the controller
\* retries, and RemoveFinalizer turns "not found" into success.
Send(c, p) ==
    /\ Accepts(p)
    /\ Patch(p)
    /\ holds' = IF p.finalizers = None THEN holds
                ELSE [holds EXCEPT ![c] = IF c \in p.finalizers THEN p.uid ELSE None]
    /\ reported' = IF p.status = None THEN reported ELSE [reported EXCEPT ![c] = p.uid]
    /\ UNCHANGED cached

\* A controller protects a work before it starts on it, reports on it, and
\* lets go of it when it is deleted.
Protect(c) ==
    /\ cached[c] # None /\ ~cached[c].deleting
    /\ \E p \in AddFinalizer(cached[c], c) : Send(c, p)
    /\ UNCHANGED specPatches

LetGo(c) ==
    /\ cached[c] # None /\ cached[c].deleting
    /\ \E p \in RemoveFinalizer(cached[c], c) : Send(c, p)
    /\ UNCHANGED specPatches

ReportStatus(c) ==
    /\ cached[c] # None /\ c \in cached[c].finalizers
    /\ \E p \in PatchStatus(cached[c], cached[c].status \cup {c}) : Send(c, p)
    /\ UNCHANGED specPatches

ChangeSpec(c) ==
    /\ cached[c] # None /\ specPatches < MaxSpecPatches
    /\ \E s \in Specs : \E p \in PatchSpec(cached[c], s) : Send(c, p)
    /\ specPatches' = specPatches + 1

ControllerNext(c) ==
    Sync(c) \/ Protect(c) \/ LetGo(c) \/ ReportStatus(c) \/ ChangeSpec(c)

\* Controllers follow their informers and let go of deleted works; they need
\* not do anything else.
ControllerFairness(c) == WF_patcherVars(Sync(c)) /\ WF_patcherVars(LetGo(c))

-----------------------------------------------------------------------------

\* AddFinalizer, RemoveFinalizer and PatchStatus send whole lists.  A work that
\* a controller has protected lives on, with that controller's finalizer, until
\* the controller lets go of it, and what it has reported stays in the status,
\* whatever the others patch meanwhile.
NothingLost ==
    \A c \in Controllers :
        /\ holds[c] # None =>
              hub # None /\ hub.uid = holds[c] /\ c \in hub.finalizers
        /\ hub # None /\ reported[c] = hub.uid => c \in hub.status
=============================================================================
