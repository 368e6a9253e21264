--------------------------- MODULE HubWorkProofs ---------------------------
(***************************************************************************)
(* Proofs about HubWork: what controllers protect and report is not lost   *)
(* to each other's patches or to the applier, and the applier never skips  *)
(* the patch of a work that differs.                                       *)
(***************************************************************************)
EXTENDS HubWork, TLAPS

-----------------------------------------------------------------------------
(* The server.                                                             *)

\* A version stored is typed, and newer than every version before.
LEMMA StoreType ==
    ASSUME revision \in Nat, NEW o \in Objects, Store(o)
    PROVE  /\ hub' \in Objects /\ hub'.resourceVersion = revision + 1
           /\ revision' = revision + 1
           /\ hub'.uid = o.uid /\ hub'.generation = o.generation /\ hub'.spec = o.spec
           /\ hub'.finalizers = o.finalizers /\ hub'.status = o.status
           /\ hub'.deleting = o.deleting
BY DEF Store, Objects

\* What a patch leaves of the object it is accepted for.
LEMMA PatchedType ==
    ASSUME TypeOK, NEW p \in Patches, Accepts(p)
    PROVE  /\ Patched(p) \in Objects
           /\ Patched(p).uid = hub.uid /\ Patched(p).deleting = hub.deleting
           /\ Patched(p).finalizers = Or(p.finalizers, hub.finalizers)
           /\ Patched(p).status = Or(p.status, hub.status)
           /\ Patched(p).spec = Or(p.spec, hub.spec)
           /\ IF Patched(p).spec = hub.spec THEN Patched(p).generation = hub.generation
                                           ELSE Patched(p).generation = hub.generation + 1
<1>1. hub \in Objects BY DEF TypeOK, Accepts
<1>2. /\ Or(p.spec, hub.spec) \in Specs
      /\ Or(p.finalizers, hub.finalizers) \in SUBSET Controllers
      /\ Or(p.status, hub.status) \in SUBSET Controllers
  BY <1>1 DEF Or, Patches, Objects
<1> DEFINE generation == IF Or(p.spec, hub.spec) = hub.spec THEN hub.generation
                                                          ELSE hub.generation + 1
<1>3. generation \in Nat BY <1>1 DEF Objects
<1>4. Patched(p) = [hub EXCEPT !.spec = Or(p.spec, hub.spec),
                               !.finalizers = Or(p.finalizers, hub.finalizers),
                               !.status = Or(p.status, hub.status),
                               !.generation = generation]
  BY <1>1 DEF Patched, Objects
<1> HIDE DEF generation
<1>5. /\ Patched(p) \in Objects
      /\ Patched(p).uid = hub.uid /\ Patched(p).deleting = hub.deleting
      /\ Patched(p).finalizers = Or(p.finalizers, hub.finalizers)
      /\ Patched(p).status = Or(p.status, hub.status)
      /\ Patched(p).spec = Or(p.spec, hub.spec)
      /\ Patched(p).generation = generation
  BY <1>1, <1>2, <1>3, <1>4 DEF Objects
<1> QED BY <1>5 DEF generation

LEMMA PatchEffect ==
    ASSUME TypeOK, NEW p \in Patches, Accepts(p), Patch(p)
    PROVE  /\ revision' = revision + 1
           /\ \/ /\ hub' = None
                 /\ hub.deleting /\ Or(p.finalizers, hub.finalizers) = {}
              \/ /\ hub' \in Objects /\ hub'.resourceVersion = revision + 1
                 /\ hub'.uid = hub.uid
                 /\ hub'.finalizers = Or(p.finalizers, hub.finalizers)
                 /\ hub'.status = Or(p.status, hub.status)
                 /\ hub'.spec = Or(p.spec, hub.spec)
                 /\ hub'.generation = IF hub'.spec = hub.spec THEN hub.generation
                                                              ELSE hub.generation + 1
<1>1. CASE hub.deleting /\ Patched(p).finalizers = {}
  BY <1>1, PatchedType DEF Patch
<1>2. CASE ~(hub.deleting /\ Patched(p).finalizers = {})
  <2>1. Store(Patched(p)) BY <1>2 DEF Patch
  <2> HIDE DEF Patched
  <2> QED BY <2>1, PatchedType, StoreType DEF TypeOK
<1> QED BY <1>1, <1>2

LEMMA CreateEffect ==
    ASSUME TypeOK, NEW s \in Specs, Create(s)
    PROVE  /\ revision' = revision + 1
           /\ hub' \in Objects /\ hub'.resourceVersion = revision + 1
           /\ hub'.uid = revision + 1 /\ hub'.generation = 1 /\ hub'.spec = s
<1> DEFINE o == [uid |-> revision + 1, resourceVersion |-> 0, generation |-> 1, spec |-> s,
                 finalizers |-> {}, status |-> {}, deleting |-> FALSE]
<1>1. revision + 1 \in Nat BY DEF TypeOK
<1>2. o \in Objects /\ o.uid = revision + 1 /\ o.generation = 1 /\ o.spec = s
  BY <1>1 DEF Objects
<1>3. Store(o) BY DEF Create
<1> HIDE DEF o
<1> QED BY <1>2, <1>3, StoreType DEF TypeOK

LEMMA DeleteEffect ==
    ASSUME TypeOK, hub # None, Delete
    PROVE  \/ hub' = None /\ revision' = revision + 1 /\ hub.finalizers = {}
           \/ UNCHANGED <<hub, revision>>
           \/ /\ revision' = revision + 1
              /\ hub' \in Objects /\ hub'.resourceVersion = revision + 1
              /\ hub'.uid = hub.uid /\ hub'.generation = hub.generation + 1
              /\ hub'.finalizers = hub.finalizers /\ hub'.status = hub.status
<1> DEFINE generation == hub.generation + 1
<1> DEFINE o == [hub EXCEPT !.deleting = TRUE, !.generation = generation]
<1>1. hub \in Objects BY DEF TypeOK
<1>2. generation \in Nat BY <1>1 DEF Objects
<1> HIDE DEF generation
<1>3. /\ o \in Objects /\ o.uid = hub.uid /\ o.generation = generation
      /\ o.finalizers = hub.finalizers /\ o.status = hub.status
  BY <1>1, <1>2 DEF Objects
<1>4. [hub EXCEPT !.deleting = TRUE, !.generation = @ + 1] = o
  BY <1>1 DEF generation, Objects
<1> HIDE DEF o
<1>5. \/ hub.finalizers = {} /\ hub' = None /\ revision' = revision + 1
      \/ UNCHANGED <<hub, revision>>
      \/ Store(o)
  BY <1>4 DEF Delete
<1> QED BY <1>3, <1>5, StoreType DEF TypeOK, generation

-----------------------------------------------------------------------------
(* The patches.                                                            *)

LEMMA HeaderType ==
    ASSUME NEW o \in Objects
    PROVE  /\ NoChange(o) \in Patches
           /\ Header(o) \in Patches /\ Header(o).uid = o.uid
           /\ Header(o).finalizers = None /\ Header(o).status = None
           /\ Header(o).spec = None
           /\ IgnoreResourceVersion = FALSE => Header(o).resourceVersion = o.resourceVersion
BY DEF NoChange, Header, Patches, Objects

\* The four calls of the patcher: typed patches for the copy's version, which
\* change one field of it.
LEMMA CallType ==
    ASSUME NEW o \in Objects, NEW c \in Controllers, NEW s \in Specs,
           NEW p \in AddFinalizer(o, c) \cup RemoveFinalizer(o, c)
                      \cup PatchStatus(o, o.status \cup {c}) \cup PatchSpec(o, s)
    PROVE  /\ p \in Patches /\ p.uid = o.uid
           /\ IgnoreResourceVersion = FALSE => p.resourceVersion = o.resourceVersion
           /\ \/ p.finalizers = o.finalizers \cup {c} /\ p.status = None
              \/ p.finalizers = o.finalizers \ {c} /\ p.status = None
              \/ p.finalizers = None /\ p.status = o.status \cup {c}
              \/ p.finalizers = None /\ p.status = None
<1>1. /\ o.finalizers \cup {c} \in SUBSET Controllers
      /\ o.finalizers \ {c} \in SUBSET Controllers
      /\ o.status \cup {c} \in SUBSET Controllers
  BY DEF Objects
<1> DEFINE h == Header(o)
<1>2. /\ h \in Patches /\ h.uid = o.uid /\ h.finalizers = None /\ h.status = None
      /\ IgnoreResourceVersion = FALSE => h.resourceVersion = o.resourceVersion
  BY HeaderType
<1>3. p \in {[h EXCEPT !.finalizers = o.finalizers \cup {c}],
            [h EXCEPT !.finalizers = o.finalizers \ {c}],
            [h EXCEPT !.status = o.status \cup {c}],
            [h EXCEPT !.spec = s]}
  BY DEF AddFinalizer, RemoveFinalizer, PatchStatus, PatchSpec
<1> HIDE DEF h
<1>4. CASE p = [h EXCEPT !.finalizers = o.finalizers \cup {c}] BY <1>1, <1>2, <1>4 DEF Patches
<1>5. CASE p = [h EXCEPT !.finalizers = o.finalizers \ {c}] BY <1>1, <1>2, <1>5 DEF Patches
<1>6. CASE p = [h EXCEPT !.status = o.status \cup {c}] BY <1>1, <1>2, <1>6 DEF Patches
<1>7. CASE p = [h EXCEPT !.spec = s] BY <1>2, <1>7 DEF Patches
<1> QED BY <1>3, <1>4, <1>5, <1>6, <1>7

\* Every step of a controller but Sync is an accepted patch of its copy.
LEMMA ControllerStep ==
    ASSUME TypeOK, NEW c \in Controllers, ControllerNext(c), ~Sync(c)
    PROVE  /\ cached[c] \in Objects
           /\ \E s \in Specs :
                 \E p \in AddFinalizer(cached[c], c) \cup RemoveFinalizer(cached[c], c)
                          \cup PatchStatus(cached[c], cached[c].status \cup {c})
                          \cup PatchSpec(cached[c], s) :
                    Send(c, p)
           /\ specPatches' \in 0..MaxSpecPatches
<1>1. cached[c] # None
  BY DEF ControllerNext, Protect, LetGo, ReportStatus, ChangeSpec
<1>2. cached[c] \in Objects /\ cached[c].spec \in Specs BY <1>1 DEF TypeOK, Objects
<1>3. specPatches' \in 0..MaxSpecPatches
  BY PatcherConstants DEF TypeOK, ControllerNext, Protect, LetGo, ReportStatus, ChangeSpec
<1>4. CASE Protect(c) \/ LetGo(c) \/ ReportStatus(c)
  BY <1>2, <1>3, <1>4 DEF Protect, LetGo, ReportStatus
<1>5. CASE ChangeSpec(c) BY <1>2, <1>3, <1>5 DEF ChangeSpec
<1> QED BY <1>4, <1>5 DEF ControllerNext

\* The patch that Apply sends.
LEMMA ApplyPatchType ==
    ASSUME TypeOK, desired # None, lister # None
    PROVE  LET p == [NoChange(lister) EXCEPT !.spec = desired]
           IN  /\ p \in Patches /\ p.uid = lister.uid
               /\ p.resourceVersion = lister.resourceVersion
               /\ p.spec = desired /\ p.finalizers = None /\ p.status = None
<1>1. lister \in Objects /\ desired \in Specs BY DEF TypeOK
<1> DEFINE h == NoChange(lister)
<1>2. /\ h \in Patches /\ h.uid = lister.uid /\ h.finalizers = None /\ h.status = None
      /\ h.resourceVersion = lister.resourceVersion
  BY <1>1, HeaderType DEF NoChange
<1> HIDE DEF h
<1>3. LET p == [h EXCEPT !.spec = desired]
      IN  /\ p \in Patches /\ p.uid = lister.uid
          /\ p.resourceVersion = lister.resourceVersion
          /\ p.spec = desired /\ p.finalizers = None /\ p.status = None
  BY <1>1, <1>2 DEF Patches
<1> QED BY <1>3 DEF h

\* What a step of the applier does to the work.
LEMMA ApplierEffect ==
    ASSUME TypeOK, ApplierNext
    PROVE  \/ UNCHANGED <<hub, revision, cache>>
           \/ /\ desired \in Specs /\ hub = None /\ Create(desired)
              /\ \/ Done([hash |-> desired, generation |-> 1])
                 \/ "create" \in Losable /\ UNCHANGED <<desired, lister, cache>>
           \/ /\ desired \in Specs /\ lister \in Objects /\ desired # lister.spec
              /\ Accepts([NoChange(lister) EXCEPT !.spec = desired])
              /\ Patch([NoChange(lister) EXCEPT !.spec = desired])
              /\ Done(Entry(desired, lister)) \/ UNCHANGED <<desired, lister, cache>>
           \/ /\ hub # None /\ Delete
              /\ Done(None) \/ UNCHANGED <<desired, lister, cache>>
<1>1. desired # None => desired \in Specs BY DEF TypeOK
<1>2. lister # None => lister \in Objects BY DEF TypeOK
<1>3. CASE Want \/ Listen BY <1>3 DEF Want, Listen
<1>4. CASE Skip \/ AlreadyExists \/ NotFound BY <1>4 DEF Skip, AlreadyExists, NotFound, Done
<1>5. CASE CreateWork BY <1>1, <1>5 DEF CreateWork, ToCreate
<1>6. CASE PatchWork BY <1>1, <1>2, <1>6 DEF PatchWork, ToPatch, ManifestWorkEqual
<1>7. CASE DeleteWork BY <1>7 DEF DeleteWork
<1>8. CASE LoseAnswer
  BY <1>1, <1>2, <1>8 DEF LoseAnswer, ToCreate, ToPatch, ManifestWorkEqual
<1> QED BY <1>3, <1>4, <1>5, <1>6, <1>7, <1>8 DEF ApplierNext, Reconcile

-----------------------------------------------------------------------------
(* Type correctness.                                                       *)

LEMMA ApplierHub ==
    ASSUME TypeOK, ApplierNext
    PROVE  hub' \in {None} \cup Objects /\ revision' \in Nat
<1>1. CASE UNCHANGED <<hub, revision>> BY <1>1 DEF TypeOK
<1>2. CASE desired \in Specs /\ Create(desired) BY <1>2, CreateEffect DEF TypeOK
<1>3. CASE /\ desired \in Specs /\ lister \in Objects
           /\ Accepts([NoChange(lister) EXCEPT !.spec = desired])
           /\ Patch([NoChange(lister) EXCEPT !.spec = desired])
  <2>1. desired # None /\ lister # None BY <1>3, NoneIsNoValue
  <2> QED BY <1>3, <2>1, ApplyPatchType, PatchEffect DEF TypeOK
<1>4. CASE hub # None /\ Delete BY <1>4, DeleteEffect DEF TypeOK
<1> QED BY <1>1, <1>2, <1>3, <1>4, ApplierEffect

LEMMA ApplierType ==
    ASSUME TypeOK, ApplierNext
    PROVE  /\ desired' \in Specs \cup {None} /\ dirty' \in BOOLEAN
           /\ lister' \in {None} \cup Objects /\ listed' \in Nat
           /\ cache' \in {None} \cup [hash: Specs, generation: Nat]
           /\ wants' \in 0..MaxWants /\ lost' \in 0..MaxLost
<1>1. CASE Want BY <1>1, ApplierConstants DEF TypeOK, Want
<1>2. CASE Listen BY <1>2 DEF TypeOK, Listen
<1>3. CASE Skip \/ AlreadyExists \/ NotFound
  BY <1>3 DEF TypeOK, Skip, AlreadyExists, NotFound, Done
<1>4. CASE CreateWork
  <2>1. desired \in Specs BY <1>4 DEF CreateWork, ToCreate, TypeOK
  <2>2. [hash |-> desired, generation |-> 1] \in [hash: Specs, generation: Nat] BY <2>1
  <2> QED BY <1>4, <2>2 DEF TypeOK, CreateWork, Done
<1>5. CASE PatchWork
  <2>1. desired \in Specs /\ lister \in Objects BY <1>5 DEF PatchWork, ToPatch, TypeOK
  <2>2. Entry(desired, lister) \in [hash: Specs, generation: Nat] BY <2>1 DEF Entry, Objects
  <2> QED BY <1>5, <2>2 DEF TypeOK, PatchWork, Done
<1>6. CASE DeleteWork BY <1>6 DEF TypeOK, DeleteWork, Done
<1>7. CASE LoseAnswer BY <1>7, ApplierConstants DEF TypeOK, LoseAnswer
<1> QED BY <1>1, <1>2, <1>3, <1>4, <1>5, <1>6, <1>7 DEF ApplierNext, Reconcile

LEMMA ControllerType ==
    ASSUME TypeOK, NEW c \in Controllers, ControllerNext(c), UNCHANGED applierVars
    PROVE  TypeOK'
<1>1. CASE Sync(c) BY <1>1 DEF TypeOK, Sync, applierVars
<1>2. CASE ~Sync(c)
  <2>1. PICK s \in Specs :
          \E p \in AddFinalizer(cached[c], c) \cup RemoveFinalizer(cached[c], c)
                   \cup PatchStatus(cached[c], cached[c].status \cup {c})
                   \cup PatchSpec(cached[c], s) : Send(c, p)
    BY <1>2, ControllerStep
  <2>2. PICK p \in AddFinalizer(cached[c], c) \cup RemoveFinalizer(cached[c], c)
                   \cup PatchStatus(cached[c], cached[c].status \cup {c})
                   \cup PatchSpec(cached[c], s) : Send(c, p)
    BY <2>1
  <2>3. p \in Patches BY <1>2, ControllerStep, CallType
  <2>4. hub' \in {None} \cup Objects /\ revision' \in Nat
    BY <2>2, <2>3, PatchEffect DEF Send, TypeOK
  <2>5. p.uid \in Nat BY <2>3 DEF Patches
  <2>6. holds' \in [Controllers -> {None} \cup Nat]
        /\ reported' \in [Controllers -> {None} \cup Nat] /\ UNCHANGED cached
    BY <2>2, <2>5 DEF Send, TypeOK
  <2> QED BY <1>2, <2>4, <2>6, ControllerStep DEF TypeOK, applierVars
<1> QED BY <1>1, <1>2

LEMMA InitType == Init => TypeOK
BY ApplierConstants, PatcherConstants DEF Init, ApplierInit, PatcherInit, TypeOK

LEMMA NextType == TypeOK /\ [Next]_vars => TypeOK'
<1> SUFFICES ASSUME TypeOK, [Next]_vars PROVE TypeOK' OBVIOUS
<1>1. CASE ApplierNext /\ UNCHANGED patcherVars
  BY <1>1, ApplierHub, ApplierType DEF TypeOK, patcherVars
<1>2. ASSUME NEW c \in Controllers, ControllerNext(c), UNCHANGED applierVars PROVE TypeOK'
  BY <1>2, ControllerType
<1>3. CASE UNCHANGED vars BY <1>3 DEF TypeOK, vars, applierVars, patcherVars
<1> QED BY <1>1, <1>2, <1>3 DEF Next

\* The work on the hub, its copies, the applier's cache and the ghosts of the
\* controllers have their types in every state, for any controllers and specs.
THEOREM TypeCorrect == Spec => []TypeOK
BY InitType, NextType, PTL DEF Spec

-----------------------------------------------------------------------------
(* Nothing is lost.  A copy with the version of the work on the hub is the *)
(* work on the hub: a patch that is accepted was built from what it        *)
(* replaces.                                                               *)

Copy(x) ==
    x # None =>
        /\ x.resourceVersion <= revision
        /\ hub # None /\ x.resourceVersion = hub.resourceVersion => x = hub

Versions ==
    /\ hub # None => hub.resourceVersion <= revision /\ hub.uid <= revision
    /\ Copy(lister)
    /\ \A c \in Controllers : Copy(cached[c])
    /\ \A c \in Controllers : reported[c] # None => reported[c] <= revision

\* A step either leaves the work alone or uses up a new version.
HubStep ==
    \/ UNCHANGED <<hub, revision>>
    \/ /\ revision' = revision + 1
       /\ \/ hub' = None
          \/ /\ hub' # None /\ hub'.resourceVersion = revision + 1
             /\ hub'.uid <= revision + 1

LEMMA ApplierHubStep ==
    ASSUME TypeOK, Versions, ApplierNext
    PROVE  HubStep
<1>1. CASE UNCHANGED <<hub, revision>> BY <1>1 DEF HubStep
<1>2. CASE desired \in Specs /\ Create(desired)
  BY <1>2, CreateEffect, NoneIsNoValue DEF HubStep, TypeOK
<1>3. CASE /\ desired \in Specs /\ lister \in Objects
           /\ Accepts([NoChange(lister) EXCEPT !.spec = desired])
           /\ Patch([NoChange(lister) EXCEPT !.spec = desired])
  <2>1. desired # None /\ lister # None BY <1>3, NoneIsNoValue
  <2>2. hub # None /\ hub.uid \in Nat BY <1>3 DEF Accepts, TypeOK, Objects
  <2> QED BY <1>3, <2>1, <2>2, ApplyPatchType, PatchEffect, NoneIsNoValue
          DEF HubStep, TypeOK, Versions
<1>4. CASE hub # None /\ Delete
  <2>1. hub.uid \in Nat BY <1>4 DEF TypeOK, Objects
  <2> QED BY <1>4, <2>1, DeleteEffect, NoneIsNoValue DEF HubStep, TypeOK, Versions
<1> QED BY <1>1, <1>2, <1>3, <1>4, ApplierEffect

LEMMA SendHubStep ==
    ASSUME TypeOK, Versions, NEW c \in Controllers, NEW p \in Patches, Send(c, p)
    PROVE  HubStep
<1>1. hub # None /\ hub.uid \in Nat BY DEF Send, Accepts, TypeOK, Objects
<1> QED BY <1>1, PatchEffect, NoneIsNoValue DEF Send, HubStep, TypeOK, Versions

LEMMA CopyStep ==
    ASSUME TypeOK, Versions, HubStep, NEW x \in {None} \cup Objects, Copy(x)
    PROVE  x # None =>
               /\ x.resourceVersion <= revision'
               /\ hub' # None /\ x.resourceVersion = hub'.resourceVersion => x = hub'
<1> SUFFICES ASSUME x # None
             PROVE  /\ x.resourceVersion <= revision'
                    /\ hub' # None /\ x.resourceVersion = hub'.resourceVersion => x = hub'
  OBVIOUS
<1>1. x.resourceVersion \in Nat /\ x.resourceVersion <= revision BY DEF Copy, Objects
<1> QED BY <1>1 DEF HubStep, Copy, TypeOK

LEMMA VersionsStep ==
    ASSUME TypeOK, Versions, HubStep, lister' \in {lister, hub'},
           \A c \in Controllers : cached'[c] \in {cached[c], hub'},
           \A c \in Controllers : reported'[c] = reported[c]
                                  \/ (hub # None /\ reported'[c] = hub.uid)
    PROVE  Versions'
<1>1. hub' # None => hub'.resourceVersion <= revision' /\ hub'.uid <= revision'
  BY DEF HubStep, Versions, TypeOK
<1>2. ASSUME NEW x \in {None} \cup Objects, Copy(x), NEW y \in {x, hub'} PROVE Copy(y)'
  <2>1. CASE y = hub' BY <1>1, <2>1 DEF Copy
  <2>2. CASE y = x BY <1>2, <2>2, CopyStep DEF Copy
  <2> QED BY <2>1, <2>2
<1>3. Copy(lister)' BY <1>2 DEF Versions, TypeOK, Copy
<1>4. ASSUME NEW c \in Controllers PROVE Copy(cached[c])'
  BY <1>2 DEF Versions, TypeOK, Copy
<1>5. ASSUME NEW c \in Controllers, reported'[c] # None PROVE reported'[c] <= revision'
  <2>1. revision' >= revision /\ revision \in Nat /\ revision' \in Nat BY DEF HubStep, TypeOK
  <2>2. hub # None => hub.uid \in Nat /\ hub.uid <= revision BY DEF Versions, TypeOK, Objects
  <2>3. reported[c] # None => reported[c] \in Nat /\ reported[c] <= revision
    BY DEF Versions, TypeOK
  <2> QED BY <1>5, <2>1, <2>2, <2>3
<1> QED BY <1>1, <1>3, <1>4, <1>5 DEF Versions

LEMMA VersionsNext == TypeOK /\ Versions /\ [Next]_vars => Versions'
<1> SUFFICES ASSUME TypeOK, Versions, [Next]_vars PROVE Versions' OBVIOUS
<1>1. CASE ApplierNext /\ UNCHANGED patcherVars
  <2>1. HubStep BY <1>1, ApplierHubStep
  <2>2. lister' \in {lister, hub'}
    BY <1>1 DEF ApplierNext, Want, Listen, Reconcile, Skip, CreateWork, AlreadyExists,
                PatchWork, DeleteWork, NotFound, LoseAnswer, Done
  <2>3. /\ \A c \in Controllers : cached'[c] \in {cached[c], hub'}
        /\ \A c \in Controllers : reported'[c] = reported[c]
                                 \/ (hub # None /\ reported'[c] = hub.uid)
    BY <1>1 DEF patcherVars
  <2> QED BY <2>1, <2>2, <2>3, VersionsStep
<1>2. ASSUME NEW c \in Controllers, ControllerNext(c), UNCHANGED applierVars PROVE Versions'
  <2>1. lister' \in {lister, hub'} BY <1>2 DEF applierVars
  <2>2. CASE Sync(c)
    <3>1. HubStep BY <2>2 DEF Sync, HubStep
    <3>2. \A d \in Controllers : cached'[d] \in {cached[d], hub'} BY <2>2 DEF Sync, TypeOK
    <3>3. \A d \in Controllers : reported'[d] = reported[d]
                                 \/ (hub # None /\ reported'[d] = hub.uid)
      BY <2>2 DEF Sync
    <3> QED BY <2>1, <3>1, <3>2, <3>3, VersionsStep
  <2>3. CASE ~Sync(c)
    <3>1. PICK p \in Patches : Send(c, p) BY <1>2, <2>3, ControllerStep, CallType
    <3>2. HubStep BY <3>1, SendHubStep
    <3>3. hub # None /\ p.uid = hub.uid BY <3>1 DEF Send, Accepts
    <3>4. /\ \A d \in Controllers : cached'[d] \in {cached[d], hub'}
          /\ \A d \in Controllers : reported'[d] = reported[d]
                                   \/ (hub # None /\ reported'[d] = hub.uid)
      BY <3>1, <3>3 DEF Send, TypeOK
    <3> QED BY <2>1, <3>2, <3>4, VersionsStep
  <2> QED BY <2>2, <2>3
<1>3. CASE UNCHANGED vars BY <1>3 DEF Versions, Copy, vars, applierVars, patcherVars
<1> QED BY <1>1, <1>2, <1>3 DEF Next

\* What a controller's patch is, when it has the version of the work: the work
\* with its own entry added to or removed from one list.
LEMMA CurrentCall ==
    ASSUME TypeOK, Versions, IgnoreResourceVersion = FALSE,
           NEW c \in Controllers, ControllerNext(c), ~Sync(c)
    PROVE  \E p \in Patches :
              /\ Send(c, p)
              /\ \/ p.finalizers = hub.finalizers \cup {c} /\ p.status = None
                 \/ p.finalizers = hub.finalizers \ {c} /\ p.status = None
                 \/ p.finalizers = None /\ p.status = hub.status \cup {c}
                 \/ p.finalizers = None /\ p.status = None
<1> DEFINE o == cached[c]
<1>1. o \in Objects BY ControllerStep
<1>2. PICK s \in Specs :
        \E p \in AddFinalizer(o, c) \cup RemoveFinalizer(o, c)
                 \cup PatchStatus(o, o.status \cup {c}) \cup PatchSpec(o, s) : Send(c, p)
  BY ControllerStep
<1>3. PICK p \in AddFinalizer(o, c) \cup RemoveFinalizer(o, c)
                 \cup PatchStatus(o, o.status \cup {c}) \cup PatchSpec(o, s) : Send(c, p)
  BY <1>2
<1>4. /\ p \in Patches /\ p.resourceVersion = o.resourceVersion
      /\ \/ p.finalizers = o.finalizers \cup {c} /\ p.status = None
         \/ p.finalizers = o.finalizers \ {c} /\ p.status = None
         \/ p.finalizers = None /\ p.status = o.status \cup {c}
         \/ p.finalizers = None /\ p.status = None
  <2> HIDE DEF o
  <2> QED BY <1>1, CallType, Zenon
<1>5. o.resourceVersion # None /\ o # None BY <1>1, NoneIsNoValue DEF Objects
<1>6. o = hub BY <1>3, <1>4, <1>5 DEF Send, Accepts, Versions, Copy
<1> QED BY <1>3, <1>4, <1>6

Inv == TypeOK /\ Versions /\ NothingLost

LEMMA InvInit == Init => Inv
<1> SUFFICES ASSUME Init PROVE Versions /\ NothingLost BY InitType DEF Inv
<1> QED BY DEF Init, ApplierInit, PatcherInit, Versions, Copy, NothingLost

\* A patch of the applier, a deletion and a creation leave the lists alone.
LEMMA ApplierInv ==
    ASSUME Inv, ApplierNext, UNCHANGED patcherVars
    PROVE  NothingLost'
<1>1. \/ UNCHANGED hub
      \/ hub = None /\ hub' \in Objects /\ hub'.uid = revision + 1
      \/ hub # None /\ hub.finalizers = {} /\ hub' = None
      \/ /\ hub # None /\ hub' # None /\ hub'.uid = hub.uid
         /\ hub'.finalizers = hub.finalizers /\ hub'.status = hub.status
  <2>1. CASE desired \in Specs /\ hub = None /\ Create(desired)
    BY <2>1, CreateEffect DEF Inv
  <2>2. CASE /\ desired \in Specs /\ lister \in Objects
             /\ Accepts([NoChange(lister) EXCEPT !.spec = desired])
             /\ Patch([NoChange(lister) EXCEPT !.spec = desired])
    <3>1. desired # None /\ lister # None BY <2>2, NoneIsNoValue
    <3>2. hub # None BY <2>2 DEF Accepts
    <3> QED BY <2>2, <3>1, <3>2, ApplyPatchType, PatchEffect, NoneIsNoValue DEF Inv, Or
  <2>3. CASE hub # None /\ Delete BY <2>3, DeleteEffect, NoneIsNoValue DEF Inv
  <2> QED BY <2>1, <2>2, <2>3, ApplierEffect DEF Inv
<1> SUFFICES ASSUME NEW c \in Controllers
             PROVE  /\ holds[c] # None =>
                          hub' # None /\ hub'.uid = holds[c] /\ c \in hub'.finalizers
                    /\ hub' # None /\ reported[c] = hub'.uid => c \in hub'.status
  BY DEF NothingLost, patcherVars
<1>2. /\ holds[c] # None => hub # None /\ hub.uid = holds[c] /\ c \in hub.finalizers
      /\ hub # None /\ reported[c] = hub.uid => c \in hub.status
  BY DEF Inv, NothingLost
<1>3. revision \in Nat /\ reported[c] \in {None} \cup Nat
      /\ (reported[c] # None => reported[c] <= revision)
  BY DEF Inv, TypeOK, Versions
<1>4. reported[c] # revision + 1 BY <1>3, NoneIsNoValue
<1> QED BY <1>1, <1>2, <1>4

\* A controller's patch changes its own entries only.
LEMMA ControllerInv ==
    ASSUME Inv, IgnoreResourceVersion = FALSE,
           NEW c \in Controllers, ControllerNext(c), UNCHANGED applierVars
    PROVE  NothingLost'
<1>1. CASE Sync(c) BY <1>1 DEF Inv, NothingLost, Sync
<1>2. CASE ~Sync(c)
  <2>1. PICK p \in Patches :
          /\ Send(c, p)
          /\ \/ p.finalizers = hub.finalizers \cup {c} /\ p.status = None
             \/ p.finalizers = hub.finalizers \ {c} /\ p.status = None
             \/ p.finalizers = None /\ p.status = hub.status \cup {c}
             \/ p.finalizers = None /\ p.status = None
    BY <1>2, CurrentCall DEF Inv
  <2>2. hub \in Objects /\ hub # None /\ p.uid = hub.uid
    BY <2>1 DEF Send, Accepts, Inv, TypeOK
  <2>3. \/ hub' = None /\ Or(p.finalizers, hub.finalizers) = {}
        \/ /\ hub' # None /\ hub'.uid = hub.uid
           /\ hub'.finalizers = Or(p.finalizers, hub.finalizers)
           /\ hub'.status = Or(p.status, hub.status)
    BY <2>1, PatchEffect, NoneIsNoValue DEF Inv, Send
  <2>4. hub.finalizers \cup {c} # None /\ hub.finalizers \ {c} # None
        /\ hub.status \cup {c} # None
    BY <2>2, NoneIsNoValue DEF Objects
  <2>5. ASSUME NEW d \in Controllers
        PROVE  /\ holds'[d] # None =>
                     hub' # None /\ hub'.uid = holds'[d] /\ d \in hub'.finalizers
               /\ hub' # None /\ reported'[d] = hub'.uid => d \in hub'.status
    <3>1. /\ holds[d] # None => hub.uid = holds[d] /\ d \in hub.finalizers
          /\ reported[d] = hub.uid => d \in hub.status
      BY <2>2 DEF Inv, NothingLost
    <3>2. holds'[d] = IF p.finalizers = None \/ d # c THEN holds[d]
                      ELSE IF c \in p.finalizers THEN hub.uid ELSE None
      BY <2>1, <2>2 DEF Send, Inv, TypeOK
    <3>3. reported'[d] = IF p.status = None \/ d # c THEN reported[d] ELSE hub.uid
      BY <2>1, <2>2 DEF Send, Inv, TypeOK
    <3>4. CASE p.finalizers = None /\ p.status = None
      BY <2>3, <3>1, <3>2, <3>3, <3>4 DEF Or
    <3>5. CASE p.finalizers = None /\ p.status = hub.status \cup {c}
      BY <2>3, <2>4, <3>1, <3>2, <3>3, <3>5 DEF Or
    <3>6. CASE p.finalizers = hub.finalizers \cup {c} /\ p.status = None
      BY <2>3, <2>4, <3>1, <3>2, <3>3, <3>6 DEF Or
    <3>7. CASE p.finalizers = hub.finalizers \ {c} /\ p.status = None
      BY <2>3, <2>4, <3>1, <3>2, <3>3, <3>7 DEF Or
    <3> QED BY <2>1, <3>4, <3>5, <3>6, <3>7
  <2> QED BY <2>5 DEF NothingLost
<1> QED BY <1>1, <1>2

\* When patches carry the resource version, no controller's finalizer or
\* condition is lost to another's patch, to the applier or to a deletion.
THEOREM KeepsOthersEntries ==
    ASSUME IgnoreResourceVersion = FALSE
    PROVE  Spec => []NothingLost
<1>1. Inv /\ [Next]_vars => Inv'
  <2> SUFFICES ASSUME Inv, [Next]_vars PROVE Inv' OBVIOUS
  <2>1. TypeOK' /\ Versions' BY NextType, VersionsNext DEF Inv
  <2>2. CASE ApplierNext /\ UNCHANGED patcherVars BY <2>1, <2>2, ApplierInv DEF Inv
  <2>3. ASSUME NEW c \in Controllers, ControllerNext(c), UNCHANGED applierVars PROVE Inv'
    BY <2>1, <2>3, ControllerInv DEF Inv
  <2>4. CASE UNCHANGED vars
    BY <2>1, <2>4 DEF Inv, Versions, Copy, NothingLost, vars, applierVars, patcherVars
  <2> QED BY <2>2, <2>3, <2>4 DEF Next
<1>2. Inv => NothingLost BY DEF Inv
<1> QED BY <1>1, <1>2, InvInit, PTL DEF Spec

-----------------------------------------------------------------------------
(* The cache.  In one life of the work the cached generation is behind     *)
(* that of the hub, or the work is the one that was applied.               *)

CacheBehind ==
    hub # None /\ cache # None =>
        \/ cache.generation < hub.generation
        \/ cache.generation = hub.generation /\ cache.hash = hub.spec

CacheInv == TypeOK /\ Versions /\ CacheBehind

\* A patch that is accepted and changes the spec leaves the cache behind.
LEMMA PatchBehind ==
    ASSUME CacheInv, NEW p \in Patches, Accepts(p), Patch(p)
    PROVE  hub' # None /\ cache # None =>
               \/ cache.generation < hub'.generation
               \/ cache.generation = hub'.generation /\ cache.hash = hub'.spec
<1>1. hub \in Objects /\ hub # None BY DEF Accepts, CacheInv, TypeOK
<1>2. hub' # None => hub'.generation = (IF hub'.spec = hub.spec THEN hub.generation
                                                                ELSE hub.generation + 1)
  BY PatchEffect DEF CacheInv
<1>3. hub.generation \in Nat BY <1>1 DEF Objects
<1>4. cache # None => cache.generation \in Nat BY DEF CacheInv, TypeOK
<1> QED BY <1>1, <1>2, <1>3, <1>4 DEF CacheInv, CacheBehind

LEMMA ApplierBehind ==
    ASSUME CacheInv, "create" \notin Losable, ApplierNext
    PROVE  CacheBehind'
<1>1. CASE UNCHANGED <<hub, revision, cache>>
  BY <1>1 DEF CacheInv, CacheBehind
<1>2. CASE desired \in Specs /\ Create(desired) /\ Done([hash |-> desired, generation |-> 1])
  BY <1>2, CreateEffect DEF CacheInv, CacheBehind, Done
<1> DEFINE p == [NoChange(lister) EXCEPT !.spec = desired]
<1>3. ASSUME desired \in Specs, lister \in Objects, desired # lister.spec, Accepts(p), Patch(p),
             Done(Entry(desired, lister)) \/ UNCHANGED <<desired, lister, cache>>
      PROVE  CacheBehind'
  <2>1. desired # None /\ lister # None BY <1>3, NoneIsNoValue
  <2>2. /\ p \in Patches /\ p.resourceVersion = lister.resourceVersion /\ p.spec = desired
    BY <2>1, ApplyPatchType DEF CacheInv
  <2>3. lister.resourceVersion # None BY <1>3, NoneIsNoValue DEF Objects
  <2>4. lister = hub BY <1>3, <2>1, <2>2, <2>3 DEF Accepts, CacheInv, Versions, Copy
  <2>5. Or(p.spec, hub.spec) = desired BY <2>1, <2>2 DEF Or
  <2>6. hub' # None => hub'.generation = lister.generation + 1
    BY <1>3, <2>2, <2>4, <2>5, PatchEffect DEF CacheInv
  <2>7. CASE Done(Entry(desired, lister))
    <3>1. lister.generation \in Nat BY <1>3 DEF Objects
    <3> QED BY <2>6, <2>7, <3>1 DEF Done, Entry, CacheBehind
  <2>8. CASE UNCHANGED cache BY <1>3, <2>2, <2>8, PatchBehind DEF CacheBehind
  <2> QED BY <1>3, <2>7, <2>8
<1>4. ASSUME hub # None, Delete, Done(None) \/ UNCHANGED <<desired, lister, cache>>
      PROVE  CacheBehind'
  <2>1. hub.generation \in Nat BY <1>4 DEF CacheInv, TypeOK, Objects
  <2>2. cache # None => cache.generation \in Nat BY DEF CacheInv, TypeOK
  <2> QED BY <1>4, <2>1, <2>2, DeleteEffect DEF CacheInv, CacheBehind, Done
<1>5. TypeOK BY DEF CacheInv
<1> QED BY <1>1, <1>2, <1>3, <1>4, <1>5, ApplierEffect

LEMMA CacheInvNext ==
    ASSUME "create" \notin Losable
    PROVE  CacheInv /\ [Next]_vars => CacheInv'
<1> SUFFICES ASSUME CacheInv, [Next]_vars PROVE CacheInv' OBVIOUS
<1>1. TypeOK' /\ Versions' BY NextType, VersionsNext DEF CacheInv
<1>2. CASE ApplierNext /\ UNCHANGED patcherVars BY <1>1, <1>2, ApplierBehind DEF CacheInv
<1>3. ASSUME NEW c \in Controllers, ControllerNext(c), UNCHANGED applierVars
      PROVE  CacheBehind'
  <2>1. CASE Sync(c)
    BY <1>3, <2>1 DEF CacheInv, CacheBehind, Sync, applierVars
  <2>2. CASE ~Sync(c)
    <3>1. TypeOK BY DEF CacheInv
    <3>2. PICK p \in Patches : Send(c, p) BY <1>3, <2>2, <3>1, ControllerStep, CallType
    <3> QED BY <1>3, <3>2, PatchBehind DEF CacheBehind, Send, applierVars
  <2> QED BY <2>1, <2>2
<1>4. CASE UNCHANGED vars
  BY <1>1, <1>4 DEF CacheInv, CacheBehind, vars, applierVars, patcherVars
<1> QED BY <1>1, <1>2, <1>3, <1>4 DEF CacheInv, Next

\* Unless a create succeeds without the applier being told, the cache never
\* lets it skip a work that differs from the one on the hub.
THEOREM NeverSkipsChanges ==
    ASSUME "create" \notin Losable
    PROVE  Spec => []CacheSound
<1>1. Init => CacheInv
  <2> SUFFICES ASSUME Init PROVE Versions /\ CacheBehind BY InitType DEF CacheInv
  <2> QED BY InvInit DEF Inv, Init, CacheBehind
<1>2. CacheInv => CacheSound
  <2> SUFFICES ASSUME CacheInv, NEW work \in Specs, hub # None, SafeToSkipApply(work, hub)
               PROVE  work = hub.spec
    BY DEF CacheSound, ManifestWorkEqual
  <2>1. cache = [hash |-> work, generation |-> hub.generation] BY DEF SafeToSkipApply, Entry
  <2>2. cache # None BY DEF SafeToSkipApply
  <2>3. hub.generation \in Nat BY DEF CacheInv, TypeOK, Objects
  <2> QED BY <2>1, <2>2, <2>3 DEF CacheInv, CacheBehind
<1> QED BY <1>1, <1>2, CacheInvNext, PTL DEF Spec
=============================================================================
