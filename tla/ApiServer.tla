----------------------------- MODULE ApiServer -----------------------------
(***************************************************************************)
(* One ManifestWork on the hub's Kubernetes API server, as far as the      *)
(* appliers and patchers of the SDK rely on it: resource versions that are *)
(* never reused, a generation that counts the changes of the spec, merge   *)
(* patches with preconditions, and deletion that waits for finalizers.     *)
(* The server is not part of the SDK.                                      *)
(***************************************************************************)
EXTENDS Integers

CONSTANTS
    Specs,        \* contents of a work that an Apply or a PatchSpec may give it
    Controllers,  \* controllers that hold a finalizer, each named for its own
    None          \* no object, no value, a field a patch does not have

VARIABLES
    hub,      \* the work, or None
    revision  \* the resource version given out last

\* Labels, annotations and owners, which do not count in the generation, are
\* left out.  The status is the set of controllers whose condition is in it.
Objects ==
    [uid: Nat, resourceVersion: Nat, generation: Nat, spec: Specs,
     finalizers: SUBSET Controllers, status: SUBSET Controllers, deleting: BOOLEAN]

ASSUME NoneIsNoValue ==
    /\ None \notin Nat \cup Specs \cup Objects
    /\ \A S \in SUBSET Controllers : S # None

Patches ==
    [uid: Nat, resourceVersion: {None} \cup Nat, spec: {None} \cup Specs,
     finalizers: {None} \cup SUBSET Controllers, status: {None} \cup SUBSET Controllers]

NoChange(object) ==
    [uid |-> object.uid, resourceVersion |-> object.resourceVersion,
     spec |-> None, finalizers |-> None, status |-> None]

Store(object) ==
    /\ revision' = revision + 1
    /\ hub' = [object EXCEPT !.resourceVersion = revision + 1]

Create(spec) ==
    Store([uid |-> revision + 1, resourceVersion |-> 0, generation |-> 1, spec |-> spec,
           finalizers |-> {}, status |-> {}, deleting |-> FALSE])

\* A patch is refused when it is for another life of the work or for an older
\* version of it; a work that is being deleted takes no new finalizers.
Accepts(patch) ==
    /\ hub # None
    /\ patch.uid = hub.uid
    /\ patch.resourceVersion \in {None, hub.resourceVersion}
    /\ hub.deleting /\ patch.finalizers # None => patch.finalizers \subseteq hub.finalizers

Or(field, old) == IF field = None THEN old ELSE field

Patched(patch) ==
    [hub EXCEPT !.spec = Or(patch.spec, @),
                !.finalizers = Or(patch.finalizers, @),
                !.status = Or(patch.status, @),
                !.generation = IF Or(patch.spec, hub.spec) = hub.spec THEN @ ELSE @ + 1]

\* The last finalizer of a work that is being deleted takes the work with it.
Patch(patch) ==
    IF hub.deleting /\ Patched(patch).finalizers = {}
    THEN hub' = None /\ revision' = revision + 1
    ELSE Store(Patched(patch))

Delete ==
    IF hub.finalizers = {} THEN hub' = None /\ revision' = revision + 1
    ELSE IF hub.deleting THEN UNCHANGED <<hub, revision>>
    ELSE Store([hub EXCEPT !.deleting = TRUE, !.generation = @ + 1])
=============================================================================
