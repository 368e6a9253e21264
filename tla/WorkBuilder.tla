---------------------------- MODULE WorkBuilder ----------------------------
(***************************************************************************)
(* The work builder (workbuilder.go) and the controller that calls         *)
(* BuildAndApply: manifests are distributed over works within a size       *)
(* limit, starting from the works the controller's lister shows, and the   *)
(* works are then applied or deleted one call at a time.                   *)
(*                                                                         *)
(* The controller is not part of the SDK.  It has one worker, which builds *)
(* again after an error and when what it wants or its lister changes.  The *)
(* applier behind it reads the same lister; its cache and the finalizers   *)
(* of works are the subject of HubWork.                                    *)
(***************************************************************************)
EXTENDS Integers, SequencesExt

CONSTANTS
    Keys,         \* kind, namespace and name of a manifest
    Sizes,        \* sizes of manifests; a change of a manifest is one of its size
    Demands,      \* what the controller may want: sets of manifests
    Limit,        \* manifestLimit
    Names,        \* 0..n, names of works
    UniqueNames,  \* names of new works are free, or else the index itself
    None,         \* no work
    MaxWants,     \* changes of what the controller wants (a bound)
    MaxMishaps    \* failed calls, restarts and builds from an old copy (a bound)

Manifests == [key: Keys, size: Sizes]

\* Objects to distribute, and the manifests of a work: one with each key.
Bundles == {b \in SUBSET Manifests : \A m, n \in b : m.key = n.key => m = n}

ASSUME ConstantsOK ==
    /\ Sizes \subseteq Nat \ {0}
    /\ Demands \subseteq Bundles /\ \A demand \in Demands : IsFiniteSet(demand)
    /\ Limit \in Nat /\ MaxWants \in Nat /\ MaxMishaps \in Nat
    /\ Names \subseteq Nat /\ IsFiniteSet(Names)
    /\ UniqueNames \in BOOLEAN
    /\ \A b \in Bundles : b # None

VARIABLES
    wanted,   \* the objects the controller wants on the cluster
    hub,      \* the works on the hub
    listed,   \* the works the lister shows
    objects,  \* argument of the call of BuildAndApply under way
    current,  \* history: the lister showed the works on the hub when it began
    calls,    \* what is left of its calls of Apply and Delete
    dirty,    \* the controller has to build again
    wants, mishaps

vars == <<wanted, hub, listed, objects, current, calls, dirty, wants, mishaps>>

Init ==
    /\ wanted \in Demands
    /\ hub = [n \in Names |-> None]
    /\ listed = hub
    /\ objects = {}
    /\ current = TRUE
    /\ calls = <<>>
    /\ dirty = TRUE
    /\ wants = 0 /\ mishaps = 0

SizeOf(work) == MapThenSumSet(LAMBDA m : m.size, work)
KeysOf(work) == IF work = None THEN {} ELSE {m.key : m \in work}

-----------------------------------------------------------------------------
(* Mutants.  The old form of a manifest stays beside the new one; one that *)
(* has changed is taken for a new one; there is always room for another; a *)
(* work with no manifests left is not deleted.                             *)

UpdateBeside(acc, n) ==
    [works |-> Append(acc.works, listed[n] \cup {m \in acc.left : m.key \in KeysOf(listed[n])}),
     left  |-> {m \in acc.left : m.key \notin KeysOf(listed[n])}]

UpdateChanged(acc, n) ==
    [works |-> Append(acc.works, acc.left \cap listed[n]), left |-> acc.left \ listed[n]]

BufferOfAny(work) == Limit

SortEmptied(acc, c) == [acc EXCEPT !.applied = Append(@, c)]

-----------------------------------------------------------------------------
(* buildManifestWorks.                                                     *)

\* An existing work keeps the required manifests it has, in their new form,
\* that no work before it has.
Update(acc, n) ==
    [works |-> Append(acc.works, {m \in acc.left : m.key \in KeysOf(listed[n])}),
     left  |-> {m \in acc.left : m.key \notin KeysOf(listed[n])}]

Updated(order) == FoldLeft(Update, [works |-> <<>>, left |-> wanted], order)

\* New manifests are sorted by size; those of one size come in any order.
BySize(manifests) ==
    {s \in SetToSeqs(manifests) : \A i \in 1..(Len(s) - 1) : s[i].size >= s[i + 1].size}

Buffer(work) == IF SizeOf(work) > Limit THEN 0 ELSE Limit - SizeOf(work)

\* getMaxManifestWorkBuffer: the first of the works with the most room.
Roomiest(works) ==
    {i \in DOMAIN works :
        /\ Buffer(works[i]) > 0
        /\ \A j \in DOMAIN works : Buffer(works[j]) <= Buffer(works[i])
        /\ \A j \in 1..(i - 1) : Buffer(works[j]) < Buffer(works[i])}

\* A new manifest goes into an existing work, or is left for a new one.
Place(acc, m) ==
    LET room == {i \in Roomiest(acc.works) : m.size < Buffer(acc.works[i])} IN
    IF room = {} THEN [acc EXCEPT !.left = Append(@, m)]
    ELSE [acc EXCEPT !.works[CHOOSE i \in room : TRUE] = @ \cup {m}]

Placed(works, manifests) == FoldLeft(Place, [works |-> works, left |-> <<>>], manifests)

\* newManifestWorks: one work after the other is filled.  It starts with an
\* empty work, which stays empty when the first manifest does not fit into it.
Fill(works, m) ==
    IF SizeOf(Last(works)) + m.size < Limit
    THEN Append(Front(works), Last(works) \cup {m})
    ELSE Append(works, {m})

\* Mutant: a work is begun for no manifest.
NewWorksAlways(manifests) == FoldLeft(Fill, <<{}>>, manifests)

NewWorks(manifests) ==
    IF manifests = <<>> THEN <<>> ELSE FoldLeft(Fill, <<{}>>, manifests)

-----------------------------------------------------------------------------
(* BuildAndApply.                                                          *)

\* The index is the number of existing works plus that of new ones before.
Free == {n \in Names : hub[n] = None /\ listed[n] = None}
NewName(existing, i) ==
    IF UniqueNames
    THEN CHOOSE n \in Free : Cardinality({o \in Free : o <= n}) = i
    ELSE existing + i - 1

\* There are names for so many works (a bound).
Enough(existing, works) ==
    \A i \in DOMAIN works :
        IF UniqueNames THEN i <= Cardinality(Free) ELSE existing + i - 1 \in Names

\* An updated work that has no manifests left is deleted.
Sort(acc, c) ==
    IF c.work = {} THEN [acc EXCEPT !.deleted = Append(@, [c EXCEPT !.work = None])]
    ELSE [acc EXCEPT !.applied = Append(@, c)]

Sorted(new, updated) == FoldLeft(Sort, [applied |-> new, deleted |-> <<>>], updated)

\* New works come first, then the updated ones, then those to delete.
Ordered(new, updated) ==
    LET works == Sorted(new, updated) IN works.applied \o works.deleted

Build ==
    /\ dirty /\ calls = <<>>
    /\ \E order \in SetToSeqs({n \in Names : listed[n] # None}) :
       \E updated \in {Updated(order)} :
       \E added \in BySize(updated.left) :
       \E placed \in {Placed(updated.works, added)} :
       \E works \in {NewWorks(placed.left)} :
         /\ Enough(Len(order), works)
         /\ calls' = Ordered(
               [i \in DOMAIN works |-> [name |-> NewName(Len(order), i), work |-> works[i]]],
               [i \in DOMAIN order |-> [name |-> order[i], work |-> placed.works[i]]])
    /\ objects' = wanted /\ current' = (listed = hub)
    /\ dirty' = FALSE
    /\ \/ listed = hub /\ UNCHANGED mishaps
       \/ listed # hub /\ mishaps < MaxMishaps /\ mishaps' = mishaps + 1
    /\ UNCHANGED <<wanted, hub, listed, wants>>

\* What a call makes of the hub; Apply ignores that a work it does not know
\* exists, skips one that is as required, and patches the version it knows.
Conflict(c) == c.work # None /\ listed[c.name] \notin {None, hub[c.name], c.work}

Effect(c) ==
    IF \/ c.work # None /\ listed[c.name] = None /\ hub[c.name] # None
       \/ c.work # None /\ listed[c.name] = c.work
    THEN hub
    ELSE [hub EXCEPT ![c.name] = c.work]

Call ==
    /\ calls # <<>>
    /\ IF Conflict(Head(calls)) THEN hub' = hub /\ dirty' = TRUE
       ELSE hub' = Effect(Head(calls)) /\ UNCHANGED dirty
    /\ calls' = Tail(calls)
    /\ UNCHANGED <<wanted, listed, objects, current, wants, mishaps>>

\* A call ends with an error, whether the hub has done what it was asked or
\* not; the calls behind it are made all the same.
FailCall ==
    /\ calls # <<>> /\ mishaps < MaxMishaps
    /\ hub' \in IF Conflict(Head(calls)) THEN {hub} ELSE {hub, Effect(Head(calls))}
    /\ calls' = Tail(calls)
    /\ dirty' = TRUE
    /\ mishaps' = mishaps + 1
    /\ UNCHANGED <<wanted, listed, objects, current, wants>>

-----------------------------------------------------------------------------
(* The controller.                                                         *)

Want ==
    /\ wants < MaxWants
    /\ wanted' \in Demands \ {wanted}
    /\ dirty' = TRUE
    /\ wants' = wants + 1
    /\ UNCHANGED <<hub, listed, objects, current, calls, mishaps>>

Listen ==
    /\ listed # hub
    /\ listed' = hub
    /\ dirty' = TRUE
    /\ UNCHANGED <<wanted, hub, objects, current, calls, wants, mishaps>>

\* The controller stops between two calls; its informer lists when it is back.
Restart ==
    /\ mishaps < MaxMishaps
    /\ calls' = <<>> /\ listed' = hub /\ dirty' = TRUE
    /\ mishaps' = mishaps + 1
    /\ UNCHANGED <<wanted, hub, objects, current, wants>>

Next == Build \/ Call \/ FailCall \/ Want \/ Listen \/ Restart

Spec == Init /\ [][Next]_vars /\ WF_vars(Build) /\ WF_vars(Call) /\ WF_vars(Listen)

-----------------------------------------------------------------------------

TypeOK ==
    /\ wanted \in Demands /\ objects \in Demands \cup {{}}
    /\ hub \in [Names -> {None} \cup Bundles]
    /\ listed \in [Names -> {None} \cup Bundles]
    /\ calls \in Seq([name: Names, work: {None} \cup Bundles])
    /\ current \in BOOLEAN /\ dirty \in BOOLEAN
    /\ wants \in 0..MaxWants /\ mishaps \in 0..MaxMishaps

\* The limit is what the builder is for: a work that is given a manifest it did
\* not have stays below it, unless it holds nothing else.
WithinLimit ==
    [][calls = <<>> => \A i \in DOMAIN calls' :
          LET c == calls'[i] IN
          KeysOf(c.work) \subseteq KeysOf(listed[c.name])
             \/ SizeOf(c.work) < Limit \/ Cardinality(c.work) = 1]_calls

\* Removing a manifest from the hub removes it from the cluster.  A manifest
\* that stays required does not leave the hub while works built from a current
\* copy are applied, whichever of the calls fail.
OnHub == UNION {KeysOf(hub[n]) : n \in Names}

NeverWithdrawn ==
    [][current => OnHub \cap KeysOf(objects) \subseteq OnHub']_hub

\* Once the controller wants nothing else, the hub has every wanted manifest in
\* one work, in its last form, and nothing besides.
Distributed ==
    /\ UNION {hub[n] : n \in {o \in Names : hub[o] # None}} = wanted
    /\ \A n, o \in Names : n # o => KeysOf(hub[n]) \cap KeysOf(hub[o]) = {}
    /\ \A n \in Names : hub[n] # {}

\* A controller with nothing left to do and no news to wait for is there: no
\* build and no error has left it at rest too early.
Rested == ~dirty /\ calls = <<>> /\ listed = hub => Distributed

Converges == <>[]Distributed
=============================================================================
