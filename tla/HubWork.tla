------------------------------ MODULE HubWork ------------------------------
(***************************************************************************)
(* A work on the hub that the work applier creates, patches and deletes    *)
(* while controllers patch its finalizers, status and spec.                *)
(***************************************************************************)
EXTENDS WorkApplier, Patcher

vars == <<hub, revision, applierVars, patcherVars>>

TypeOK ==
    /\ hub \in {None} \cup Objects
    /\ revision \in Nat
    /\ desired \in Specs \cup {None}
    /\ dirty \in BOOLEAN
    /\ lister \in {None} \cup Objects /\ listed \in Nat
    /\ cache \in {None} \cup [hash: Specs, generation: Nat]
    /\ wants \in 0..MaxWants /\ lost \in 0..MaxLost
    /\ cached \in [Controllers -> {None} \cup Objects]
    /\ holds \in [Controllers -> {None} \cup Nat]
    /\ reported \in [Controllers -> {None} \cup Nat]
    /\ specPatches \in 0..MaxSpecPatches

Init ==
    /\ hub = None /\ revision = 0
    /\ ApplierInit
    /\ PatcherInit

Next ==
    \/ ApplierNext /\ UNCHANGED patcherVars
    \/ \E c \in Controllers : ControllerNext(c) /\ UNCHANGED applierVars

Fairness == ApplierFairness /\ \A c \in Controllers : ControllerFairness(c)

Spec == Init /\ [][Next]_vars /\ Fairness
=============================================================================
