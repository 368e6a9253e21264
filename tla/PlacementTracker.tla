-------------------------- MODULE PlacementTracker --------------------------
(***************************************************************************)
(* The PlacementDecisionClustersTracker (placement.go): it reads the       *)
(* placement's decisions from a lister, keeps their clusters by group and  *)
(* tells its callers what has changed.                                     *)
(*                                                                         *)
(* The placement controller writes the decisions one object at a time, so  *)
(* the lister shows every combination of old and new objects.  Refresh     *)
(* holds the tracker's lock; GetClusterChanges reads the clusters before   *)
(* and after it without the lock.                                          *)
(***************************************************************************)
EXTENDS ClusterGroups

CONSTANTS
    Clusters,
    Names,      \* names of decision groups, NoName among them
    MaxIndex,   \* highest decision group index (a bound)
    Decisions,  \* names of PlacementDecision objects
    Callers,    \* goroutines that call GetClusterChanges
    None,       \* no such PlacementDecision
    BadLabel    \* a group index label that is not a number

ASSUME ConstantsOK == NoName \in Names /\ MaxIndex \in Nat

VARIABLES
    decisions,  \* the lister: for each object its group key and clusters
    groups,     \* existingScheduledClusterGroups
    names,      \* clusterGroupsIndexToName
    pc, old,    \* per caller: where it is in GetClusterChanges, what it read
    known       \* the clusters according to the changes reported so far

vars == <<decisions, groups, names, pc, old, known>>

Keys == [name: Names, index: 0..MaxIndex]

TypeOK ==
    /\ decisions \in [Decisions ->
          [key: Keys \cup {BadLabel}, clusters: SUBSET Clusters] \cup {None}]
    /\ DOMAIN groups \subseteq Keys
    /\ groups \in [DOMAIN groups -> SUBSET Clusters]
    /\ names \in IndexToNames(groups)
    /\ pc \in [Callers -> {"idle", "refresh", "compare"}]
    /\ old \in [Callers -> SUBSET Clusters]
    /\ known \subseteq Clusters

\* NewPlacementDecisionClustersTracker: existing clusters go to group 0.
Init ==
    /\ decisions = [d \in Decisions |-> None]
    /\ known \in SUBSET Clusters
    /\ groups = [k \in {[name |-> NoName, index |-> 0]} |-> known]
    /\ names = [i \in {0} |-> NoName]
    /\ pc = [c \in Callers |-> "idle"]
    /\ old = [c \in Callers |-> {}]

\* The placement controller writes or deletes one object.
Write(d) ==
    /\ \/ decisions' = [decisions EXCEPT ![d] = None]
       \/ \E k \in Keys \cup {BadLabel}, cs \in SUBSET Clusters \ {{}} :
             decisions' = [decisions EXCEPT ![d] = [key |-> k, clusters |-> cs]]
    /\ UNCHANGED <<groups, names, pc, old, known>>

-----------------------------------------------------------------------------
(* The tracker and its callers.                                            *)

Present  == {d \in Decisions : decisions[d] # None}
Readable == \A d \in Present : decisions[d].key # BadLabel

ReadGroups ==
    [k \in {decisions[d].key : d \in Present} |->
        UNION {decisions[d].clusters : d \in {e \in Present : decisions[e].key = k}}]

\* Mutants: the names are those of the groups before; a failed refresh keeps
\* the decisions it could read.
RefreshStaleNames ==
    /\ Readable
    /\ groups' = ReadGroups
    /\ UNCHANGED names
FailChangesPartly(c) ==
    /\ pc[c] = "refresh"
    /\ groups' = [k \in DOMAIN ReadGroups \ {BadLabel} |-> ReadGroups[k]]
    /\ names' \in IndexToNames(groups')
    /\ pc' = [pc EXCEPT ![c] = "idle"]
    /\ old' = [old EXCEPT ![c] = {}]
    /\ UNCHANGED <<decisions, known>>

\* Refresh, when every decision can be read; and when the list or a label
\* fails, which leaves the tracker as it was.
Refresh ==
    /\ Readable
    /\ groups' = ReadGroups
    /\ names' \in IndexToNames(groups')

StartChanges(c) ==
    /\ pc[c] = "idle"
    /\ old' = [old EXCEPT ![c] = ClustersOf(groups)]
    /\ pc' = [pc EXCEPT ![c] = "refresh"]
    /\ UNCHANGED <<decisions, groups, names, known>>

RefreshChanges(c) ==
    /\ pc[c] = "refresh"
    /\ Refresh
    /\ pc' = [pc EXCEPT ![c] = "compare"]
    /\ UNCHANGED <<decisions, old, known>>

FailChanges(c) ==
    /\ pc[c] = "refresh"
    /\ pc' = [pc EXCEPT ![c] = "idle"]
    /\ old' = [old EXCEPT ![c] = {}]
    /\ UNCHANGED <<decisions, groups, names, known>>

\* The caller takes in the added and the deleted clusters.
Changes(c, new) ==
    [added |-> new \ old[c], deleted |-> old[c] \ new]

CompareChanges(c) ==
    LET changes == Changes(c, ClustersOf(groups)) IN
    /\ pc[c] = "compare"
    /\ known' = (known \cup changes.added) \ changes.deleted
    /\ pc' = [pc EXCEPT ![c] = "idle"]
    /\ old' = [old EXCEPT ![c] = {}]
    /\ UNCHANGED <<decisions, groups, names>>

Next ==
    \/ \E d \in Decisions : Write(d)
    \/ \E c \in Callers :
          \/ StartChanges(c) \/ RefreshChanges(c) \/ FailChanges(c) \/ CompareChanges(c)

Spec == Init /\ [][Next]_vars

-----------------------------------------------------------------------------

\* GetClusterChanges: "updates the tracker's decisionClusters and returns added
\* and deleted cluster names".  Whatever fails in between, a caller that adds
\* up the changes knows the tracker's clusters.
ChangesAddUp ==
    (\A c \in Callers : pc[c] = "idle") => known = ClustersOf(groups)

\* A rollout treats the mandatory groups and the others separately: every
\* group is in one of the two lookups, whichever keys the user chooses.
Partition ==
    Contiguous(groups) =>
        \A keys \in {{j, k} : j, k \in Keys} :
            LET chosen == ExistingClusterGroups(groups, names, keys)
                others == ExistingClusterGroupsBesides(groups, names, keys)
            IN /\ DOMAIN chosen \cap DOMAIN others = {}
               /\ DOMAIN chosen \cup DOMAIN others = DOMAIN groups
=============================================================================
