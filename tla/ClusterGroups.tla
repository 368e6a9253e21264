--------------------------- MODULE ClusterGroups ---------------------------
(***************************************************************************)
(* The groups of a placement's clusters and their lookup by group name or  *)
(* index (pkg/apis/cluster/v1beta1/placement.go).  A ClusterGroupsMap is a *)
(* function from group keys, records of a name and an index, to sets of    *)
(* clusters; the empty name is NoName.                                     *)
(***************************************************************************)
EXTENDS Integers, FiniteSets

CONSTANT NoName

\* GetClusters.
ClustersOf(groups) == UNION {groups[k] : k \in DOMAIN groups}

IndexesOf(groups) == {k.index : k \in DOMAIN groups}

\* generateGroupsNameIndex, the index to name map: of the keys that share an
\* index, the one that the iteration over the map reaches last.
IndexToNames(groups) ==
    {f \in [IndexesOf(groups) -> {k.name : k \in DOMAIN groups}] :
        \A i \in IndexesOf(groups) : [name |-> f[i], index |-> i] \in DOMAIN groups}

\* Mutant: group indexes are counted from one.
AllKeysFromOne(names) ==
    {[name |-> names[i], index |-> i] : i \in DOMAIN names \cap 1..Cardinality(DOMAIN names)}

\* fulfillGroupKeys: a key with a name stands for every group of that name, a
\* key without one for the group with its index.
FulfillGroupKeys(groups, names, keys) ==
    {k \in DOMAIN groups : \E key \in keys :
        IF key.name # NoName THEN k.name = key.name
        ELSE k.index = key.index /\ names[k.index] = k.name}

\* getGroupKeysBesides: the indexes are taken to be 0, 1, 2...
AllGroupKeys(names) ==
    {[name |-> names[i], index |-> i] :
        i \in DOMAIN names \cap 0..(Cardinality(DOMAIN names) - 1)}

Selected(groups, keys) == [k \in DOMAIN groups \cap keys |-> groups[k]]

ExistingClusterGroups(groups, names, keys) ==
    Selected(groups, FulfillGroupKeys(groups, names, keys))

ExistingClusterGroupsBesides(groups, names, keys) ==
    Selected(groups, AllGroupKeys(names) \ FulfillGroupKeys(groups, names, keys))

\* What the lookups rely on: no two groups share an index, and the indexes
\* have no gap.
Contiguous(groups) ==
    /\ \A j, k \in DOMAIN groups : j.index = k.index => j = k
    /\ IndexesOf(groups) = 0..(Cardinality(IndexesOf(groups)) - 1)
=============================================================================
