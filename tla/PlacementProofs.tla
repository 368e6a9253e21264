-------------------------- MODULE PlacementProofs --------------------------
(***************************************************************************)
(* Proofs about PlacementTracker: the lookups that a rollout is built from *)
(* neither lose nor repeat a group, for any decisions of the placement.    *)
(***************************************************************************)
EXTENDS PlacementTracker, TLAPS

\* The tracker after a refresh: groups read from typed decisions are typed.
LEMMA ReadGroupsType ==
    ASSUME TypeOK, Readable
    PROVE  /\ DOMAIN ReadGroups \subseteq Keys
           /\ ReadGroups \in [DOMAIN ReadGroups -> SUBSET Clusters]
<1>1. \A d \in Present : decisions[d].key \in Keys /\ decisions[d].clusters \subseteq Clusters
  BY DEF TypeOK, Present, Readable
<1> QED BY <1>1 DEF ReadGroups

LEMMA InitType == Init => TypeOK
<1> SUFFICES ASSUME Init PROVE TypeOK OBVIOUS
<1> DEFINE key == [name |-> NoName, index |-> 0]
<1>1. key \in Keys BY ConstantsOK DEF Keys
<1>2. DOMAIN groups = {key} /\ groups[key] \subseteq Clusters BY DEF Init
<1>3. IndexesOf(groups) = {0} BY <1>2 DEF IndexesOf
<1>4. names \in IndexToNames(groups)
  <2>1. names \in [{0} -> {k.name : k \in DOMAIN groups}] BY <1>2 DEF Init
  <2>2. [name |-> names[0], index |-> 0] \in DOMAIN groups BY <1>2 DEF Init
  <2> QED BY <1>3, <2>1, <2>2 DEF IndexToNames
<1> QED BY <1>1, <1>2, <1>4 DEF TypeOK, Init

LEMMA NextType == TypeOK /\ [Next]_vars => TypeOK'
<1> SUFFICES ASSUME TypeOK, [Next]_vars PROVE TypeOK' OBVIOUS
<1>1. ASSUME NEW d \in Decisions, Write(d) PROVE TypeOK'
  BY <1>1 DEF TypeOK, Write
<1>2. ASSUME NEW c \in Callers, StartChanges(c) PROVE TypeOK'
  <2>1. ClustersOf(groups) \subseteq Clusters BY DEF TypeOK, ClustersOf
  <2> QED BY <1>2, <2>1 DEF TypeOK, StartChanges
<1>3. ASSUME NEW c \in Callers, RefreshChanges(c) PROVE TypeOK'
  BY <1>3, ReadGroupsType DEF TypeOK, RefreshChanges, Refresh
<1>4. ASSUME NEW c \in Callers, FailChanges(c) PROVE TypeOK'
  BY <1>4 DEF TypeOK, FailChanges
<1>5. ASSUME NEW c \in Callers, CompareChanges(c) PROVE TypeOK'
  <2>1. ClustersOf(groups) \subseteq Clusters BY DEF TypeOK, ClustersOf
  <2>2. known' \subseteq Clusters BY <1>5, <2>1 DEF TypeOK, CompareChanges, Changes
  <2> QED BY <1>5, <2>2 DEF TypeOK, CompareChanges
<1>6. CASE UNCHANGED vars BY <1>6 DEF TypeOK, vars
<1> QED BY <1>1, <1>2, <1>3, <1>4, <1>5, <1>6 DEF Next

\* Groups, and the names kept for their indexes, fit together in every state.
THEOREM TypeCorrect == Spec => []TypeOK
BY InitType, NextType, PTL DEF Spec

\* With indexes that are unique and have no gap, counting them reaches every
\* group.
LEMMA AllKeysReached ==
    ASSUME TypeOK, Contiguous(groups), NEW k \in DOMAIN groups
    PROVE  k \in AllGroupKeys(names)
<1>1. k = [name |-> k.name, index |-> k.index] BY DEF TypeOK, Keys
<1>2. k.index \in IndexesOf(groups) BY DEF IndexesOf
<1>3. DOMAIN names = IndexesOf(groups)
      /\ [name |-> names[k.index], index |-> k.index] \in DOMAIN groups
  BY <1>2 DEF TypeOK, IndexToNames
<1>4. names[k.index] = k.name BY <1>1, <1>3 DEF Contiguous
<1> QED BY <1>1, <1>2, <1>3, <1>4 DEF AllGroupKeys, Contiguous

LEMMA TypeImpliesPartition == TypeOK => Partition
<1> SUFFICES ASSUME TypeOK, Contiguous(groups), NEW keys
             PROVE  LET chosen == ExistingClusterGroups(groups, names, keys)
                        others == ExistingClusterGroupsBesides(groups, names, keys)
                    IN /\ DOMAIN chosen \cap DOMAIN others = {}
                       /\ DOMAIN chosen \cup DOMAIN others = DOMAIN groups
  BY DEF Partition
<1> QED BY AllKeysReached DEF ExistingClusterGroups, ExistingClusterGroupsBesides, Selected

\* A rollout that treats the mandatory groups and then the others reaches every
\* group once, for any keys the user chooses, as long as the lister shows
\* indexes that are unique and have no gap.
THEOREM LookupsPartition == Spec => []Partition
BY TypeCorrect, TypeImpliesPartition, PTL

-----------------------------------------------------------------------------
(* What a caller learns.                                                   *)

\* The tracker's clusters change only between the two reads of a caller, and the
\* first read has found what the caller knew.
ReadsInv ==
    /\ (\A c \in Callers : pc[c] # "compare") => known = ClustersOf(groups)
    /\ \A c \in Callers : pc[c] # "idle" => known = old[c]

LEMMA ReadsInit == Init => ReadsInv
<1> SUFFICES ASSUME Init PROVE ReadsInv OBVIOUS
<1>1. ClustersOf(groups) = known BY DEF Init, ClustersOf
<1> QED BY <1>1 DEF Init, ReadsInv

LEMMA ReadsStep ==
    ASSUME \A c, d \in Callers : c = d, TypeOK, ReadsInv, [Next]_vars
    PROVE  ReadsInv'
<1>1. ASSUME NEW d \in Decisions, Write(d) PROVE ReadsInv'
  BY <1>1 DEF Write, ReadsInv
<1>2. ASSUME NEW c \in Callers, StartChanges(c) PROVE ReadsInv'
  BY <1>2 DEF StartChanges, ReadsInv, TypeOK
<1>3. ASSUME NEW c \in Callers, RefreshChanges(c) PROVE ReadsInv'
  BY <1>3 DEF RefreshChanges, ReadsInv, TypeOK
<1>4. ASSUME NEW c \in Callers, FailChanges(c) PROVE ReadsInv'
  BY <1>4 DEF FailChanges, ReadsInv, TypeOK
<1>5. ASSUME NEW c \in Callers, CompareChanges(c) PROVE ReadsInv'
  <2> DEFINE new == ClustersOf(groups)
  <2>1. known' = (known \cup (new \ old[c])) \ (old[c] \ new) /\ known = old[c]
    BY <1>5 DEF CompareChanges, Changes, ReadsInv
  <2>2. known' = new BY <2>1
  <2> QED BY <1>5, <2>2 DEF CompareChanges, ReadsInv, TypeOK
<1>6. CASE UNCHANGED vars BY <1>6 DEF vars, ReadsInv
<1> QED BY <1>1, <1>2, <1>3, <1>4, <1>5, <1>6 DEF Next

\* A single caller that takes in the changes it is told knows the tracker's
\* clusters after every call, whatever fails and whatever the lister shows; with
\* two callers a refresh of one is lost on the other.
THEOREM ChangesAddUpForOne ==
    ASSUME \A c, d \in Callers : c = d PROVE Spec => []ChangesAddUp
<1>1. TypeOK /\ ReadsInv /\ [Next]_vars => ReadsInv' BY ReadsStep
<1>2. ReadsInv => ChangesAddUp BY DEF ReadsInv, ChangesAddUp
<1> QED BY <1>1, <1>2, InitType, NextType, ReadsInit, PTL DEF Spec
=============================================================================
