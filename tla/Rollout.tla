------------------------------ MODULE Rollout ------------------------------
(***************************************************************************)
(* The rollout of a workload to the clusters of a placement: what          *)
(* RolloutHandler.GetRolloutCluster (rollout.go) decides from the statuses *)
(* of the workload, and the controller that applies its decisions.         *)
(*                                                                         *)
(* The handler is a function of the statuses, their ages and the groups;   *)
(* the controller, outside the SDK, calls it again when something it       *)
(* watches has changed and when RecheckAfter of the last result is over.   *)
(***************************************************************************)
EXTENDS Integers, FiniteSets

CONSTANTS
    Clusters,       \* numbered in the order of their names
    GroupOf,        \* the index of the decision group of each cluster
    Strategies,     \* the rollout strategies that callers use, see RolloutStrategies
    None,           \* no deadline, and no recheck
    ReportsTimeOut, \* the status function may report TimeOut itself
    MaxChanges,     \* changes of placement, workload and health (a bound)
    MaxDrifts       \* applied workloads that stop being the desired one (a bound)

\* A threshold is a number of clusters or a percentage of them.
Thresholds == [percent: BOOLEAN, n: Nat]
\* Mandatory groups are given by their indexes, the soak time and the deadline
\* in units of Tick.  RolloutAll has no mandatory groups.
RolloutStrategies ==
    {s \in [Type: {"All", "Progressive", "ProgressivePerGroup"},
            MandatoryDecisionGroups: SUBSET Nat,
            MaxConcurrency: Thresholds, MaxFailures: Thresholds,
            MinSuccessTime: Nat, ProgressDeadline: Nat \cup {None}] :
        s.Type = "All" => s.MandatoryDecisionGroups = {}}

ASSUME ConstantsOK ==
    /\ Clusters \subseteq Nat /\ IsFiniteSet(Clusters)
    /\ GroupOf \in [Clusters -> Nat]
    /\ None \notin Nat
    /\ \A s \in Strategies : s \in RolloutStrategies
    /\ ReportsTimeOut \in BOOLEAN /\ MaxChanges \in Nat /\ MaxDrifts \in Nat

VARIABLES
    strategy, \* the strategy of this rollout
    placed,  \* clusters of the placement, as the tracker last read them
    status,  \* the status function's answer for each cluster; "None": no workload
    age,     \* time since the status last changed, up to Horizon
    dirty,   \* the controller has a change to look at
    timer,   \* time to the recheck the last result asked for, or None
    changes, drifts  \* counters for the bounds

env  == <<changes, drifts>>
vars == <<strategy, placed, status, age, dirty, timer, env>>

Type             == strategy.Type
Mandatory        == strategy.MandatoryDecisionGroups
MaxConcurrency   == strategy.MaxConcurrency
MaxFailures      == strategy.MaxFailures
MinSuccessTime   == strategy.MinSuccessTime
ProgressDeadline == strategy.ProgressDeadline

\* No comparison tells ages from there on apart.
Horizon == IF ProgressDeadline = None \/ ProgressDeadline < MinSuccessTime
           THEN MinSuccessTime ELSE ProgressDeadline

Statuses == {"None", "ToApply", "Progressing", "Succeeded", "Failed", "TimeOut", "Skip"}

TypeOK ==
    /\ strategy \in Strategies
    /\ placed \subseteq Clusters
    /\ status \in [Clusters -> Statuses]
    /\ age \in [Clusters -> 0..Horizon]
    /\ dirty \in BOOLEAN
    /\ timer \in 0..Horizon \cup {None}
    /\ changes \in 0..MaxChanges /\ drifts \in 0..MaxDrifts

Init ==
    /\ strategy \in Strategies
    /\ placed \in SUBSET Clusters
    /\ status = [c \in Clusters |-> "None"]
    /\ age = [c \in Clusters |-> 0]
    /\ dirty = TRUE
    /\ timer = None
    /\ changes = 0 /\ drifts = 0

-----------------------------------------------------------------------------
(* Mutants: plausible mistakes in the code below, one for each property.   *)

\* The rollout size is reached one cluster late.
AmendedOneMore(new, room) == {c \in new : Cardinality({d \in new : d < c}) <= room}

\* A cluster that succeeded is not soaked.
InRolloutNoSoak(c, soak) ==
    \/ status[c] = "ToApply"
    \/ /\ status[c] \in {"Progressing", "Failed"}
       /\ ProgressDeadline = None \/ age[c] < ProgressDeadline

\* The statuses are gone through from the last name to the first.
PerClusterLastFirst(existing, clusters, size, max, soak) ==
    LET listed == {c \in existing : \/ status[c] \in {"ToApply", "Progressing"}
                                    \/ status[c] = "Succeeded" /\ age[c] < soak}
        new    == clusters \ existing
    IN [rollout |-> {c \in listed : Cardinality({d \in listed : d > c}) < size} \cup
            {c \in new : Cardinality({d \in new : d > c}) < size - Cardinality(listed)},
        timeout |-> {}, breach |-> FALSE]

\* Timeouts are not counted, and one failure too many is let pass.
BreachedOneMore(S, max) ==
    Cardinality({c \in S : status[c] = "Failed"}) > max + 1

\* Mandatory groups that have timed out do not hold up the others.
UnfinishedRollout(result) == result.rollout # {}

\* The recheck time forgets the deadline, or adds the two up.
RecheckSoakOnly(rollout) ==
    IF Type = "All" \/ MinSuccessTime = 0 THEN None ELSE MinSuccessTime
RecheckSum(rollout) ==
    IF ProgressDeadline = None THEN None ELSE ProgressDeadline + MinSuccessTime

-----------------------------------------------------------------------------
(* The decision.  A result has the clusters to roll out, those found to    *)
(* have timed out just now, and whether MaxFailures is breached.           *)

Lowest(S) == CHOOSE i \in S : \A j \in S : i <= j

\* calculateRolloutSize: a threshold that is zero, or above the total, counts
\* as the default.
RolloutSize(threshold, total, default) ==
    LET n == IF threshold.percent THEN (threshold.n * total + 99) \div 100
                                  ELSE threshold.n
    IN IF n <= 0 \/ n > total THEN default ELSE n

\* determineRolloutStatus.
TimesOut(c) == /\ status[c] \in {"Progressing", "Failed"}
               /\ ProgressDeadline # None /\ age[c] >= ProgressDeadline
InRollout(c, soak) ==
    \/ status[c] = "ToApply"
    \/ status[c] = "Succeeded" /\ age[c] < soak
    \/ status[c] \in {"Progressing", "Failed"} /\ ~TimesOut(c)
Failing(c) == status[c] \in {"Failed", "TimeOut"} \/ TimesOut(c)

\* The statuses the handler keeps, and those it reports as removed
\* (getRemovedClusters), with the placement it has read.
Existing(read) == {c \in read : status[c] # "None"}
Removed(read)  == {c \in Clusters \ read : status[c] # "None"}

Breached(S, max) == Cardinality({c \in S : Failing(c)}) > max

\* The first clusters without a status, as many as there is room for.
Amended(new, room) == {c \in new : Cardinality({d \in new : d < c}) < room}

\* progressivePerCluster: goes through the existing statuses by name until the
\* list has the rollout size, and then through the clusters without one.
PerCluster(existing, clusters, size, max, soak) ==
    LET before(c) == {d \in existing : d < c}
        upto(c)   == {d \in existing : d <= c}
        listed    == {c \in existing : /\ InRollout(c, soak)
                                       /\ status[c] = "ToApply" => ~Breached(before(c), max)}
        full      == {c \in existing : Cardinality(listed \cap upto(c)) >= size}
        seen      == IF full = {} THEN existing ELSE upto(Lowest(full))
        new       == clusters \ existing
        amended   == Amended(new, size - Cardinality(listed))
        breach    == Breached(seen, max)
    IN [rollout |-> (listed \cap seen) \cup (IF full = {} /\ ~breach THEN amended ELSE {}),
        timeout |-> {c \in seen : TimesOut(c)},
        breach  |-> breach]

\* progressivePerGroup: goes through the groups in the order of their indexes.
\* Every existing status but ToApply is in the lists before it begins.
PerGroup(existing, clusters, threshold, soak) ==
    LET started == {c \in existing : status[c] # "ToApply"}
        listed  == {c \in started : InRollout(c, soak)}
        groups  == {GroupOf[c] : c \in clusters}
        members(k)  == {c \in clusters : GroupOf[c] = k}
        upto(k)     == {c \in clusters : GroupOf[c] <= k}
        failures(S) == {c \in S \cap started : Failing(c)}
        breached(k) == Cardinality(failures(members(k)))
                          > RolloutSize(threshold, Cardinality(members(k)), 0)
        stops == {k \in groups :
                    \/ Cardinality(listed \cup (upto(k) \ started)) - Cardinality(failures(upto(k))) > 0
                    \/ breached(k)}
        seen  == IF stops = {} THEN clusters ELSE upto(Lowest(stops))
    IN [rollout |-> listed \cup (seen \ started),
        timeout |-> {c \in started : TimesOut(c)},
        breach  |-> stops # {} /\ breached(Lowest(stops))]

NoFailures == [percent |-> FALSE, n |-> 0]
InMandatory(read) == {c \in read : GroupOf[c] \in Mandatory}
Rest(read)        == {c \in read : GroupOf[c] \notin Mandatory}

\* Mandatory groups first; then, when they leave nothing to do, the others.
Unfinished(result) == result.rollout # {} \/ result.timeout # {}
AfterMandatory(existing, mandatory, result) ==
    LET first == PerGroup(existing, mandatory, NoFailures, MinSuccessTime)
    IN IF mandatory # {} /\ Unfinished(first) THEN first ELSE result

\* One decision reads the tracker up to three times: for the statuses, for the
\* mandatory groups and for the others.
GetRolloutCluster(reads) ==
    LET existing  == Existing(reads[1])
        mandatory == InMandatory(reads[2])
        rest      == Rest(reads[3])
        total     == Cardinality(reads[1])
    IN CASE Type = "All" -> PerCluster(existing, reads[1], total, total, 0)
         [] Type = "Progressive" ->
               AfterMandatory(existing, mandatory, PerCluster(existing, rest,
                   RolloutSize(MaxConcurrency, Cardinality(rest), Cardinality(rest)),
                   RolloutSize(MaxFailures, total, 0),
                   MinSuccessTime))
         [] Type = "ProgressivePerGroup" ->
               AfterMandatory(existing, mandatory,
                   PerGroup(existing, rest, MaxFailures, MinSuccessTime))

\* minRecheckAfter, of the clusters to roll out that had a status: those that are
\* added without one have no deadline yet.
RecheckAfter(rollout) ==
    LET soak  == IF Type = "All" THEN 0 ELSE MinSuccessTime
        times == {ProgressDeadline - age[c] : c \in
                    {d \in rollout : /\ ProgressDeadline # None
                                     /\ status[d] \in {"Progressing", "Failed"}}}
                 \cup (IF soak # 0 THEN {soak} ELSE {})
    IN IF times = {} THEN None ELSE Lowest(times)

-----------------------------------------------------------------------------
(* The controller: applies the workload to the clusters to roll out, and   *)
(* removes it from those that left the placement.                          *)

Due == dirty \/ timer = 0

Starting(c, result) == c \in result.rollout /\ status[c] \in {"None", "ToApply"}

Decide(reads) ==
    LET result == GetRolloutCluster(reads) IN
    /\ Due
    /\ status' = [c \in Clusters |-> IF Starting(c, result) THEN "Progressing"
                                     ELSE IF c \in Removed(reads[1]) THEN "None"
                                     ELSE status[c]]
    /\ age' = [c \in Clusters |-> IF status'[c] # status[c] THEN 0 ELSE age[c]]
    /\ timer' = RecheckAfter(result.rollout \cap Existing(reads[1]))
    /\ UNCHANGED strategy

Reconcile ==
    /\ Decide([i \in 1..3 |-> placed])
    /\ dirty' = (status' # status)
    /\ UNCHANGED <<placed, env>>

-----------------------------------------------------------------------------
(* The workload, the placement and time.                                   *)

\* The status function finds cluster c in state s.
Report(c, s) ==
    /\ status' = [status EXCEPT ![c] = s]
    /\ age' = [age EXCEPT ![c] = 0]
    /\ dirty' = TRUE
    /\ UNCHANGED <<strategy, placed, timer>>

Changed == changes < MaxChanges /\ changes' = changes + 1 /\ UNCHANGED drifts

Succeed(c) == status[c] = "Progressing" /\ Report(c, "Succeeded") /\ UNCHANGED env
Fail(c) ==
    /\ status[c] \in {"Progressing", "Succeeded"}
    /\ Report(c, "Failed") /\ Changed
Recover(c) ==
    /\ status[c] \in {"Failed", "TimeOut"}
    /\ Report(c, "Succeeded") /\ Changed
Skip(c) == status[c] \in {"None", "Succeeded"} /\ Report(c, "Skip") /\ Changed
\* A status function may apply the deadline as well.
TimeOut(c) == ReportsTimeOut /\ TimesOut(c) /\ Report(c, "TimeOut") /\ UNCHANGED env

\* What is applied to one cluster is no longer what is desired there.
Drift(c) ==
    /\ status[c] \in {"Succeeded", "Skip"}
    /\ drifts < MaxDrifts /\ drifts' = drifts + 1 /\ UNCHANGED changes
    /\ Report(c, "ToApply")

\* The workload is changed: none of the clusters that have it has the new one.
Revise ==
    /\ status' = [c \in Clusters |-> IF status[c] \in {"None", "Skip"} THEN status[c]
                                                                     ELSE "ToApply"]
    /\ status' # status
    /\ age' = [c \in Clusters |-> IF status'[c] # status[c] THEN 0 ELSE age[c]]
    /\ dirty' = TRUE
    /\ Changed
    /\ UNCHANGED <<strategy, placed, timer>>

\* A cluster joins or leaves the placement.
Moved(c) == IF c \in placed THEN placed \ {c} ELSE placed \cup {c}

Place(c) ==
    /\ placed' = Moved(c)
    /\ dirty' = TRUE
    /\ Changed
    /\ UNCHANGED <<strategy, status, age, timer>>

\* The tracker is refreshed between two reads of one decision: each read takes
\* its lock anew.
PlaceDuringDecision(c) ==
    /\ Changed
    /\ placed' = Moved(c)
    /\ \E k \in 2..3 : Decide([i \in 1..3 |-> IF i < k THEN placed ELSE placed'])
    /\ dirty' = TRUE

Tick ==
    /\ age' = [c \in Clusters |-> IF age[c] < Horizon THEN age[c] + 1 ELSE age[c]]
    /\ timer' = IF timer \in {None, 0} THEN timer ELSE timer - 1
    /\ <<age', timer'>> # <<age, timer>>
    /\ UNCHANGED <<strategy, placed, status, dirty, env>>

Next ==
    \/ Reconcile \/ Revise \/ Tick
    \/ \E c \in Clusters :
          \/ Succeed(c) \/ Fail(c) \/ Recover(c) \/ Skip(c) \/ TimeOut(c)
          \/ Drift(c) \/ Place(c) \/ PlaceDuringDecision(c)

Spec == Init /\ [][Next]_vars

\* The controller's queue is served, time passes, and a workload that does not
\* fail succeeds.
FairSpec == /\ Spec /\ WF_vars(Reconcile) /\ WF_vars(Tick)
            /\ \A c \in Clusters : WF_vars(Succeed(c))

-----------------------------------------------------------------------------
(* Properties.                                                             *)

\* What a step promises, it promises of the clusters that are in the placement
\* throughout the step, also when the decision has read two placements.
Staying == placed \cap placed'

\* The workload is applied to a cluster that did not have it.
Starts(c) == status[c] \in {"None", "ToApply"} /\ status'[c] = "Progressing"
Started   == {c \in Staying : Starts(c)}

InFlight(c) == status[c] = "Progressing" /\ ~TimesOut(c)

\* The number of clusters that the user of the API allows to fail, and whether
\* more of the clusters in S do than are allowed of a total.
Allowed(total) == IF MaxFailures.percent THEN (MaxFailures.n * total + 99) \div 100
                                         ELSE MaxFailures.n
TooMany(S, total) == Cardinality({c \in S : Failing(c)}) > Allowed(Cardinality(total))
Members(S, k) == {c \in S : GroupOf[c] = k}

Progressive == Type = "Progressive" /\ Mandatory = {}

\* A changed workload is renewed in the order of the names: no cluster has the new
\* one while a cluster before it has the old one.  progressivePerCluster looks no
\* further than a full list, and both promises below rest on this.
InNameOrder ==
    Progressive /\ drifts = 0 =>
        \A c, d \in Clusters : c < d /\ status[c] = "ToApply" =>
            status[d] \in {"None", "ToApply", "Skip"}

\* RolloutProgressive: "MaxConcurrency is the max number of clusters to deploy
\* workload concurrently".  It is kept for as long as no cluster falls back to
\* ToApply by itself.
WithinConcurrency ==
    [][Progressive /\ drifts = 0 /\ Started # {} =>
          Cardinality(Started \cup {c \in Staying : InFlight(c)})
            <= RolloutSize(MaxConcurrency, Cardinality(placed'), Cardinality(placed'))]_vars

\* RolloutConfig: "Once the MaxFailures is breached, the rollout will stop";
\* likewise.  A percentage is of the placement that the statuses were read with.
StopsWhenBreached ==
    [][Progressive /\ drifts = 0 /\ Started # {} => ~TooMany(Staying, placed)]_vars

\* A cluster the rollout need not wait for.
Done(c) == status[c] = "Skip" \/ (status[c] = "Succeeded" /\ age[c] >= MinSuccessTime)

\* RolloutStrategy: "The workload will not be applied to the next decisionGroup
\* unless all clusters in the current group reach the successful state and
\* haven't breached the MaxFailures configuration", a percentage of the group's
\* members when the groups were read.
GroupOrder ==
    [][Type = "ProgressivePerGroup" =>
          \A c \in Rest(Started) : \A d \in Rest(Staying) :
              GroupOf[d] < GroupOf[c] =>
                  (Done(d) \/ Failing(d)) /\ ~TooMany(Members(Staying, GroupOf[d]),
                                                   Members(placed', GroupOf[d]))]_vars

\* RolloutConfig: "the MaxFailures does not apply for MandatoryDecisionGroups,
\* which tolerate no failures".
MandatoryFirst ==
    [][Rest(Started) # {} => \A d \in InMandatory(Staying) : Done(d)]_vars

\* Once nothing changes any more, every cluster gets the workload, or failures
\* stop the rollout: whatever the handler waits for, somebody calls it again.
Stopped ==
    \/ TooMany(placed, placed)
    \/ \E c \in placed : Failing(c) /\ GroupOf[c] \in Mandatory
    \/ \E c \in placed : TooMany(Members(placed, GroupOf[c]), Members(placed, GroupOf[c]))
Completes ==
    <>[](\/ \A c \in placed : status[c] \in {"Succeeded", "Skip"} \/ Failing(c)
         \/ Stopped)
=============================================================================
