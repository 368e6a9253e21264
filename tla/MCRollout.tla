----------------------------- MODULE MCRollout -----------------------------
(***************************************************************************)
(* Instances of Rollout for TLC: three clusters in two decision groups.    *)
(***************************************************************************)
EXTENDS Rollout

\* Clusters 1 and 2 are in group 0, cluster 3 in group 1.
Groups01 == [c \in Clusters |-> IF c <= 2 THEN 0 ELSE 1]

One  == [percent |-> FALSE, n |-> 1]
Half == [percent |-> TRUE, n |-> 50]

\* One failure is tolerated, or half of the clusters when the threshold is Half.
Strategy(type, mandatory, threshold, soak, deadline) ==
    [Type |-> type, MandatoryDecisionGroups |-> mandatory,
     MaxConcurrency |-> threshold, MaxFailures |-> threshold,
     MinSuccessTime |-> soak, ProgressDeadline |-> deadline]

\* One cluster, or half of them, at a time without a mandatory group and one
\* with; group by group without a deadline, and with the last group mandatory and
\* a soak time longer than the deadline.
SafetyStrategies ==
    {Strategy("Progressive", {}, One, 1, 2), Strategy("Progressive", {}, Half, 0, 2),
     Strategy("Progressive", {0}, One, 1, 2),
     Strategy("ProgressivePerGroup", {}, One, 1, None),
     Strategy("ProgressivePerGroup", {1}, One, 2, 1)}

\* Every strategy with a deadline; a soak time longer than the deadline, none
\* at all, and one that is shorter.
LivenessStrategies ==
    {Strategy("ProgressivePerGroup", {}, One, 2, 1), Strategy("Progressive", {}, One, 0, 2),
     Strategy("All", {}, One, 1, 2)}
=============================================================================
