---------------------------- MODULE MCNestedRuns ----------------------------
(* Small instances of NestedRuns. *)
EXTENDS NestedRuns

CONSTANTS r1, r2, r3, t1, t2, t3

MCRuns == {r1, r2, r3}
MCTargets == {t1, t2, t3}
RunOrder == <<r1, r2, r3>>
TargetOrder == <<t1, t2, t3>>

\* Runs, and targets, differ in their names only, so one behaviour stands for
\* all that rename them: the ids are taken in order (they are UUIDs of version
\* 7), and the i-th Run takes one of the first i targets.
InOrder ==
  \A i \in 1..3 :
    /\ stage[RunOrder[i]] # "unused" => \A j \in 1..i : stage[RunOrder[j]] # "unused"
    /\ target[RunOrder[i]] \in {NoRun} \cup {TargetOrder[j] : j \in 1..i}

OrderedSpec == Init /\ [][Next /\ InOrder']_vars /\ Fairness
=============================================================================
