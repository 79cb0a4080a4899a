---------------------------- MODULE MCPhaseLoop ----------------------------
(* Small instances of PhaseLoop for TLC: how phases start in each run.     *)
EXTENDS PhaseLoop, TLC

Fresh(limit) ==
    [judge |-> FALSE, gateFirst |-> FALSE, reuse |-> FALSE, round |-> 0,
     limit |-> limit, grace |-> 0, waits |-> NoWaits]

\* A judge-first phase: resume of a stopped run, of a judge_pending run, and
\* the `retry` answer to a judge_pending question.
JudgeFirst(gateFirst, reuse) ==
    [Fresh(2) EXCEPT !.judge = TRUE, !.gateFirst = gateFirst, !.reuse = reuse,
                     !.round = 1]

\* The `more` answer and a wait in the middle of its chain.
More == [Fresh(2) EXCEPT !.round = 1, !.grace = 2]
Waited(n) == [Fresh(1) EXCEPT !.waits = n]

FreshStarts == {Fresh(3)}
ShortStarts == {Fresh(2)}
ResumedStarts ==
    {JudgeFirst(TRUE, FALSE), JudgeFirst(FALSE, FALSE), JudgeFirst(FALSE, TRUE),
     More, Waited(0), Waited(LimitWaits)}

AllStarts == ShortStarts \cup ResumedStarts

TreeSymmetry == Permutations(Trees \ {Base})
Symmetry == TreeSymmetry \cup Permutations(Findings)
=============================================================================
