------------------------------ MODULE Session ------------------------------
(***************************************************************************)
(* A run as a sequence of phases, over several processes: run_phases walks *)
(* the plan, questions end in a continuation of the phase, in debt, in a   *)
(* commit or in a stop, the owner may die at any moment, and `tero resume` *)
(* goes on from state.json and from the branch of the run.                 *)
(*                                                                         *)
(* A phase is reduced to what its two ends need: rounds that take          *)
(* snapshots, calls of the judge and the ways a phase halts (PhaseLoop has *)
(* the rest); an answer to a question is one step (Questions has the       *)
(* rest).  The branch of the run is the set of the phases committed on it: *)
(* `base` and the checkpoints are such sets.  A tree is the set of the     *)
(* phases its plan marks as done: at a commit these are the phases         *)
(* committed so far, in a ref one that was committed since is missing.     *)
(* Once a rollback has lost a commit the marks of that phase are not       *)
(* followed in the commits made after it.                                  *)
(***************************************************************************)
EXTENDS Naturals, FiniteSets

CONSTANTS N,           \* phases of the plan
          MaxDeaths,   \* bound: deaths of the owner
          MaxAsks      \* bound: questions

ASSUME SessionAssumption ==
    /\ N \in Nat \ {0}
    /\ MaxDeaths \in Nat /\ MaxAsks \in Nat

Phases == 1 .. N
Unset == {0}                        \* no base, no checkpoint
Points == (SUBSET Phases) \cup {Unset}
CrashLimit == 2

\* "fuse" stands for stuck too, whose actions it contains.
Actions ==
    [provider      |-> {"more", "model", "stop"},
     user          |-> {"answer", "skip", "stop"},
     fuse          |-> {"more", "model", "skip", "ship", "stop"},
     secrets       |-> {"allow", "again", "skip", "stop"},
     judge_pending |-> {"rejudge", "more", "accept", "skip", "stop"}]
Asked == DOMAIN Actions
Resumable == {"user", "fuse", "provider"}
Reasons == Asked \cup {"none", "resume", "crash", "crash_loop", "user_stop",
                       "snapshot_failed", "ship"}

\* first_kwargs and pending_extra.  answer is the phase whose question the
\* arguments answer, 0 when they answer none.
ArgsType == [judge : BOOLEAN, checkpoint : Points, answer : 0 .. N]
NoArgs == [judge |-> FALSE, checkpoint |-> Unset, answer |-> 0]

VARIABLES
    (* the owner *)
    pc, index, start, firstArgs, pending, judgeIndex, phaseCfg, baseCfg,
    restored, because,
    plan,       \* the marks the loop has read
    (* the branch of the run *)
    commits,
    marks,      \* the tree
    refMarks,   \* the tree of the snapshot `ref`
    (* state.json *)
    decisions, status, reason, phaseIndex, base, ref, question, crashes,
    crashPhase, debt, answerPhase,
    treeSha,    \* the tree at the question
    (* history *)
    lost,       \* phases whose commit a rollback took off the branch
    torn,       \* phases whose owner died in `accept`, committed, not closed
    inRow,      \* restarts after a death, since this phase was first begun
    deaths, asks

loopVars == <<firstArgs, pending, judgeIndex, phaseCfg, baseCfg>>
ownerVars == <<pc, index, start, loopVars, restored, because, plan>>
branchVars == <<commits, marks, lost>>
crashVars == <<crashes, crashPhase, inRow>>
snapVars == <<base, ref, refMarks>>
diskVars == <<decisions, debt, answerPhase, treeSha>>
history == <<torn, deaths, asks>>
vars == <<ownerVars, branchVars, diskVars, status, reason, phaseIndex,
          snapVars, question, crashVars, history>>

Working == {"round", "judge"}
PCs == Working \cup {"top", "asked", "landing", "ending", "off"}
InPhase == pc \in Working \cup {"asked"}

\* Commits carry a trailer when decisions are on.
Trailers == IF decisions THEN commits ELSE {}

Init ==
    /\ pc = "top" /\ index = 1
    /\ start = [judge |-> FALSE, checkpoint |-> {}, answer |-> 0, cfg |-> 0]
    /\ firstArgs = NoArgs /\ pending = NoArgs /\ judgeIndex = 0
    /\ phaseCfg = 0 /\ baseCfg = 0 /\ restored = FALSE /\ because = "none"
    /\ commits = {} /\ marks = {} /\ plan = {}
    /\ decisions \in BOOLEAN
    /\ status = "running" /\ reason = "none" /\ phaseIndex = 1
    /\ base = Unset /\ ref = FALSE /\ refMarks = {}
    /\ question = "none"
    /\ crashes = 0 /\ crashPhase = 1 /\ debt = {} /\ answerPhase = 0
    /\ treeSha = {}
    /\ lost = {} /\ torn = {} /\ inRow = [phase |-> 1, n |-> 0]
    /\ deaths = 0 /\ asks = 0

----------------------------------------------------------------------------
(* The loop of run_phases.                                                 *)

\* The run is over: done, with the exit code of the debt.
Finish ==
    /\ pc = "top" /\ index > N
    /\ pc' = "off"
    /\ status' = "done"
    /\ UNCHANGED <<index, start, loopVars, restored, because, plan,
                   branchVars, diskVars, reason, phaseIndex, snapVars,
                   question, crashVars, history>>

\* load_phases: the marks of the plan of a tree.  Mutated form: they are not
\* read.
Read_Nothing(tree) == {}
Read(tree) == tree
Undone == Phases \ plan

\* A done phase is passed over; `first` stays as it is.
PassDone ==
    /\ pc = "top" /\ index \in plan
    /\ index' = index + 1
    /\ UNCHANGED <<pc, start, loopVars, restored, because, plan, branchVars,
                   diskVars, status, reason, phaseIndex, snapVars, question,
                   crashVars, history>>

\* The first of the given points that is set, else the head of the branch.
FirstSet(p, q) == IF p # Unset THEN p ELSE IF q # Unset THEN q ELSE commits

StartArgs ==
    [judge      |-> firstArgs.judge \/ pending.judge \/ judgeIndex = index,
     checkpoint |-> FirstSet(pending.checkpoint, firstArgs.checkpoint),
     answer     |-> IF pending.answer # 0 THEN pending.answer
                                          ELSE firstArgs.answer,
     cfg        |-> IF phaseCfg = index THEN index ELSE baseCfg]

\* Mutated form: pending_extra is not emptied.
Emptied_Kept == pending
Emptied == NoArgs

\* The arguments are used up; phase_index is written by a phase that starts
\* with the player, a judge-first one does so after the judge.
BeginPhase ==
    /\ pc = "top" /\ index \in Undone
    /\ start' = StartArgs
    /\ firstArgs' = NoArgs /\ pending' = Emptied
    /\ phaseCfg' = IF phaseCfg = index THEN phaseCfg ELSE 0
    /\ IF start'.judge
          THEN pc' = "judge" /\ UNCHANGED phaseIndex
          ELSE pc' = "round" /\ phaseIndex' = index
    /\ inRow' = IF inRow.phase = index THEN inRow
                                       ELSE [phase |-> index, n |-> 0]
    /\ UNCHANGED <<index, judgeIndex, baseCfg, restored, because, plan,
                   branchVars, diskVars, status, reason, snapVars, question,
                   crashes, crashPhase, history>>

----------------------------------------------------------------------------
(* A phase, and how it halts.                                              *)

Snapshot == base' = start.checkpoint /\ ref' = TRUE /\ refMarks' = marks
NoSnapshot == UNCHANGED snapVars

\* rollback_with_snapshot: the tree and the branch go back.
RollBack ==
    /\ Snapshot
    /\ commits' = start.checkpoint /\ marks' = start.checkpoint
    /\ lost' = lost \cup (commits \ start.checkpoint)

\* open_question.
Ask(r) ==
    /\ decisions /\ asks < MaxAsks
    /\ pc' = "asked" /\ because' = r
    /\ status' = IF r = "judge_pending" THEN r ELSE "waiting_human"
    /\ reason' = r /\ question' = r /\ treeSha' = marks
    /\ asks' = asks + 1
    /\ UNCHANGED <<index, start, loopVars, restored, plan, branchVars,
                   decisions, debt, answerPhase, phaseIndex, crashVars,
                   torn, deaths>>

\* _old_halt, and every other stop: the tree goes back to the checkpoint,
\* unless its snapshot fails.
Stop(r) ==
    /\ pc' = "off"
    /\ status' = "stopped" /\ reason' = r /\ question' = "none"
    /\ RollBack \/ (UNCHANGED branchVars /\ (Snapshot \/ NoSnapshot))
    /\ UNCHANGED <<index, start, loopVars, restored, because, plan, diskVars,
                   phaseIndex, crashVars, history>>

\* A round with its gate: the snapshot of the player's work, then the judge
\* or the next round.
Round ==
    /\ pc = "round"
    /\ pc' \in Working
    /\ Snapshot
    /\ UNCHANGED <<index, start, loopVars, restored, because, plan,
                   branchVars, diskVars, status, reason, phaseIndex, question,
                   crashVars, history>>

\* The snapshot of a round fails, and so may the one of the halt.
RoundFails ==
    /\ pc = "round"
    /\ pc' = "off"
    /\ status' = "stopped" /\ reason' = "snapshot_failed" /\ question' = "none"
    /\ RollBack \/ (UNCHANGED <<branchVars, base, refMarks>> /\ ref' = FALSE)
    /\ UNCHANGED <<index, start, loopVars, restored, because, plan, diskVars,
                   phaseIndex, crashVars, history>>

\* A call that fails leaves no snapshot; the fuse is looked at first.
RoundHalts ==
    /\ pc = "round"
    /\ \E r \in {"provider", "fuse"} : (Ask(r) /\ NoSnapshot) \/ Stop(r)

\* The phase goes back to the player: for the judge's findings, a red gate
\* of a judge-first start, or a snapshot that failed.
JudgeReturns ==
    /\ pc = "judge"
    /\ pc' = "round" /\ phaseIndex' = index
    /\ Snapshot \/ NoSnapshot \/ (ref' = FALSE /\ UNCHANGED <<base, refMarks>>)
    /\ UNCHANGED <<index, start, loopVars, restored, because, plan,
                   branchVars, diskVars, status, reason, question, crashVars,
                   history>>

\* The verdict, the tester it calls, the secrets a ship meets.
JudgeHalts ==
    /\ pc = "judge"
    /\ \E r \in Asked :
          \/ Ask(r) /\ Snapshot
          \/ Stop(r) /\ (r = "judge_pending" => decisions)

\* Without decisions a pending judge ends the process, the tree stays.
JudgePends ==
    /\ pc = "judge" /\ ~decisions
    /\ pc' = "off"
    /\ status' = "judge_pending" /\ reason' = "judge_pending"
    /\ Snapshot
    /\ UNCHANGED <<index, start, loopVars, restored, because, plan,
                   branchVars, diskVars, phaseIndex, question, crashVars,
                   history>>

\* The mark in the plan and the commit of the tree with it.
Commit ==
    /\ marks' = marks \cup {index}
    /\ commits' = commits \cup {index}
    /\ UNCHANGED lost

\* _ship: the commit; the loop goes on.
JudgeShips ==
    /\ pc = "judge"
    /\ Commit
    /\ Snapshot
    /\ pc' = "top" /\ index' = index + 1
    /\ UNCHANGED <<start, loopVars, restored, because, plan, diskVars, status,
                   reason, phaseIndex, question, crashVars, torn, deaths,
                   asks>>

\* A raised flag: stop checks and resolve_step.
UserStop == pc \in Working \cup {"asked"} /\ Stop("user_stop")

\* crash_outcome: snapshot of the tree against the head the phase began at,
\* and back to it.
Exception ==
    /\ pc \in Working
    /\ pc' = "off"
    /\ status' = "stopped" /\ reason' = "crash"
    /\ \/ /\ base' = commits /\ ref' = TRUE /\ refMarks' = marks
          /\ marks' = commits
       \/ NoSnapshot /\ UNCHANGED marks
    /\ UNCHANGED <<index, start, loopVars, restored, because, plan, commits,
                   lost, diskVars, phaseIndex, question, crashVars, history>>

----------------------------------------------------------------------------
(* Answers (decision.resolve, decision.actions): run_phases goes on in the *)
(* same loop; a restored question begins a new one (_after_wait_decision). *)

Closed == status' = "running" /\ reason' = because /\ question' = "none"

\* The phase starts again with what the answer gives it.
GoOn(judge, point) ==
    LET args == [judge |-> judge, checkpoint |-> point, answer |-> index]
    IN  /\ pc' = "top"
        /\ Closed
        /\ restored' = FALSE
        /\ IF restored
              THEN /\ firstArgs' = [args EXCEPT !.checkpoint = base]
                   /\ UNCHANGED pending
              ELSE pending' = args /\ UNCHANGED firstArgs
        /\ UNCHANGED <<index, start, judgeIndex, because, plan, decisions,
                       debt, treeSha, phaseIndex, crashVars, history>>

SameCfg == UNCHANGED <<phaseCfg, baseCfg>>
SameTree == UNCHANGED <<branchVars, snapVars>>

\* `answer`: kept in state.json with its phase.
AnswerText ==
    /\ GoOn(FALSE, Unset) /\ answerPhase' = index
    /\ SameCfg /\ SameTree

\* more, retry, wait; reject of a pending judge.
AnswerMore ==
    /\ GoOn(FALSE, Unset)
    /\ SameCfg /\ SameTree /\ UNCHANGED answerPhase

\* The role is changed until the end of the phase; in a restored question,
\* for as long as this process lives.
AnswerModel ==
    /\ GoOn(FALSE, Unset)
    /\ IF restored THEN baseCfg' = index /\ UNCHANGED phaseCfg
                   ELSE phaseCfg' = index /\ UNCHANGED baseCfg
    /\ SameTree /\ UNCHANGED answerPhase

\* allow, and retry of a pending judge: the judge looks at the ref first.
AnswerJudge ==
    /\ GoOn(TRUE, start.checkpoint)
    /\ SameCfg /\ SameTree /\ UNCHANGED answerPhase

\* retry after secrets: the tree goes back first.
AnswerAgain ==
    \/ /\ GoOn(FALSE, Unset)
       /\ RollBack
       /\ SameCfg /\ UNCHANGED answerPhase
    \/ Stop(because)

\* The phase goes into debt and its work into a ref.
AnswerSkip ==
    \/ /\ pc' = "top" /\ index' = index + 1
       /\ Closed
       /\ RollBack
       /\ debt' = debt \cup {index} /\ answerPhase' = 0
       /\ restored' = FALSE
       /\ UNCHANGED <<start, loopVars, because, plan, decisions, treeSha,
                      phaseIndex, crashVars, history>>
    \/ Stop(because)

\* host_ship and _accept_manual: the commit of a person.  state.json still
\* has the question.
Land ==
    /\ pc' = "landing"
    /\ Commit
    /\ UNCHANGED <<index, start, loopVars, restored, because, plan, diskVars,
                   status, reason, phaseIndex, snapVars, question, crashVars,
                   torn, deaths, asks>>

\* Their last write closes it.
CloseLanding ==
    /\ pc = "landing"
    /\ Closed
    /\ restored' = FALSE
    /\ IF restored THEN pc' = "ending" /\ UNCHANGED index
                   ELSE pc' = "top" /\ index' = index + 1
    /\ UNCHANGED <<start, loopVars, because, plan, branchVars, diskVars,
                   phaseIndex, snapVars, crashVars, history>>

\* A restored question ends the run with its commit (_after_wait_decision).
EndRun ==
    /\ pc = "ending"
    /\ pc' = "off"
    /\ status' = "done" /\ reason' = "ship"
    /\ UNCHANGED <<index, start, loopVars, restored, because, plan,
                   branchVars, diskVars, phaseIndex, snapVars, question,
                   crashVars, history>>

\* A reason that was overwritten by a restore knows no ship.
AnswerShip == IF because = "fuse" THEN Land ELSE Stop(because)
AnswerAccept == (ref /\ Land) \/ Stop(because)

Answer ==
    /\ pc = "asked"
    /\ \E a \in Actions[question] :
          \/ a = "answer" /\ AnswerText
          \/ a = "more" /\ AnswerMore
          \/ a = "model" /\ AnswerModel
          \/ a \in {"allow", "rejudge"} /\ AnswerJudge
          \/ a = "again" /\ AnswerAgain
          \/ a = "skip" /\ AnswerSkip
          \/ a = "ship" /\ AnswerShip
          \/ a = "accept" /\ AnswerAccept
          \/ a = "stop" /\ Stop(because)

----------------------------------------------------------------------------
(* Death and resume.                                                       *)

\* The owner dies at any step; a question, a stop or a skip may have taken
\* the tree back already, and written nothing yet.
Die ==
    /\ pc # "off" /\ deaths < MaxDeaths
    /\ pc' = "off" /\ deaths' = deaths + 1
    /\ UNCHANGED <<branchVars, snapVars>> \/ (InPhase /\ RollBack)
    /\ torn' = IF pc = "landing" /\ status = "judge_pending"
                  THEN torn \cup {index} ELSE torn
    /\ UNCHANGED <<index, start, loopVars, restored, because, plan, diskVars,
                   status, reason, phaseIndex, question, crashVars, asks>>

\* A new process enters run_phases at phase n.
Enter(n, args, judge) ==
    /\ pc = "off"
    /\ pc' = "top" /\ index' = n
    /\ firstArgs' = args /\ judgeIndex' = judge
    /\ pending' = NoArgs /\ phaseCfg' = 0 /\ baseCfg' = 0
    /\ restored' = FALSE
    /\ UNCHANGED <<start, because, commits, lost>>

\* What it reads: the head of the branch, or the ref.
FromHead == marks' = commits /\ plan' = Read(commits)
FromRef == marks' = refMarks /\ plan' = Read(refMarks)

\* pre_lock_refusal: somebody went on on the branch of the run.
BranchAhead == base # commits

\* A stopped run: the ref is restored, then the gate and the judge see it; the
\* plan is that of the base.
ResumeStopped ==
    /\ status = "stopped" /\ reason \in Resumable
    /\ ref /\ ~BranchAhead
    /\ Enter(phaseIndex,
             [judge |-> TRUE, checkpoint |-> base, answer |-> 0], 0)
    /\ marks' = refMarks /\ plan' = Read(base)
    /\ status' = "running" /\ reason' = "resume"
    /\ UNCHANGED <<diskVars, phaseIndex, snapVars, question, crashVars,
                   history>>

\* A pending judge: the phase starts with the judge on the ref.
ResumePending ==
    /\ status = "judge_pending"
    /\ ref /\ base # Unset
    /\ Enter(phaseIndex, [judge |-> FALSE, checkpoint |-> base, answer |-> 0],
             phaseIndex)
    /\ FromRef
    /\ status' = "running" /\ reason' = "resume"
    /\ UNCHANGED <<diskVars, phaseIndex, snapVars, question, crashVars,
                   history>>

Dead == pc = "off" /\ status \in {"running", "waiting_human"}
Count == IF crashPhase = phaseIndex THEN crashes ELSE 0
CrashLoop == Count >= CrashLimit

\* Mutated form: the counter starts again.
Bumped_One == 1
Bumped == Count + 1

\* One more restart of the phase; a forced one begins the row anew.
Bump(force) ==
    /\ crashes' = Bumped /\ crashPhase' = phaseIndex
    /\ inRow' = [phase |-> phaseIndex,
                 n |-> IF force THEN 0
                       ELSE IF inRow.phase = phaseIndex THEN inRow.n + 1
                       ELSE 1]

RefuseCrashLoop ==
    /\ Dead /\ CrashLoop
    /\ status' = "stopped" /\ reason' = "crash_loop"
    /\ crashes' = Bumped /\ crashPhase' = phaseIndex
    /\ UNCHANGED <<ownerVars, branchVars, diskVars, phaseIndex, snapVars,
                   question, inRow, history>>

\* make_wait_runner: a runner that only asks, on the base of state.json.
WaitRunner == [judge |-> FALSE, checkpoint |-> base, answer |-> 0, cfg |-> 0]

\* The owner waits again for the answer, with the reason it read.
WaitAgain ==
    /\ pc' = "asked" /\ index' = phaseIndex /\ restored' = TRUE
    /\ start' = WaitRunner
    /\ because' = reason
    /\ firstArgs' = NoArgs /\ pending' = NoArgs /\ judgeIndex' = 0
    /\ phaseCfg' = 0 /\ baseCfg' = 0
    /\ plan' = Read(marks)

\* The same tree and an open question: it is asked again.
RestoreQuestion(force) ==
    /\ status = "waiting_human" /\ question # "none" /\ base # Unset
    /\ treeSha = marks
    /\ WaitAgain
    /\ reason' = "resume"
    /\ Bump(force)
    /\ UNCHANGED <<branchVars, diskVars, status, phaseIndex, snapVars,
                   question, history>>

\* phase_shipped.  Mutated form: any trailer of the run counts.
Shipped_Any == base # Unset /\ Trailers \ base # {}
Shipped == base # Unset /\ phaseIndex \in Trailers \ base

\* The phase with this number, else the first that is not done at the head.
Unmarked == Phases \ Read(commits)
PhaseAt(n) ==
    IF n \in Phases THEN n
    ELSE CHOOSE p \in Unmarked : \A q \in Unmarked : p <= q

\* The commit is there, state.json is behind it.
CatchUp ==
    /\ Shipped
    /\ crashes' = 0 /\ crashPhase' = phaseIndex + 1
    /\ inRow' = [phase |-> phaseIndex + 1, n |-> 0]
    /\ phaseIndex' = phaseIndex + 1
    /\ question' = "none"
    /\ IF phaseIndex = N /\ Unmarked = {}
          THEN /\ status' = "done" /\ reason' = "ship"
               /\ marks' = commits
               /\ UNCHANGED <<ownerVars, commits, lost>>
          ELSE /\ Enter(PhaseAt(phaseIndex + 1), NoArgs, 0) /\ FromHead
               /\ status' = "running" /\ reason' = "resume"
    /\ UNCHANGED <<diskVars, snapVars, history>>

\* The phase runs again from the head of the branch, with the answer it had.
RunAgain(force) ==
    /\ ~Shipped
    /\ phaseIndex \in Phases \/ Unmarked # {}
    /\ Bump(force)
    /\ Enter(PhaseAt(phaseIndex),
             [judge |-> FALSE, checkpoint |-> commits,
              answer |-> IF answerPhase = phaseIndex THEN answerPhase
                                                     ELSE 0], 0)
    /\ FromHead
    /\ status' = "running" /\ reason' = "resume" /\ question' = "none"
    /\ UNCHANGED <<diskVars, phaseIndex, snapVars, history>>

\* crash_resume: `--force` overrides the limit.
ResumeDead ==
    /\ Dead
    /\ \E force \in BOOLEAN :
          /\ CrashLoop => force
          /\ RestoreQuestion(force) \/ CatchUp \/ RunAgain(force)

----------------------------------------------------------------------------
\* Nobody resumes, or resume refuses.
Over == pc = "off" /\ UNCHANGED vars

PhaseStep ==
    Round \/ RoundFails \/ RoundHalts \/ JudgeReturns \/ JudgeHalts
        \/ JudgePends \/ JudgeShips \/ UserStop \/ Exception
Resume == ResumeStopped \/ ResumePending \/ RefuseCrashLoop \/ ResumeDead

Next ==
    \/ Finish \/ PassDone \/ BeginPhase \/ PhaseStep
    \/ Answer \/ CloseLanding \/ EndRun
    \/ Die \/ Resume \/ Over

Spec == Init /\ [][Next]_vars

----------------------------------------------------------------------------
(* Properties                                                              *)

TypeOK ==
    /\ pc \in PCs /\ index \in 1 .. N + 1
    /\ start \in [judge : BOOLEAN, checkpoint : Points, answer : 0 .. N,
                  cfg : 0 .. N]
    /\ firstArgs \in ArgsType /\ pending \in ArgsType
    /\ judgeIndex \in 0 .. N /\ phaseCfg \in 0 .. N /\ baseCfg \in 0 .. N
    /\ restored \in BOOLEAN /\ because \in Reasons
    /\ commits \subseteq Phases /\ lost \subseteq Phases
    /\ marks \subseteq Phases /\ refMarks \subseteq Phases
    /\ plan \subseteq Phases /\ treeSha \subseteq Phases
    /\ debt \subseteq Phases /\ torn \subseteq Phases
    /\ decisions \in BOOLEAN
    /\ status \in {"running", "waiting_human", "judge_pending", "stopped",
                   "done"}
    /\ reason \in Reasons
    /\ phaseIndex \in 1 .. N + 1 /\ crashPhase \in 1 .. N + 1
    /\ base \in Points /\ ref \in BOOLEAN
    /\ question \in Asked \cup {"none"}
    /\ crashes \in Nat /\ answerPhase \in 0 .. N
    /\ inRow \in [phase : 1 .. N + 1, n : Nat]
    /\ deaths \in 0 .. MaxDeaths /\ asks \in 0 .. MaxAsks

\* A phase is worked on, or asked about, only when each earlier one was
\* committed or put into debt, whatever deaths and restarts lie between
\* (run_phases, crash.dispatch, _continue_after_crash).
PhasesInOrder ==
    InPhase => \A n \in 1 .. index - 1 : n \in commits \cup lost \cup debt

\* A phase whose commit is on the branch is not worked on again, neither by
\* the loop nor after a death between the commit and the next write of
\* state.json, but in one case: the owner died in `accept` (_accept_manual)
\* after the commit and before the question was closed, state.json says
\* judge_pending, and _resume_phases restores the ref, whose plan has no mark.
\* A phase whose commit was lost has to be done again, and what the trees say
\* of it from then on is not looked at.
CommittedOnce == InPhase => index \notin commits \ (torn \cup lost)

\* What was committed stays committed: questions, skips, stops and restarts
\* roll back to the checkpoint of the phase, which holds every earlier commit.
CommitsStay == lost = {}

\* The answer and the role a person gives for one phase reach no other one:
\* arguments of a start are used up by it (run_phases), those of a restart
\* belong to the phase that died (_continue_after_crash).  When a commit was
\* lost, a restart may pass over its own phase to the lost one; and over a
\* phase that is worked on though it is committed (see CommittedOnce).
ArgsAreOwn ==
    InPhase /\ CommitsStay /\ torn = {} =>
        /\ start.answer \in {0, index}
        /\ start.cfg \in {0, index, baseCfg}

\* A phase is restarted after a death at most twice with no other phase begun
\* in between, unless a person forces it (crash.dispatch, _bump_crashes).
CrashLoopEnds == inRow.n <= CrashLimit

----------------------------------------------------------------------------
(* The inductive invariant behind PhasesInOrder, CommittedOnce and         *)
(* CrashLoopEnds.                                                          *)

Landed == commits \cup lost

\* The phases of which the trees may say something else than the branch.
Astray == torn \cup lost

\* What a phase may roll back to is on the branch.
Behind(p) == p = Unset \/ p \subseteq commits

BranchBehind ==
    /\ Behind(base)
    /\ pc = "top" => Behind(firstArgs.checkpoint) /\ Behind(pending.checkpoint)
    /\ InPhase => start.checkpoint \subseteq commits

\* A tree marks no phase that was never committed, and lacks a mark of a
\* commit only where something went astray: the one of the working tree, the
\* ref that may be restored, and what the loop has still before it.
TreesAgree ==
    /\ marks \subseteq Landed /\ refMarks \subseteq Landed
    /\ plan \subseteq Landed
    /\ commits \subseteq marks \cup Astray
    /\ base # Unset => base \subseteq refMarks \cup Astray
    /\ status = "judge_pending" =>
           \A n \in commits \ (refMarks \cup Astray) :
              pc = "landing" /\ n = index
    /\ pc # "off" => \A n \in commits : n > index => n \in plan \cup Astray
    /\ pc = "top" /\ index \in commits => index \in plan \cup Astray

\* The loop and state.json are behind no phase that was passed over.
Past(n) == \A m \in 1 .. n - 1 : m \in Landed \cup debt
PastOthers == Past(index) /\ Past(phaseIndex)

\* state.json names the phase of the loop.
AtThePhase == phaseIndex \in {index} \cup Astray

\* A process that is in a phase, or about to start one with the judge.
JudgeFirst == firstArgs.judge \/ pending.judge \/ judgeIndex = index

AtWork ==
    /\ InPhase \/ pc = "landing" =>
           /\ index \in Phases /\ AtThePhase
           /\ firstArgs = NoArgs /\ pending = NoArgs
    /\ InPhase => index \notin commits \ Astray
    /\ pc = "landing" => index \in commits
    /\ pc = "top" /\ JudgeFirst =>
           AtThePhase /\ (index = phaseIndex => index \notin plan \ Astray)
    /\ pc # "off" => judgeIndex <= index
    /\ pc \in Working \cup {"top", "ending"} => status = "running" /\ ~restored
    /\ pc \in {"asked", "landing"} =>
           status \in {"waiting_human", "judge_pending"}
    /\ pc = "asked" /\ restored => start.checkpoint = base

\* What a process leaves that ended inside a phase: the phase is not on the
\* branch, or it was not in the tree of the question.
LeftInPhase ==
    \/ status = "judge_pending" /\ pc # "landing"
    \/ status = "stopped" /\ reason \in Resumable

LeftOnUndone ==
    /\ LeftInPhase => phaseIndex \in Phases \ (commits \ Astray)
    /\ status = "waiting_human" => phaseIndex \in Phases \ (treeSha \ Astray)

\* The counter of the code is not behind the restarts it counts.
Counted ==
    /\ inRow.n <= CrashLimit
    /\ IF inRow.phase = crashPhase THEN inRow.n <= crashes ELSE inRow.n = 0

SessionInv ==
    /\ TypeOK
    /\ BranchBehind
    /\ TreesAgree
    /\ PastOthers
    /\ AtWork
    /\ LeftOnUndone
    /\ Counted
=============================================================================
