----------------------------- MODULE PhaseLoop -----------------------------
(***************************************************************************)
(* One phase of a run: the round "player -> suite guard -> gate -> judge   *)
(* -> tester" of src/src/loop/phase.py (_PhaseRunner.run) with the steps   *)
(* it calls: judge_step, verdict_step, snapshot_step, stop_step,           *)
(* progress_step, tester_step, compact_step, resume/entry, the halting     *)
(* half of decision/step and crash_step.                                   *)
(*                                                                         *)
(* Abstractions:                                                           *)
(*  - a working tree, a git tree object and a commit are members of Trees; *)
(*    Base is the tree of the checkpoint commit the phase started from;    *)
(*  - a finding is a member of Findings; what the judge writes about it    *)
(*    (file, line, level) is dropped, "the set of findings shrank" and     *)
(*    "the same tests are red again" are free choices of the replies;      *)
(*  - agents, tests and git may do anything their callers handle: every    *)
(*    reply kind, every new tree, every failing snapshot or commit;        *)
(*  - prompts, journals, the stream and console output are left out;       *)
(*  - the `situational` escalation mode is not in this module.             *)
(***************************************************************************)
EXTENDS Integers, FiniteSets

CONSTANTS
    Trees,          \* contents the working tree can have
    Base,           \* the tree of the phase checkpoint
    NoTree,         \* "no such tree": an unset ref, no commit yet
    Findings,       \* ids of judge findings
    RoundBound,     \* bound: no start reaches a round above this one
    Starts,         \* how the phase is entered (see StartType)
    Decisions,      \* cfg.decisions: halts open a question
    Escalates,      \* cfg.escalation_provider is set
    EscalateAt,     \* cfg.escalate_at_round, 0 when not configured
    Scheduled,      \* cfg.player_schedule is set
    HasTests,       \* a test command was found
    HasTester,      \* not cfg.no_tester and the command can run single files
    Scoped,         \* cfg.gate_scope = "changed"
    GateWrites,     \* running the tests may leave changes in the tree
    CompactLimit,   \* compactions of the player per round (3)
    JudgeMaxFailures,     \* _JUDGE_MAX_FAILURES (3)
    NeedsUserMaxAttempts, \* _NEEDS_USER_MAX_ATTEMPTS (3)
    KMax                  \* K_MAX (2)

LimitWaits == 3     \* len(LIMIT_WAITS_S)
NoWaits == -1       \* limit_chain() is None
CrashRef == 0       \* refs/tero/<run>/phase-NN-crash
CompactRef == RoundBound + 1    \* the latest ...-compactN ref of the phase
RefNames == 0 .. RoundBound + 1
NoRef == -1         \* snapshot_ref = "" in state.json

\* What session.run_phases and resume pass to run_phase.
StartType ==
    [judge : BOOLEAN,       \* start_with_judge
     gateFirst : BOOLEAN,   \* resume_from.gate_first
     reuse : BOOLEAN,       \* resume_from.judge_reuse_ref
     round : 0 .. RoundBound,   \* start_round
     limit : 0 .. RoundBound,   \* what round_limit() returns
     grace : 0 .. RoundBound,   \* resume_from.grace_until
     waits : {NoWaits} \cup 0 .. LimitWaits]    \* limit_wait of state.json

ASSUME TreesAssumption == Base \in Trees /\ NoTree \notin Trees
ASSUME BoundsAssumption ==
    /\ RoundBound \in Nat
    /\ EscalateAt \in Nat
    /\ CompactLimit \in Nat
    /\ JudgeMaxFailures \in Nat \ {0}
    /\ NeedsUserMaxAttempts \in Nat \ {0}
    /\ KMax \in Nat \ {0}
ASSUME FlagsAssumption ==
    {Decisions, Escalates, Scheduled, HasTests, HasTester, Scoped, GateWrites}
        \subseteq BOOLEAN
ASSUME StartsAssumption ==
    /\ Starts \subseteq StartType
    /\ \A s \in Starts : s.reuse => s.judge /\ ~s.gateFirst

VARIABLES
    start,      \* how this phase was entered
    pc,         \* where the owner of the run is
    cause,      \* the reason of the halt or of judge_pending being made
    round,      \* st.round
    tree,       \* the working tree
    refs,       \* refs/tero/<run>/phase-...: the tree each snapshot ref holds
    snapRef,    \* snapshot_ref of state.json
    stopFlag,   \* inbox/stop.json is there and the run is live
    judgeRef,   \* the ref the judge call looks at
    entered,    \* the judge was reached from ResumeStep.enter, not the round
    judgeFails, \* st.judge_failures
    needsUser,  \* st.needs_user_attempts
    judgeCompacted, \* st.judge_compact_used
    crashes,    \* st.player_crashes
    hadCrash,   \* st.had_crash
    resumed,    \* st.resume_active
    compacts,   \* st.compact_count
    escalated,  \* st.escalated
    kFlat,      \* st.kmax_flat
    kPrev,      \* st.kmax_prev is not None
    open,       \* ids of st.open_findings
    guarded,    \* ids with a protected red test (st.protected_by_id)
    testerOn,   \* ctx.tester_enabled
    seenRed,    \* st.last_red_fp or st.last_red_tree is set
    greenFull,  \* st.last_green_full_tree
    commit,     \* the tree committed by _ship, NoTree before it
    out         \* the PhaseOutcome

\* History of the phase, for the properties only.
VARIABLES
    gated,      \* the tree the last green (or absent) gate left behind
    approved,   \* the tree the judge said SHIP to
    fullOk,     \* trees on which the whole suite was green
    halted,     \* the trees a halt or a crash removed from the working tree
    escPlayed   \* the escalation player was called

tVars == <<tree, refs, snapRef>>
jVars == <<judgeRef, entered, judgeFails, needsUser, judgeCompacted>>
pVars == <<crashes, hadCrash, resumed, compacts>>
kVars == <<kFlat, kPrev>>
fVars == <<open, guarded, testerOn>>
gVars == <<seenRed, greenFull, gated, fullOk>>
oVars == <<commit, out>>
vars == <<start, pc, cause, round, tVars, stopFlag, jVars, pVars, escalated,
          kVars, fVars, gVars, oVars, approved, halted, escPlayed>>

\* What every action of the player, of the judge, of the tester and of the
\* end of a phase leaves alone.
playerRest == <<start, round, stopFlag, jVars, escalated, kVars, fVars,
                gVars, oVars, approved, halted>>
judgeRest == <<start, round, refs, snapRef, stopFlag, judgeRef, entered,
               pVars, escalated, kVars, fVars, gVars, oVars, halted,
               escPlayed>>
testerRest == <<start, round, refs, snapRef, stopFlag, jVars, pVars,
                escalated, kVars, gVars, oVars, approved, halted, escPlayed>>
endRest == <<start, round, stopFlag, jVars, pVars, escalated, kVars, fVars,
             gVars, approved, escPlayed>>

Statuses == {"none", "ship", "stop", "waiting_human", "waiting_limit",
             "judge_pending"}
ProviderReasons == {"provider_unavailable", "provider_auth", "provider_quota"}
PendingReasons == {"judge_failed", "judge_auth", "judge_quota", "needs_user"}
AskedReasons == {"user", "stuck", "fuse", "secrets"} \cup ProviderReasons
Reasons == AskedReasons \cup PendingReasons
             \cup {"none", "ship", "snapshot_failed", "user_stop",
                   "judge_pending", "crash"}
PCs == {"enter", "enterJudge", "top", "launch", "player", "protect",
        "gate", "judge", "fullGate", "ship", "tester", "halt", "pending",
        "raised", "done"}

Outcome(status, reason, sha) ==
    [status |-> status, reason |-> reason, sha |-> sha]
NoOut == Outcome("none", "none", NoTree)

InContinuation == hadCrash /\ resumed

----------------------------------------------------------------------------
\* A fresh phase starts on its checkpoint.  A resumed one finds its work in
\* the tree and in the ref of its round; before a judge-first start without
\* gate_first the process that asked for it had a green gate on that work.
Init ==
    /\ start \in Starts
    /\ pc = IF start.judge THEN "enter" ELSE "top"
    /\ cause = "none"
    /\ round = start.round
    /\ \E work \in Trees :
          IF start.judge \/ start.round > 0
          THEN /\ IF start.reuse THEN tree \in Trees ELSE tree = work
               /\ refs = [n \in RefNames |->
                            IF n = start.round THEN work ELSE NoTree]
               /\ snapRef = start.round
               /\ gated = IF start.judge /\ ~start.gateFirst
                             THEN work ELSE NoTree
          ELSE /\ tree = Base
               /\ refs = [n \in RefNames |-> NoTree]
               /\ snapRef = NoRef
               /\ gated = NoTree
    /\ stopFlag = FALSE
    /\ judgeRef = NoRef /\ entered = FALSE
    /\ judgeFails = 0 /\ needsUser = 0 /\ judgeCompacted = FALSE
    /\ crashes = 0 /\ hadCrash = FALSE /\ resumed = FALSE /\ compacts = 0
    /\ escalated = FALSE
    /\ kFlat = 0 /\ kPrev = FALSE
    /\ open = {} /\ guarded = {}
    /\ testerOn = (HasTester /\ HasTests)
    /\ seenRed = FALSE /\ greenFull = NoTree /\ fullOk = {}
    /\ commit = NoTree /\ out = NoOut
    /\ approved = NoTree
    /\ halted = {}
    /\ escPlayed = FALSE

----------------------------------------------------------------------------
(* Helpers.                                                                *)

\* take_snapshot + verify of tree t under a ref name.
SnapshotOk(t, name) ==
    /\ refs' = [refs EXCEPT ![name] = t]
    /\ snapRef' = name

\* A failed snapshot is reported and clears snapshot_ref.
SnapshotFailed ==
    /\ snapRef' = NoRef
    /\ UNCHANGED refs

\* rollback_with_snapshot: the whole of it, or no snapshot and an untouched
\* tree.  Mutated form: the snapshot is taken after the rollback.
RollbackOk_SnapshotLast ==
    /\ SnapshotOk(Base, round)
    /\ tree' = Base
RollbackOk ==
    /\ SnapshotOk(tree, round)
    /\ tree' = Base
RollbackSkipped == UNCHANGED tVars

\* The first lack of progress hands the next round to the escalation model.
\* Mutated form: it escalates and stops in the same call.
EscalateOnce_Stops(b) ==
    /\ Escalates /\ ~escalated
    /\ b = TRUE
    /\ escalated' = TRUE
EscalateOnce(b) ==
    /\ Escalates /\ ~escalated
    /\ b = FALSE
    /\ escalated' = TRUE

\* progress_step.check_no_progress; b is its result.
NoProgress(b) ==
    \/ /\ Scheduled
       /\ b = FALSE
       /\ UNCHANGED escalated
    \/ /\ ~Scheduled /\ EscalateAt # 0
       /\ b = (round >= EscalateAt)
       /\ UNCHANGED escalated
    \/ ~Scheduled /\ EscalateAt = 0 /\ EscalateOnce(b)
    \/ /\ ~Scheduled /\ EscalateAt = 0 /\ (Escalates => escalated)
       /\ b = (round > start.grace)
       /\ UNCHANGED escalated

\* player_identity(): this round is played by the escalation model.
EscalationPlays ==
    /\ ~Scheduled
    /\ Escalates
    /\ IF EscalateAt # 0 THEN round = EscalateAt ELSE escalated

Goto(label) ==
    /\ pc' = label
    /\ UNCHANGED cause

\* `return self._halt(reason)`: the halt itself is action Halt.
HaltFor(reason) ==
    /\ pc' = "halt"
    /\ cause' = reason

\* A stop check of stop_step, then the next step.  Mutated form: no check.
CheckStop_Dropped(label) == Goto(label)
CheckStop(label) == IF stopFlag THEN HaltFor("user_stop") ELSE Goto(label)

\* stuck or one more round, unless this is a round of continuation.
NextRoundUnlessStuck ==
    IF InContinuation
       THEN Goto("top") /\ UNCHANGED escalated
       ELSE \E b \in BOOLEAN :
               /\ NoProgress(b)
               /\ IF b THEN HaltFor("stuck") ELSE Goto("top")

----------------------------------------------------------------------------
(* The stop flag, written by `tero stop` or from the phone at any moment.  *)
RaiseStop ==
    /\ pc # "done"
    /\ ~stopFlag
    /\ stopFlag' = TRUE
    /\ UNCHANGED <<start, pc, cause, round, tVars, jVars, pVars, escalated,
                   kVars, fVars, gVars, oVars, approved, halted, escPlayed>>

----------------------------------------------------------------------------
(* The top of the loop and the player.                                     *)
NextRound ==
    /\ pc = "top"
    /\ \/ /\ round + 1 > start.limit
          /\ HaltFor("fuse")
          /\ UNCHANGED round
       \/ /\ round + 1 <= start.limit
          /\ round' = round + 1
          /\ Goto("launch")
    /\ UNCHANGED <<start, tVars, stopFlag, jVars, pVars, escalated, kVars,
                   fVars, gVars, oVars, approved, halted, escPlayed>>

LaunchPlayer ==
    /\ pc = "launch"
    /\ CheckStop("player")
    /\ IF stopFlag
          THEN UNCHANGED <<compacts, judgeCompacted, escPlayed>>
          ELSE /\ compacts' = 0
               /\ judgeCompacted' = FALSE
               /\ escPlayed' = (escPlayed \/ EscalationPlays)
    /\ UNCHANGED <<start, round, tVars, stopFlag, judgeRef, entered, judgeFails,
                   needsUser, crashes, hadCrash, resumed, escalated, kVars,
                   fVars, gVars, oVars, approved, halted>>

\* A reply, also one that does not validate (`valid` FALSE).  Whatever it is,
\* the player leaves some tree behind.
PlayerReplies(t, valid) ==
    /\ pc = "player"
    /\ tree' = t
    /\ \/ /\ SnapshotOk(t, round)
          /\ resumed' = (resumed \/ valid)
       \/ /\ SnapshotFailed
          /\ UNCHANGED resumed
    /\ crashes' = 0
    /\ CheckStop("protect")
    /\ UNCHANGED <<playerRest, hadCrash, compacts, escPlayed>>

PlayerCrashes(t) ==
    /\ pc = "player"
    /\ tree' = t
    /\ SnapshotOk(t, round) \/ SnapshotFailed
    /\ crashes' = crashes + 1
    /\ hadCrash' = TRUE
    /\ resumed' = TRUE
    /\ IF crashes' >= 2 /\ ~stopFlag
          THEN HaltFor("provider_unavailable")
          ELSE CheckStop("top")
    /\ UNCHANGED <<playerRest, compacts, escPlayed>>

\* Not logged in or out of quota: no snapshot, the halt decides what is next.
PlayerRefused(t, reason) ==
    /\ pc = "player"
    /\ tree' = t
    /\ HaltFor(reason)
    /\ UNCHANGED <<playerRest, refs, snapRef, pVars, escPlayed>>

MayCompact == compacts < CompactLimit
\* Mutated form: compactions are not counted.
CountCompact_Not == UNCHANGED compacts
CountCompact == compacts' = compacts + 1

CompactFailed == HaltFor("snapshot_failed")

\* _record_compact: the work in a -compactN ref, and the player called again
\* on it; without the ref there is nothing to brief the next call with.
RecordCompact(t) ==
    \/ /\ SnapshotOk(t, CompactRef)
       /\ resumed' = TRUE
       /\ Goto("player")
    \/ /\ SnapshotFailed
       /\ CompactFailed
       /\ UNCHANGED resumed

\* A player that compacted; above the limit it was not asked to, and the
\* phase halts.
PlayerCompacts(t) ==
    /\ pc = "player"
    /\ tree' = t
    /\ \/ MayCompact /\ CountCompact /\ RecordCompact(t)
       \/ /\ ~MayCompact
          /\ CompactFailed
          /\ UNCHANGED <<refs, snapRef, compacts, resumed>>
    /\ UNCHANGED <<playerRest, crashes, hadCrash, escPlayed>>

----------------------------------------------------------------------------
(* The suite guard and the gate.                                           *)

\* protect_tests puts changed tests and agent configs back (t is the tree it
\* leaves); only a deleted or a changed protected test burns the round.
ProtectTests(t, violated) ==
    /\ pc = "protect"
    /\ tree' = t
    /\ IF violated
          THEN NextRoundUnlessStuck
          ELSE CheckStop("gate") /\ UNCHANGED escalated
    /\ UNCHANGED <<start, round, refs, snapRef, stopFlag, jVars, pVars, kVars,
                   fVars, gVars, oVars, approved, halted, escPlayed>>

\* What the tests leave in the tree.
AfterTests(t) == t = tree \/ (HasTests /\ GateWrites)

\* _gate said green (full: the whole suite ran) and left tree t behind.
PassGate(t, full) ==
    /\ HasTests => (full \/ Scoped)
    /\ tree' = t
    /\ gated' = t
    /\ fullOk' = IF HasTests /\ full THEN fullOk \cup {t} ELSE fullOk
    /\ greenFull' = IF HasTests /\ full /\ Scoped THEN t ELSE greenFull

\* The judge sees a fresh snapshot of the round; no snapshot, no judge: the
\* round ends as one more NEXT.
CallJudge(t) ==
    \/ /\ SnapshotOk(t, round)
       /\ judgeRef' = round
       /\ Goto("judge")
    \/ /\ SnapshotFailed
       /\ Goto("top")
       /\ UNCHANGED judgeRef

GateGreen(t, full) ==
    /\ pc = "gate"
    /\ AfterTests(t)
    /\ PassGate(t, full)
    /\ IF stopFlag
          THEN HaltFor("user_stop") /\ UNCHANGED <<refs, snapRef, judgeRef>>
          ELSE CallJudge(t)
    /\ entered' = FALSE
    /\ UNCHANGED <<start, round, stopFlag, judgeFails, needsUser,
                   judgeCompacted, pVars, escalated, kVars, fVars, seenRed,
                   oVars, approved, halted, escPlayed>>

\* `same`: the failures, or the tree when they have no names, are those of
\* the last red gate.
GateRed(t, same) ==
    /\ pc = "gate"
    /\ HasTests
    /\ AfterTests(t)
    /\ tree' = t
    /\ IF stopFlag
          THEN HaltFor("user_stop") /\ UNCHANGED <<seenRed, escalated>>
          ELSE /\ same => seenRed
               /\ seenRed' = TRUE
               /\ IF same THEN NextRoundUnlessStuck
                          ELSE Goto("top") /\ UNCHANGED escalated
    /\ UNCHANGED <<start, round, refs, snapRef, stopFlag, jVars, pVars, kVars,
                   fVars, greenFull, gated, fullOk, oVars, approved, halted,
                   escPlayed>>

----------------------------------------------------------------------------
(* ResumeStep.enter: a judge-first phase.                                  *)

\* gate_first: protect_tests (its result is ignored) and the gate.
EnterGate(t, ok, full) ==
    /\ pc = "enter"
    /\ start.gateFirst
    /\ resumed' = TRUE
    /\ IF ok
          THEN /\ PassGate(t, full)
               /\ Goto("enterJudge")
          ELSE /\ HasTests
               /\ tree' = t
               /\ Goto("top")
               /\ UNCHANGED <<gated, fullOk, greenFull>>
    /\ UNCHANGED <<start, round, refs, snapRef, stopFlag, jVars, crashes,
                   hadCrash, compacts, escalated, kVars, fVars, seenRed, oVars,
                   approved, halted, escPlayed>>

\* The stop check, then _judge: on the saved ref (judge_reuse_ref), put back
\* into the tree first, or on a fresh snapshot.
EnterJudge ==
    /\ \/ pc = "enter" /\ ~start.gateFirst
       \/ pc = "enterJudge"
    /\ entered' = TRUE
    /\ IF stopFlag
          THEN HaltFor("user_stop") /\ UNCHANGED <<tVars, judgeRef>>
          ELSE IF start.reuse
                  THEN \/ /\ snapRef # NoRef
                          /\ tree' = refs[snapRef]
                          /\ judgeRef' = snapRef
                          /\ Goto("judge")
                          /\ UNCHANGED <<refs, snapRef>>
                       \/ /\ pc' = "pending"
                          /\ cause' = "judge_failed"
                          /\ UNCHANGED <<tVars, judgeRef>>
                  ELSE CallJudge(tree) /\ UNCHANGED tree
    /\ UNCHANGED <<start, round, stopFlag, judgeFails, needsUser,
                   judgeCompacted, pVars, escalated, kVars, fVars, gVars, oVars,
                   approved, halted, escPlayed>>

----------------------------------------------------------------------------
(* The judge.  It may write to the tree (t); _call_judge puts the snapshot *)
(* back after every call.  Mutated form: it does not.                      *)
AfterJudge_Tampered(t) == t
AfterJudge(t) == refs[judgeRef]

\* hit_after_verdict: only the round checks it, ResumeStep.enter does not.
StopAfterVerdict == stopFlag /\ ~entered

JudgePends(reason) ==
    IF StopAfterVerdict
       THEN HaltFor("user_stop")
       ELSE pc' = "pending" /\ cause' = reason

\* Unavailable, invalid, or compacted for the second time in the round.
JudgeFails(t, reason) ==
    /\ pc = "judge"
    /\ tree' = AfterJudge(t)
    /\ judgeFails' = judgeFails + 1
    /\ IF reason # "judge_failed" \/ judgeFails' >= JudgeMaxFailures
          THEN JudgePends(reason)
          ELSE Goto("judge")
    /\ UNCHANGED <<judgeRest, needsUser, judgeCompacted, approved>>

JudgeCompacts(t) ==
    /\ pc = "judge"
    /\ ~judgeCompacted
    /\ judgeCompacted' = TRUE
    /\ tree' = AfterJudge(t)
    /\ Goto("judge")
    /\ UNCHANGED <<judgeRest, judgeFails, needsUser, approved>>

\* NEEDS_USER: a question for the owner when there is an escalation model,
\* else the judge is asked again, up to the limit.
JudgeNeedsUser(t) ==
    /\ pc = "judge"
    /\ tree' = AfterJudge(t)
    /\ \/ /\ Escalates
          /\ judgeFails' = 0
          /\ HaltFor("user")
          /\ UNCHANGED needsUser
       \/ /\ ~Escalates
          /\ needsUser' = needsUser + 1
          /\ IF needsUser' >= NeedsUserMaxAttempts
                THEN JudgePends("needs_user")
                ELSE Goto("judge")
          /\ UNCHANGED judgeFails
    /\ UNCHANGED <<judgeRest, judgeCompacted, approved>>

JudgeShips(t) ==
    /\ pc = "judge"
    /\ tree' = AfterJudge(t)
    /\ judgeFails' = 0
    /\ needsUser' = 0
    /\ approved' = refs[judgeRef]
    /\ IF StopAfterVerdict THEN HaltFor("user_stop") ELSE Goto("fullGate")
    /\ UNCHANGED <<judgeRest, judgeCompacted>>

\* clean_retry: the work w of the continuation rounds is rolled back and the
\* next round starts from the checkpoint; the rollback itself may raise.
CleanRetry(w) ==
    /\ kFlat' = 0 /\ kPrev' = FALSE
    /\ hadCrash' = FALSE /\ resumed' = FALSE
    /\ \/ /\ SnapshotOk(w, round)
          /\ tree' = Base
       \/ /\ tree' = w
          /\ UNCHANGED <<refs, snapRef>>

CleanRetryRaises(w) ==
    /\ SnapshotOk(w, round)
    /\ tree' \in Trees
    /\ Goto("raised")

\* open_findings after the verdict, and what is called next.
Reopen(resolved, new) == open' = (open \ resolved) \cup new

AfterNoShip(toTester) ==
    IF StopAfterVerdict THEN HaltFor("user_stop")
    ELSE IF toTester /\ testerOn THEN CheckStop("tester") ELSE Goto("top")

\* apply_verdict, the usual round.  w is the tree without the discarded tests.
JudgeRejects(w, resolved, new, disc, toTester) ==
    /\ ~InContinuation
    /\ tree' = w
    /\ LET stalled == open # {} /\ resolved = {} /\ disc = {}
       IN  \/ /\ stalled
              /\ NoProgress(TRUE)
              /\ HaltFor(IF StopAfterVerdict THEN "user_stop" ELSE "stuck")
              /\ UNCHANGED open
           \/ /\ \/ ~stalled /\ UNCHANGED escalated
                 \/ stalled /\ NoProgress(FALSE)
              /\ Reopen(resolved, new)
              /\ AfterNoShip(toTester)
    /\ UNCHANGED <<refs, snapRef, hadCrash, resumed, kVars>>

\* apply_verdict_continuation: a round after a crash of the player.  Stall is
\* not looked at, K_max flat verdicts in a row start a clean retry.
JudgeRejectsContinuation(w, resolved, new, toTester, shrunk) ==
    /\ InContinuation
    /\ LET flat == resolved = {} /\ (kPrev => ~shrunk)
           count == IF flat THEN kFlat + 1 ELSE 0
       IN  IF count >= KMax
              THEN \/ /\ CleanRetry(w)
                      /\ Reopen(resolved, new)
                      /\ AfterNoShip(toTester)
                   \/ /\ CleanRetryRaises(w)
                      /\ UNCHANGED <<open, hadCrash, resumed, kVars>>
              ELSE /\ kFlat' = count
                   /\ kPrev' = TRUE
                   /\ tree' = w
                   /\ Reopen(resolved, new)
                   /\ AfterNoShip(toTester)
                   /\ UNCHANGED <<refs, snapRef, hadCrash, resumed>>
    /\ UNCHANGED escalated

\* NO_SHIP: findings resolved, new ones, and red tests the judge takes back
\* (their files are removed from the tree).
JudgeNoShip(t, resolved, new, disc, toTester, shrunk) ==
    /\ pc = "judge"
    /\ (open \ resolved) \cup new # {}
    /\ judgeFails' = 0
    /\ needsUser' = 0
    /\ guarded' = guarded \ disc
    /\ \E w \in IF disc = {} THEN {AfterJudge(t)} ELSE Trees :
          \/ JudgeRejects(w, resolved, new, disc, toTester)
          \/ JudgeRejectsContinuation(w, resolved, new, toTester, shrunk)
    /\ UNCHANGED <<start, round, stopFlag, judgeRef, entered, judgeCompacted,
                   crashes, compacts, testerOn, gVars, oVars, approved, halted,
                   escPlayed>>

----------------------------------------------------------------------------
(* The tester writes red tests for the findings routed to it.              *)
TesterWrites(t, red) ==
    /\ pc = "tester"
    /\ tree' = t
    /\ guarded' = guarded \cup red
    /\ Goto("top")
    /\ UNCHANGED <<testerRest, open, testerOn>>

\* A failing tester is off for the rest of the phase.
TesterFails(t) ==
    /\ pc = "tester"
    /\ tree' = t
    /\ testerOn' = FALSE
    /\ Goto("top")
    /\ UNCHANGED <<testerRest, open, guarded>>

TesterRefused(t, reason) ==
    /\ pc = "tester"
    /\ tree' = t
    /\ HaltFor(reason)
    /\ UNCHANGED <<testerRest, fVars>>

----------------------------------------------------------------------------
(* SHIP: the full gate of the scoped mode, then the commit.                *)
\* Mutated form: any full run that was green counts.
FullGateNeeded_Once == HasTests /\ Scoped /\ greenFull = NoTree
FullGateNeeded == HasTests /\ Scoped /\ greenFull # tree

FullGate(t, ok) ==
    /\ pc = "fullGate"
    /\ \/ /\ ~FullGateNeeded
          /\ CheckStop("ship")
          /\ UNCHANGED <<tree, greenFull, fullOk>>
       \/ /\ FullGateNeeded
          /\ AfterTests(t)
          /\ tree' = t
          /\ IF ok
                THEN /\ greenFull' = tree
                     /\ fullOk' = fullOk \cup {tree}
                     /\ CheckStop("ship")
                ELSE /\ CheckStop("top")
                     /\ UNCHANGED <<greenFull, fullOk>>
    /\ UNCHANGED <<start, round, refs, snapRef, stopFlag, jVars, pVars,
                   escalated, kVars, fVars, seenRed, gated, oVars, approved,
                   halted, escPlayed>>

Finish(o) ==
    /\ pc' = "done"
    /\ out' = o
    /\ UNCHANGED cause

Ship ==
    /\ pc = "ship"
    /\ commit' = tree
    /\ Finish(Outcome("ship", "ship", NoTree))
    /\ UNCHANGED <<endRest, tVars, halted>>

\* A secret in the index: a question, or a rollback and a stop.
ShipBlocked ==
    /\ pc = "ship"
    /\ \/ /\ Decisions
          /\ HaltFor("secrets")
          /\ UNCHANGED <<tVars, out, halted>>
       \/ /\ ~Decisions
          /\ \/ RollbackOk /\ halted' = halted \cup {tree}
             \/ RollbackSkipped /\ UNCHANGED halted
          /\ Finish(Outcome("stop", "secrets", NoTree))
    /\ UNCHANGED <<endRest, commit>>

----------------------------------------------------------------------------
(* The ends of a phase.                                                    *)

\* The rollback raised after its snapshot and left some tree behind.
RollbackBroken ==
    /\ SnapshotOk(tree, round)
    /\ tree' \in Trees

\* DecisionStep._old_halt: roll back under the owner lock, write `stopped`.
OldHalt(reason) ==
    /\ Finish(Outcome("stop", reason, NoTree))
    /\ \/ (RollbackOk \/ RollbackBroken) /\ halted' = halted \cup {tree}
       \/ RollbackSkipped /\ UNCHANGED halted

\* DecisionStep.open_question: the tree is named in the question and kept.
Ask(reason, sha) ==
    /\ Finish(Outcome("waiting_human", reason, sha))
    /\ UNCHANGED <<tVars, halted>>

\* stop_step.halt and DecisionStep.halt.
Halt ==
    /\ pc = "halt"
    /\ LET reason == IF stopFlag THEN "user_stop" ELSE cause
           asks == Decisions /\ reason \in AskedReasons
           chained == /\ reason \in ProviderReasons
                      /\ start.waits \in 0 .. LimitWaits - 1
       IN  \/ /\ asks /\ chained
              /\ Finish(Outcome("waiting_limit", reason, NoTree))
              /\ UNCHANGED <<tVars, halted>>
           \/ /\ asks /\ ~chained
              /\ Ask(reason, tree)
           \/ /\ ~(asks /\ chained)
              /\ OldHalt(reason)
    /\ UNCHANGED <<endRest, commit>>

\* The tree the question is about.  Mutated form: whatever is in the tree.
PendingTree_Working == tree
PendingTree == IF snapRef = NoRef THEN tree ELSE refs[snapRef]

\* pending.stop_judge_pending and DecisionStep.jp_open: the tree is kept, the
\* question names the tree of snapshot_ref.
StopJudgePending ==
    /\ pc = "pending"
    /\ \/ /\ ~Decisions
          /\ Finish(Outcome("judge_pending", cause, NoTree))
          /\ UNCHANGED <<tVars, halted>>
       \/ /\ Decisions
          /\ Ask("judge_pending", PendingTree)
       \/ /\ Decisions
          /\ OldHalt(cause)
    /\ UNCHANGED <<endRest, commit>>

\* An exception leaves run_phase: crash_step.crash_outcome.  An agent that was
\* running may have left any tree.
Crash(t) ==
    /\ pc # "done"
    /\ pc \in {"player", "judge", "tester", "protect"} \/ AfterTests(t)
    /\ \/ /\ refs' = [refs EXCEPT ![CrashRef] = t]
          /\ \/ tree' = Base /\ snapRef' = CrashRef
             \/ tree' \in Trees /\ UNCHANGED snapRef
          /\ halted' = halted \cup {t}
       \/ /\ tree' = t
          /\ UNCHANGED <<refs, snapRef, halted>>
    /\ Finish(Outcome("stop", "crash", NoTree))
    /\ UNCHANGED <<endRest, commit>>

----------------------------------------------------------------------------
PlayerStep ==
    \/ NextRound
    \/ LaunchPlayer
    \/ \E t \in Trees :
          \/ \E valid \in BOOLEAN : PlayerReplies(t, valid)
          \/ PlayerCrashes(t)
          \/ \E reason \in {"provider_auth", "provider_quota"} :
                PlayerRefused(t, reason)
          \/ PlayerCompacts(t)
          \/ \E violated \in BOOLEAN : ProtectTests(t, violated)

GateStep ==
    \E t \in Trees, b \in BOOLEAN :
       \/ GateGreen(t, b)
       \/ GateRed(t, b)
       \/ FullGate(t, b)
       \/ \E ok \in BOOLEAN : EnterGate(t, ok, b)

JudgeStep ==
    \/ EnterJudge
    \/ \E t \in Trees :
          \/ \E reason \in {"judge_failed", "judge_auth", "judge_quota"} :
                JudgeFails(t, reason)
          \/ JudgeCompacts(t)
          \/ JudgeNeedsUser(t)
          \/ JudgeShips(t)
          \/ \E resolved \in SUBSET open,
                new \in SUBSET (Findings \ (open \cup guarded)),
                disc \in SUBSET guarded,
                toTester \in BOOLEAN, shrunk \in BOOLEAN :
                (toTester => new # {})
                   /\ JudgeNoShip(t, resolved, new, disc, toTester, shrunk)

TesterStep ==
    \E t \in Trees :
       \/ \E red \in SUBSET open : TesterWrites(t, red)
       \/ TesterFails(t)
       \/ \E reason \in {"provider_auth", "provider_quota"} :
             TesterRefused(t, reason)

\* The exception of a clean retry has only crash_outcome left.
Raised == pc = "raised" /\ Crash(tree)

EndStep == Ship \/ ShipBlocked \/ Halt \/ StopJudgePending \/ Raised

\* Finished is the end of the phase, not a deadlock.
Finished == pc = "done" /\ UNCHANGED vars

Step == PlayerStep \/ GateStep \/ JudgeStep \/ TesterStep \/ EndStep

Next ==
    \/ Step
    \/ RaiseStop
    \/ \E t \in Trees : Crash(t)
    \/ Finished

\* The owner of the run keeps going: every agent call has a timeout, and no
\* step waits for a person.
Fairness == WF_vars(Step)

Spec == Init /\ [][Next]_vars
FairSpec == Spec /\ Fairness

----------------------------------------------------------------------------
(* Properties.                                                             *)

TreeOrNone == Trees \cup {NoTree}

\* Every variable keeps its type.
TypeOK ==
    /\ start \in Starts
    /\ pc \in PCs
    /\ cause \in Reasons
    /\ round \in 0 .. RoundBound
    /\ tree \in Trees
    /\ refs \in [RefNames -> TreeOrNone]
    /\ snapRef \in RefNames \cup {NoRef}
    /\ stopFlag \in BOOLEAN
    /\ judgeRef \in RefNames \cup {NoRef}
    /\ entered \in BOOLEAN
    /\ judgeFails \in Nat /\ needsUser \in Nat /\ judgeCompacted \in BOOLEAN
    /\ crashes \in Nat /\ hadCrash \in BOOLEAN /\ resumed \in BOOLEAN
    /\ compacts \in 0 .. CompactLimit
    /\ escalated \in BOOLEAN
    /\ kFlat \in 0 .. KMax /\ kPrev \in BOOLEAN
    /\ open \subseteq Findings /\ guarded \subseteq Findings
    /\ testerOn \in BOOLEAN
    /\ seenRed \in BOOLEAN /\ greenFull \in TreeOrNone
    /\ gated \in TreeOrNone /\ fullOk \subseteq Trees
    /\ commit \in TreeOrNone
    /\ out \in [status : Statuses, reason : Reasons, sha : TreeOrNone]
    /\ approved \in TreeOrNone
    /\ halted \subseteq Trees
    /\ escPlayed \in BOOLEAN

\* _ship commits the tree the judge approved, and that tree passed the gate:
\* nothing an agent writes between the gate, the judge and the commit gets in.
\* (Tests that write files are out: the full gate runs after the verdict.)
ShippedIsApproved ==
    commit # NoTree /\ (GateWrites => ~Scoped)
        => commit = approved /\ commit = gated

\* In the scoped mode a commit had the whole suite green on its tree, however
\* stale last_green_full_tree may be.
ShippedAfterFullGate ==
    commit # NoTree /\ HasTests /\ Scoped /\ ~GateWrites => commit \in fullOk

\* What a halt or a crash removes from the tree is in a snapshot ref, and
\* except after a crash it is the one snapshot_ref names for `tero resume`.
HaltKeepsWork ==
    \A t \in halted :
        /\ \E n \in RefNames : refs[n] = t
        /\ out.reason # "crash" => snapRef # NoRef /\ refs[snapRef] = t

\* The tree a judge_pending question names, the one `accept` would commit, is
\* the one that passed the gate.
PendingIsGated ==
    out.status = "waiting_human" /\ out.reason = "judge_pending"
        => out.sha = gated

\* What the review of a tree has come to, by the place of the round.
ReviewStage ==
    CASE pc = "done" -> "over"
      [] pc \in {"fullGate", "ship"} -> "approved"
      [] pc \in {"enterJudge", "judge", "pending"} -> "gated"
      [] pc = "enter" /\ ~start.gateFirst -> "gated"
      [] OTHER -> "work"

ReviewCandidate ==
    CASE ReviewStage = "gated" -> gated
      [] ReviewStage = "approved" -> approved
      [] OTHER -> NoTree

Questioned == IF out.status = "waiting_human" /\ out.reason = "judge_pending"
              THEN out.sha ELSE NoTree

Reviews == INSTANCE Review
              WITH stage <- ReviewStage, candidate <- ReviewCandidate,
                   asked <- Questioned, Rewrites <- GateWrites /\ Scoped

\* Whatever the agents write and whenever the owner is stopped, what a phase
\* does is a review: gate, approval and commit follow each other on one tree,
\* and a question about a verdict that did not come names the tree that
\* passed the gate (_PhaseRunner.run, call_judge_step, _ship, jp_open).
ReviewHolds == Reviews!Spec

\* A phase that can escalate is called stuck only after the escalation model
\* has played a round of it.
EscalatedBeforeStuck ==
    /\ out.reason = "stuck"
    /\ Escalates /\ ~Scheduled
    /\ EscalateAt # 0 => start.round < EscalateAt
    => escPlayed

\* The player called again on its compacted work, and the judge after a
\* failure, a question or a compaction: repeats within one call of theirs,
\* each of which is counted.
PlayerAgain == pc = "player" /\ compacts' > compacts
JudgeAgain == /\ pc = "judge"
              /\ \/ judgeFails' > judgeFails
                 \/ needsUser' > needsUser
                 \/ judgeCompacted' /\ ~judgeCompacted

\* With the stop flag up no step leads to a gate, to the tester or to a commit,
\* and to the player or the judge only as a counted repeat within the call
\* that was running (the loops of _player and _judge do not look at the flag).
\* The whole suite is run only after the SHIP of a judge that was reached from
\* ResumeStep.enter: _after_judge looks at the flag after that gate, the round
\* also before it.  (The gate a gate_first phase begins with is run before the
\* first look at the flag, EnterGate.)
StopStartsNothing ==
    [][stopFlag =>
          /\ pc' \notin {"gate", "tester", "ship"}
          /\ pc' = "player" => PlayerAgain
          /\ pc' = "judge" => JudgeAgain
          /\ pc' = "fullGate" => pc = "judge" /\ entered]_vars

\* Every phase ends.
Terminates == <>(pc = "done")

----------------------------------------------------------------------------
(* The inductive invariant behind the three state properties above: what   *)
(* each place of the round knows about the tree, the ref and the gate.     *)

SnapRefLives == snapRef # NoRef => refs[snapRef] \in Trees

EntersOnGated ==
    pc = "enterJudge" \/ (pc = "enter" /\ ~start.gateFirst)
        => IF start.reuse THEN snapRef # NoRef /\ refs[snapRef] = gated
                          ELSE tree = gated

JudgesGated ==
    pc = "judge" => /\ judgeRef # NoRef /\ judgeRef = snapRef
                    /\ refs[judgeRef] = gated
                    /\ gated \in Trees

PendsOnGated == pc = "pending" => snapRef # NoRef /\ refs[snapRef] = gated

ShipsGated ==
    pc = "fullGate" \/ (pc = "ship" /\ (GateWrites => ~Scoped))
        => tree = approved /\ tree = gated

Unfinished == pc # "done" => commit = NoTree /\ out = NoOut /\ halted = {}

PhaseInv ==
    /\ TypeOK
    /\ SnapRefLives
    /\ EntersOnGated
    /\ JudgesGated
    /\ PendsOnGated
    /\ ShipsGated
    /\ Unfinished
    /\ ShippedIsApproved
    /\ HaltKeepsWork
    /\ PendingIsGated

(* Two more, on top of PhaseInv: what last_green_full_tree holds was green, *)
(* and the escalation model has played once the rounds call for it.         *)
FullGateKept ==
    HasTests /\ Scoped /\ ~GateWrites =>
        /\ greenFull # NoTree => greenFull \in fullOk
        /\ pc = "ship" => tree \in fullOk
        /\ commit # NoTree => commit \in fullOk

MayEscalate == /\ Escalates /\ ~Scheduled
               /\ EscalateAt # 0 => start.round < EscalateAt

EscalationDue == IF EscalateAt # 0 THEN round >= EscalateAt ELSE escalated

EscalationKept ==
    MayEscalate =>
        /\ EscalationDue =>
              \/ escPlayed
              \/ pc = "launch" /\ (EscalateAt # 0 => round = EscalateAt)
              \/ pc \in {"top", "tester"} /\ EscalateAt = 0
              \/ pc \in {"halt", "done"}
        /\ pc \in {"halt", "pending"} /\ cause = "stuck" => escPlayed
        /\ out.reason = "stuck" => escPlayed

(* How many steps of its owner a phase still has before it, at most: the   *)
(* measure behind Terminates.  The judge has a patience that a verdict     *)
(* restores, the player a number of compactions that a launch restores,    *)
(* and a round is paid for by round_limit.                                 *)
JudgePatience == JudgeMaxFailures + NeedsUserMaxAttempts + 1
RoundSteps == CompactLimit + JudgePatience + 11

StepsInRound ==
    CASE pc = "launch"     -> RoundSteps
      [] pc = "player"     -> (CompactLimit - compacts) + JudgePatience + 10
      [] pc = "protect"    -> JudgePatience + 9
      [] pc = "enter"      -> JudgePatience + 9
      [] pc = "gate"       -> JudgePatience + 8
      [] pc = "enterJudge" -> JudgePatience + 8
      [] pc = "judge"      -> (JudgeMaxFailures - judgeFails)
                                + (NeedsUserMaxAttempts - needsUser)
                                + (IF judgeCompacted THEN 0 ELSE 1) + 7
      [] pc = "fullGate"   -> 6
      [] pc = "ship"       -> 5
      [] pc = "tester"     -> 5
      [] pc = "top"        -> 4
      [] pc = "pending"    -> 2
      [] pc = "raised"     -> 2
      [] pc = "halt"       -> 1
      [] pc = "done"       -> 0

Leaving == {"pending", "raised", "halt", "done"}
RoundsLeft == IF pc \notin Leaving /\ round < start.limit
              THEN start.limit - round ELSE 0

StepsLeft == RoundsLeft * RoundSteps + StepsInRound

\* The judge is called only while there is patience with it.
PatienceKept ==
    pc \notin Leaving => /\ judgeFails < JudgeMaxFailures
                         /\ needsUser < NeedsUserMaxAttempts

\* Each step of the owner brings the phase nearer to its end, and nothing
\* takes it further away: a round, a compaction, a failure of the judge, a
\* question of it and a crash of the player are all counted, and no reset of
\* a counter gives back what another one has taken (_PhaseRunner.run).
PhaseGoesOn ==
    [][/\ StepsLeft' <= StepsLeft
       /\ Step => StepsLeft' < StepsLeft]_vars

=============================================================================
