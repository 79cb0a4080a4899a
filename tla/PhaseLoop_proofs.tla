-------------------------- MODULE PhaseLoop_proofs --------------------------
(* Theorems about one phase (module PhaseLoop), for every set of trees and *)
(* findings, every configuration and every number of rounds; and about the *)
(* call of a role by it (module Agents).                                   *)
EXTENDS PhaseLoop, Agents, TLAPS

\* Every initial state is typed.
LEMMA InitTyped == Init => TypeOK
<1> SUFFICES ASSUME Init PROVE TypeOK
  OBVIOUS
<1> USE TreesAssumption, BoundsAssumption, FlagsAssumption, StartsAssumption
<1>1. start \in StartType
  BY DEF Init
<1>2. start.round \in 0 .. RoundBound /\ start.round \in RefNames
  BY <1>1 DEF StartType, RefNames
<1>3. tree \in Trees /\ refs \in [RefNames -> TreeOrNone]
        /\ snapRef \in RefNames \cup {NoRef} /\ gated \in TreeOrNone
  BY <1>2 DEF Init, TreeOrNone
<1>4. out \in [status : Statuses, reason : Reasons, sha : TreeOrNone]
  BY DEF Init, NoOut, Outcome, Statuses, Reasons, TreeOrNone
<1>5. testerOn \in BOOLEAN
  BY DEF Init
<1>6. fullOk \subseteq Trees /\ halted \subseteq Trees
      /\ open \subseteq Findings /\ guarded \subseteq Findings
  BY DEF Init
<1>7. pc \in PCs /\ cause \in Reasons /\ judgeRef \in RefNames \cup {NoRef}
  BY DEF Init, PCs, Reasons
<1>8. /\ judgeFails \in Nat /\ needsUser \in Nat /\ crashes \in Nat
      /\ compacts \in 0 .. CompactLimit /\ kFlat \in 0 .. KMax
  BY DEF Init
<1>9. /\ start \in Starts /\ round \in 0 .. RoundBound
      /\ greenFull \in TreeOrNone /\ commit \in TreeOrNone
      /\ approved \in TreeOrNone
  BY <1>2 DEF Init, TreeOrNone
<1>10. /\ stopFlag \in BOOLEAN /\ entered \in BOOLEAN /\ judgeCompacted \in BOOLEAN
       /\ hadCrash \in BOOLEAN /\ resumed \in BOOLEAN /\ escalated \in BOOLEAN
       /\ kPrev \in BOOLEAN /\ seenRed \in BOOLEAN /\ escPlayed \in BOOLEAN
  BY DEF Init
<1> QED
  BY <1>3, <1>4, <1>5, <1>6, <1>7, <1>8, <1>9, <1>10 DEF TypeOK

\* A disjunction is a Boolean.
LEMMA OrBoolean == ASSUME NEW x, NEW y PROVE (x \/ y) \in BOOLEAN
  OBVIOUS

\* What a round that may be the last one does to the control variables.
LEMMA StuckOrNext ==
    ASSUME TypeOK, NextRoundUnlessStuck
    PROVE  /\ pc' \in {"top", "halt"}
           /\ cause' \in {cause, "stuck"}
           /\ escalated' \in BOOLEAN
<1> USE DEF TypeOK
<1>1. CASE InContinuation
  BY <1>1 DEF NextRoundUnlessStuck, Goto
<1>2. CASE ~InContinuation
  <2>1. PICK b \in BOOLEAN :
           /\ NoProgress(b)
           /\ IF b THEN HaltFor("stuck") ELSE Goto("top")
    BY <1>2 DEF NextRoundUnlessStuck
  <2>2. escalated' \in BOOLEAN
    BY <2>1 DEF NoProgress, EscalateOnce
  <2>3. pc' \in {"top", "halt"} /\ cause' \in {cause, "stuck"}
    BY <2>1 DEF HaltFor, Goto
  <2> QED
    BY <2>2, <2>3
<1> QED
  BY <1>1, <1>2

\* The steps of the player and of the suite guard keep the types.
LEMMA PlayerTyped == TypeOK /\ PlayerStep => TypeOK'
<1> SUFFICES ASSUME TypeOK, PlayerStep PROVE TypeOK'
  OBVIOUS
<1> USE TreesAssumption, BoundsAssumption, StartsAssumption
    DEF TypeOK, PCs, Reasons, AskedReasons, ProviderReasons, TreeOrNone
<1>0. start \in StartType /\ start.limit \in 0 .. RoundBound /\ round \in RefNames
      /\ CompactRef \in RefNames
  BY DEF StartType, RefNames, CompactRef
<1>1. CASE NextRound
  BY <1>0, <1>1 DEF NextRound, HaltFor, Goto, tVars, jVars, pVars, kVars, fVars,
     gVars, oVars
<1>2. CASE LaunchPlayer
  <2>1. escPlayed' \in BOOLEAN
    <3>1. CASE stopFlag
      BY <1>2, <3>1 DEF LaunchPlayer
    <3>2. CASE ~stopFlag
      <4>1. escPlayed' = (escPlayed \/ EscalationPlays)
        BY <1>2, <3>2 DEF LaunchPlayer
      <4> QED
        BY <4>1, OrBoolean, Zenon
    <3> QED
      BY <3>1, <3>2
  <2>2. /\ pc' \in PCs /\ cause' \in Reasons
        /\ compacts' \in 0 .. CompactLimit /\ judgeCompacted' \in BOOLEAN
    <3>1. CASE stopFlag
      BY <1>2, <3>1 DEF LaunchPlayer, CheckStop, HaltFor
    <3>2. CASE ~stopFlag
      <4>1. pc' = "player" /\ cause' = cause /\ compacts' = 0
        BY <1>2, <3>2, FlagsAssumption DEF LaunchPlayer, CheckStop, Goto, EscalationPlays
      <4>2. judgeCompacted' \in BOOLEAN
        BY <1>2, <3>2 DEF LaunchPlayer
      <4> QED
        BY <4>1, <4>2
    <3> QED
      BY <3>1, <3>2
  <2>3. UNCHANGED <<start, round, tVars, stopFlag, judgeRef, entered,
                    judgeFails, needsUser, crashes, hadCrash, resumed,
                    escalated, kVars, fVars, gVars, oVars, approved, halted>>
    BY <1>2 DEF LaunchPlayer
  <2> QED
    BY <2>1, <2>2, <2>3 DEF tVars, kVars, fVars, gVars, oVars
<1>3. ASSUME NEW t \in Trees, NEW valid \in BOOLEAN, PlayerReplies(t, valid)
      PROVE TypeOK'
  BY <1>0, <1>3 DEF PlayerReplies, SnapshotOk, SnapshotFailed, CheckStop,
     HaltFor, Goto, playerRest, jVars, kVars, fVars, gVars, oVars
<1>4. ASSUME NEW t \in Trees, PlayerCrashes(t) PROVE TypeOK'
  BY <1>0, <1>4 DEF PlayerCrashes, SnapshotOk, SnapshotFailed, CheckStop,
     HaltFor, Goto, playerRest, jVars, kVars, fVars, gVars, oVars
<1>5. ASSUME NEW t \in Trees, NEW reason \in {"provider_auth", "provider_quota"},
             PlayerRefused(t, reason)
      PROVE TypeOK'
  BY <1>5 DEF PlayerRefused, HaltFor, playerRest, jVars, pVars, kVars, fVars,
     gVars, oVars
<1>6. ASSUME NEW t \in Trees, PlayerCompacts(t) PROVE TypeOK'
  <2>1. compacts' \in 0 .. CompactLimit
    BY <1>6 DEF PlayerCompacts, RecordCompact,
          CompactFailed, MayCompact, CountCompact
  <2>2. refs' \in [RefNames -> TreeOrNone] /\ snapRef' \in RefNames \cup {NoRef}
    BY <1>0, <1>6 DEF PlayerCompacts, RecordCompact,
          CompactFailed, SnapshotOk, SnapshotFailed
  <2>3. pc' \in PCs /\ cause' \in Reasons /\ resumed' \in BOOLEAN
    BY <1>6 DEF PlayerCompacts, RecordCompact,
          CompactFailed, HaltFor, Goto
  <2> QED
    BY <1>6, <2>1, <2>2, <2>3 DEF PlayerCompacts, RecordCompact,
          CompactFailed, playerRest, jVars,
       kVars, fVars, gVars, oVars
<1>7. ASSUME NEW t \in Trees, NEW violated \in BOOLEAN, ProtectTests(t, violated)
      PROVE TypeOK'
  <2>1. pc' \in PCs /\ cause' \in Reasons /\ escalated' \in BOOLEAN
    BY <1>7, StuckOrNext DEF ProtectTests, CheckStop, HaltFor, Goto
  <2> QED
    BY <1>7, <2>1 DEF ProtectTests, jVars, pVars, kVars, fVars, gVars, oVars
<1> QED
  BY <1>1, <1>2, <1>3, <1>4, <1>5, <1>6, <1>7 DEF PlayerStep

\* The calls of the judge keep what they change typed.
LEMMA CallJudgeTyped ==
    ASSUME TypeOK, NEW t \in Trees, CallJudge(t)
    PROVE  /\ refs' \in [RefNames -> TreeOrNone]
           /\ snapRef' \in RefNames \cup {NoRef}
           /\ judgeRef' \in RefNames \cup {NoRef}
           /\ pc' \in {"judge", "top"} /\ cause' = cause
<1>1. round \in RefNames
  BY BoundsAssumption DEF TypeOK, RefNames
<1> QED
  BY <1>1 DEF TypeOK, CallJudge, SnapshotOk, SnapshotFailed, Goto, TreeOrNone

\* The steps of the gates keep the types.
LEMMA GateTyped == TypeOK /\ GateStep => TypeOK'
<1> SUFFICES ASSUME TypeOK, NEW t \in Trees, NEW b \in BOOLEAN, NEW ok \in BOOLEAN,
                    \/ GateGreen(t, b)
                    \/ GateRed(t, b)
                    \/ FullGate(t, b)
                    \/ EnterGate(t, ok, b)
             PROVE  TypeOK'
  BY DEF GateStep
<1> USE DEF TypeOK, PCs, Reasons, AskedReasons, ProviderReasons, TreeOrNone
<1>1. CASE GateGreen(t, b)
  <2>1. /\ refs' \in [RefNames -> TreeOrNone]
        /\ snapRef' \in RefNames \cup {NoRef}
        /\ judgeRef' \in RefNames \cup {NoRef}
        /\ pc' \in PCs /\ cause' \in Reasons
    <3>1. CASE stopFlag
      BY <1>1, <3>1 DEF GateGreen, HaltFor
    <3>2. CASE ~stopFlag
      BY <1>1, <3>2, CallJudgeTyped DEF GateGreen
    <3> QED
      BY <3>1, <3>2
  <2>2. entered' \in BOOLEAN
    BY <1>1 DEF GateGreen
  <2>3. /\ tree' \in Trees /\ gated' \in TreeOrNone /\ fullOk' \subseteq Trees
        /\ greenFull' \in TreeOrNone
    BY <1>1 DEF GateGreen, PassGate
  <2> QED
    BY <1>1, <2>1, <2>2, <2>3 DEF GateGreen, pVars, kVars, fVars, oVars
<1>2. CASE GateRed(t, b)
  <2>1. pc' \in PCs /\ cause' \in Reasons /\ escalated' \in BOOLEAN
    <3>1. CASE stopFlag
      BY <1>2, <3>1 DEF GateRed, HaltFor
    <3>2. CASE ~stopFlag /\ b
      BY <1>2, <3>2, StuckOrNext DEF GateRed
    <3>3. CASE ~stopFlag /\ ~b
      BY <1>2, <3>3 DEF GateRed, Goto
    <3> QED
      BY <3>1, <3>2, <3>3
  <2>2. seenRed' \in BOOLEAN
    BY <1>2 DEF GateRed
  <2> QED
    BY <1>2, <2>1, <2>2 DEF GateRed, jVars, pVars, kVars, fVars, oVars
<1>3. CASE FullGate(t, b)
  <2>1. pc' \in PCs /\ cause' \in Reasons
    BY <1>3 DEF FullGate, CheckStop, HaltFor, Goto
  <2>2. tree' \in Trees /\ greenFull' \in TreeOrNone /\ fullOk' \subseteq Trees
    BY <1>3 DEF FullGate
  <2> QED
    BY <1>3, <2>1, <2>2 DEF FullGate, jVars, pVars, kVars, fVars, oVars
<1>4. CASE EnterGate(t, ok, b)
  <2>1. resumed' \in BOOLEAN
    BY <1>4 DEF EnterGate
  <2>2. pc' \in PCs /\ cause' \in Reasons
    BY <1>4 DEF EnterGate, Goto
  <2>3. /\ tree' \in Trees /\ gated' \in TreeOrNone /\ fullOk' \subseteq Trees
        /\ greenFull' \in TreeOrNone
    BY <1>4 DEF EnterGate, PassGate
  <2> QED
    BY <1>4, <2>1, <2>2, <2>3 DEF EnterGate, jVars, kVars, fVars, oVars
<1> QED
  BY <1>1, <1>2, <1>3, <1>4

\* The steps of the tester keep the types.
LEMMA TesterTyped == TypeOK /\ TesterStep => TypeOK'
<1> SUFFICES ASSUME TypeOK, NEW t \in Trees, NEW red \in SUBSET open,
                    NEW reason \in {"provider_auth", "provider_quota"},
                    \/ TesterWrites(t, red)
                    \/ TesterFails(t)
                    \/ TesterRefused(t, reason)
             PROVE  TypeOK'
  BY DEF TesterStep
<1> USE DEF TypeOK, PCs, Reasons, AskedReasons, ProviderReasons, TreeOrNone
<1>1. CASE TesterWrites(t, red)
  BY <1>1 DEF TesterWrites, Goto, testerRest, jVars, pVars, kVars, gVars, oVars
<1>2. CASE TesterFails(t)
  <2>1. testerOn' \in BOOLEAN
    BY <1>2 DEF TesterFails
  <2> QED
    BY <1>2, <2>1 DEF TesterFails, Goto, testerRest, jVars, pVars, kVars, gVars,
       oVars
<1>3. CASE TesterRefused(t, reason)
  BY <1>3 DEF TesterRefused, HaltFor, testerRest, fVars, jVars, pVars, kVars,
     gVars, oVars
<1> QED
  BY <1>1, <1>2, <1>3

\* What a judge call that did not end the round does to control and tree.
LEMMA VerdictTyped ==
    ASSUME TypeOK, NEW toTester \in BOOLEAN, AfterNoShip(toTester)
    PROVE  /\ pc' \in {"halt", "tester", "top"}
           /\ cause' \in {cause, "user_stop"}
  BY DEF AfterNoShip, CheckStop, HaltFor, Goto

\* A NO_SHIP outside of a continuation keeps the types.
LEMMA RejectsTyped ==
    ASSUME TypeOK, NEW w \in Trees, NEW resolved \in SUBSET open,
           NEW new \in SUBSET Findings, NEW disc, NEW toTester \in BOOLEAN,
           JudgeRejects(w, resolved, new, disc, toTester)
    PROVE  /\ pc' \in {"halt", "tester", "top"}
           /\ cause' \in {cause, "user_stop", "stuck"}
           /\ tree' \in Trees
           /\ open' \subseteq Findings
           /\ escalated' \in BOOLEAN
           /\ UNCHANGED <<refs, snapRef, hadCrash, resumed, kVars>>
<1> USE DEF TypeOK
<1>1. tree' \in Trees /\ UNCHANGED <<refs, snapRef, hadCrash, resumed, kVars>>
  BY DEF JudgeRejects
<1>2. CASE /\ NoProgress(TRUE)
           /\ HaltFor(IF StopAfterVerdict THEN "user_stop" ELSE "stuck")
           /\ UNCHANGED open
  <2>1. escalated' \in BOOLEAN
    BY <1>2 DEF NoProgress, EscalateOnce
  <2>2. pc' = "halt" /\ cause' \in {"user_stop", "stuck"}
    BY <1>2 DEF HaltFor
  <2> QED
    BY <1>1, <1>2, <2>1, <2>2
<1>3. CASE /\ UNCHANGED escalated \/ NoProgress(FALSE)
           /\ Reopen(resolved, new)
           /\ AfterNoShip(toTester)
  <2>1. escalated' \in BOOLEAN
    BY <1>3 DEF NoProgress, EscalateOnce
  <2>2. open' \subseteq Findings
    BY <1>3 DEF Reopen
  <2> QED
    BY <1>1, <1>3, <2>1, <2>2, VerdictTyped
<1> QED
  BY <1>2, <1>3, Zenon DEF JudgeRejects

\* A NO_SHIP in a continuation keeps the types.
LEMMA ContinuationTyped ==
    ASSUME TypeOK, NEW w \in Trees, NEW resolved \in SUBSET open,
           NEW new \in SUBSET Findings, NEW toTester \in BOOLEAN, NEW shrunk,
           JudgeRejectsContinuation(w, resolved, new, toTester, shrunk)
    PROVE  /\ pc' \in {"halt", "tester", "top", "raised"}
           /\ cause' \in {cause, "user_stop"}
           /\ tree' \in Trees
           /\ \/ refs' = [refs EXCEPT ![round] = w] /\ snapRef' = round
              \/ UNCHANGED <<refs, snapRef>>
           /\ open' \subseteq Findings
           /\ hadCrash' \in BOOLEAN /\ resumed' \in BOOLEAN
           /\ kFlat' \in 0 .. KMax /\ kPrev' \in BOOLEAN
           /\ UNCHANGED escalated
<1> USE TreesAssumption, BoundsAssumption DEF TypeOK
<1> DEFINE count == IF resolved = {} /\ (kPrev => ~shrunk) THEN kFlat + 1 ELSE 0
<1>0. UNCHANGED escalated
  BY DEF JudgeRejectsContinuation
<1>1. CASE /\ count >= KMax
           /\ CleanRetry(w) /\ Reopen(resolved, new) /\ AfterNoShip(toTester)
  <2>1. hadCrash' \in BOOLEAN /\ resumed' \in BOOLEAN /\ kPrev' \in BOOLEAN
    BY <1>1 DEF CleanRetry
  <2>2. /\ tree' \in Trees /\ kFlat' \in 0 .. KMax
        /\ \/ refs' = [refs EXCEPT ![round] = w] /\ snapRef' = round
           \/ UNCHANGED <<refs, snapRef>>
    BY <1>1 DEF CleanRetry, SnapshotOk
  <2>3. open' \subseteq Findings
    BY <1>1 DEF Reopen
  <2> QED
    BY <1>0, <1>1, <2>1, <2>2, <2>3, VerdictTyped
<1>2. CASE /\ count >= KMax
           /\ CleanRetryRaises(w)
           /\ UNCHANGED <<open, hadCrash, resumed, kVars>>
  BY <1>0, <1>2 DEF CleanRetryRaises, SnapshotOk, Goto, kVars
<1>3. CASE /\ ~(count >= KMax)
           /\ kFlat' = count /\ kPrev' = TRUE /\ tree' = w
           /\ Reopen(resolved, new) /\ AfterNoShip(toTester)
           /\ UNCHANGED <<refs, snapRef, hadCrash, resumed>>
  <2>1. kPrev' \in BOOLEAN
    BY <1>3
  <2>2. count \in Nat
    OBVIOUS
  <2>3. kFlat' \in 0 .. KMax
    BY <1>3, <2>2
  <2>4. open' \subseteq Findings
    BY <1>3 DEF Reopen
  <2> QED
    BY <1>0, <1>3, <2>1, <2>3, <2>4, VerdictTyped
<1> QED
  BY <1>1, <1>2, <1>3, Zenon DEF JudgeRejectsContinuation

----------------------------------------------------------------------------
(* PhaseInv.                                                               *)

\* The initial states satisfy the invariant.
LEMMA InitInv == Init => PhaseInv
<1> SUFFICES ASSUME Init PROVE PhaseInv
  OBVIOUS
<1> USE TreesAssumption, StartsAssumption
<1>1. TypeOK
  BY InitTyped
<1>2. start.round \in RefNames /\ start.round # NoRef
  BY BoundsAssumption DEF Init, StartType, RefNames, NoRef
<1>3. SnapRefLives
  BY <1>2 DEF Init, SnapRefLives
<1>4. EntersOnGated
  BY <1>2 DEF Init, EntersOnGated
<1>5. JudgesGated /\ PendsOnGated /\ ShipsGated
  BY DEF Init, JudgesGated, PendsOnGated, ShipsGated
<1>6. Unfinished
  BY DEF Init, Unfinished
<1>7. ShippedIsApproved /\ HaltKeepsWork /\ PendingIsGated
  BY DEF Init, ShippedIsApproved, HaltKeepsWork, PendingIsGated, NoOut, Outcome
<1> QED
  BY <1>1, <1>3, <1>4, <1>5, <1>6, <1>7 DEF PhaseInv

\* A step that does not end the phase and leaves its ends alone keeps what
\* the invariant says of the ends.
LEMMA StillRunning ==
    ASSUME PhaseInv, pc # "done", UNCHANGED <<commit, out, halted>>
    PROVE  Unfinished' /\ ShippedIsApproved' /\ HaltKeepsWork' /\ PendingIsGated'
<1>1. commit' = NoTree /\ out' = NoOut /\ halted' = {}
  BY DEF PhaseInv, Unfinished
<1>2. Unfinished'
  BY <1>1 DEF Unfinished, NoOut, Outcome
<1>3. ShippedIsApproved'
  BY <1>1 DEF ShippedIsApproved
<1>4. HaltKeepsWork'
  BY <1>1 DEF HaltKeepsWork
<1>5. PendingIsGated'
  BY <1>1 DEF PendingIsGated, NoOut, Outcome
<1> QED
  BY <1>2, <1>3, <1>4, <1>5

\* At these places the invariant asks nothing of tree, ref and gate.
LEMMA Elsewhere ==
    ASSUME pc' \in {"top", "launch", "player", "protect", "gate", "tester",
                    "halt", "raised", "done"}
    PROVE  EntersOnGated' /\ JudgesGated' /\ PendsOnGated' /\ ShipsGated'
  BY DEF EntersOnGated, JudgesGated, PendsOnGated, ShipsGated

\* Snapshots keep the saved ref alive.
LEMMA SnapshotLives ==
    ASSUME TypeOK, SnapRefLives, NEW t \in Trees, NEW name \in RefNames,
           \/ SnapshotOk(t, name)
           \/ SnapshotFailed
           \/ UNCHANGED <<refs, snapRef>>
    PROVE  SnapRefLives'
  BY DEF TypeOK, SnapRefLives, SnapshotOk, SnapshotFailed

\* The steps of the player keep the invariant.
LEMMA PlayerInv == PhaseInv /\ PlayerStep => PhaseInv'
<1> SUFFICES ASSUME PhaseInv, PlayerStep PROVE PhaseInv'
  OBVIOUS
<1>0. TypeOK /\ SnapRefLives
  BY DEF PhaseInv
<1>1. TypeOK'
  BY <1>0, PlayerTyped
<1>2. round \in RefNames /\ CompactRef \in RefNames
  BY <1>0, BoundsAssumption DEF TypeOK, RefNames, CompactRef
<1>3. SUFFICES /\ pc # "done"
               /\ pc' \in {"top", "launch", "player", "protect", "gate", "halt"}
               /\ UNCHANGED <<commit, out, halted>>
               /\ SnapRefLives'
  BY <1>1, StillRunning, Elsewhere DEF PhaseInv
<1>4. CASE NextRound
  BY <1>0, <1>2, <1>4, SnapshotLives DEF NextRound, HaltFor, Goto, tVars, oVars,
     TypeOK, SnapRefLives
<1>5. CASE LaunchPlayer
  <2>1. pc = "launch" /\ UNCHANGED <<tVars, oVars, halted>>
    BY <1>5 DEF LaunchPlayer
  <2>2. pc' \in {"halt", "player"}
    BY <1>5 DEF LaunchPlayer, CheckStop, HaltFor, Goto
  <2> QED
    BY <1>0, <2>1, <2>2 DEF tVars, oVars, SnapRefLives
<1>6. ASSUME NEW t \in Trees, NEW valid \in BOOLEAN, PlayerReplies(t, valid)
      PROVE  /\ pc # "done"
             /\ pc' \in {"top", "launch", "player", "protect", "gate", "halt"}
             /\ UNCHANGED <<commit, out, halted>>
             /\ SnapRefLives'
  BY <1>0, <1>2, <1>6, SnapshotLives DEF PlayerReplies, CheckStop, HaltFor, Goto,
     playerRest, oVars
<1>7. ASSUME NEW t \in Trees, PlayerCrashes(t)
      PROVE  /\ pc # "done"
             /\ pc' \in {"top", "launch", "player", "protect", "gate", "halt"}
             /\ UNCHANGED <<commit, out, halted>>
             /\ SnapRefLives'
  BY <1>0, <1>2, <1>7, SnapshotLives DEF PlayerCrashes, CheckStop, HaltFor, Goto,
     playerRest, oVars
<1>8. ASSUME NEW t \in Trees, NEW reason, PlayerRefused(t, reason)
      PROVE  /\ pc # "done"
             /\ pc' \in {"top", "launch", "player", "protect", "gate", "halt"}
             /\ UNCHANGED <<commit, out, halted>>
             /\ SnapRefLives'
  BY <1>0, <1>8 DEF PlayerRefused, HaltFor, playerRest, oVars, SnapRefLives
<1>9. ASSUME NEW t \in Trees, PlayerCompacts(t)
      PROVE  /\ pc # "done"
             /\ pc' \in {"top", "launch", "player", "protect", "gate", "halt"}
             /\ UNCHANGED <<commit, out, halted>>
             /\ SnapRefLives'
  <2>1. pc = "player" /\ UNCHANGED <<commit, out, halted>>
    BY <1>9 DEF PlayerCompacts, RecordCompact,
          CompactFailed, playerRest, oVars
  <2>2. pc' \in {"player", "halt"}
    BY <1>9 DEF PlayerCompacts, RecordCompact,
          CompactFailed, Goto, HaltFor
  <2>3. SnapRefLives'
    BY <1>0, <1>2, <1>9, SnapshotLives DEF PlayerCompacts, RecordCompact,
          CompactFailed
  <2> QED
    BY <2>1, <2>2, <2>3
<1>10. ASSUME NEW t \in Trees, NEW violated \in BOOLEAN, ProtectTests(t, violated)
       PROVE  /\ pc # "done"
              /\ pc' \in {"top", "launch", "player", "protect", "gate", "halt"}
              /\ UNCHANGED <<commit, out, halted>>
              /\ SnapRefLives'
  <2>1. pc' \in {"top", "gate", "halt"}
    BY <1>0, <1>10, StuckOrNext DEF ProtectTests, CheckStop, HaltFor, Goto
  <2> QED
    BY <1>0, <1>10, <2>1 DEF ProtectTests, oVars, SnapRefLives
<1> QED
  BY <1>4, <1>5, <1>6, <1>7, <1>8, <1>9, <1>10 DEF PlayerStep

\* The judge called on a fresh snapshot of the tree that passed the gate.
LEMMA CallsOnGated ==
    ASSUME TypeOK, SnapRefLives, NEW t \in Trees, CallJudge(t), gated' = t
    PROVE  /\ SnapRefLives'
           /\ EntersOnGated' /\ JudgesGated' /\ PendsOnGated' /\ ShipsGated'
<1>1. round \in RefNames /\ round # NoRef
  BY BoundsAssumption DEF TypeOK, RefNames, NoRef
<1>2. SnapRefLives'
  BY <1>1, SnapshotLives DEF CallJudge
<1>3. pc' \in {"judge", "top"}
  BY DEF CallJudge, Goto
<1>4. JudgesGated'
  BY <1>1 DEF CallJudge, SnapshotOk, SnapshotFailed, Goto, JudgesGated, TypeOK
<1> QED
  BY <1>2, <1>3, <1>4 DEF EntersOnGated, PendsOnGated, ShipsGated

\* The steps of the gates keep the invariant.
LEMMA GateInv == PhaseInv /\ GateStep => PhaseInv'
<1> SUFFICES ASSUME PhaseInv, NEW t \in Trees, NEW b \in BOOLEAN, NEW ok \in BOOLEAN,
                    \/ GateGreen(t, b)
                    \/ GateRed(t, b)
                    \/ FullGate(t, b)
                    \/ EnterGate(t, ok, b)
             PROVE  PhaseInv'
  BY DEF GateStep
<1>0. TypeOK /\ SnapRefLives
  BY DEF PhaseInv
<1>1. TypeOK'
  BY <1>0, GateTyped DEF GateStep
<1>2. pc # "done" /\ UNCHANGED <<commit, out, halted>>
  BY DEF GateGreen, GateRed, FullGate, EnterGate, oVars
<1>3. SUFFICES /\ SnapRefLives'
               /\ EntersOnGated' /\ JudgesGated' /\ PendsOnGated' /\ ShipsGated'
  BY <1>1, <1>2, StillRunning DEF PhaseInv
<1>4. CASE GateGreen(t, b)
  <2>1. CASE stopFlag
    BY <1>0, <1>4, <2>1, Elsewhere DEF GateGreen, HaltFor, SnapRefLives
  <2>2. CASE ~stopFlag
    BY <1>0, <1>4, <2>2, CallsOnGated DEF GateGreen, PassGate
  <2> QED
    BY <2>1, <2>2
<1>5. CASE GateRed(t, b)
  <2>1. pc' \in {"top", "halt"}
    <3>1. CASE stopFlag
      BY <1>5, <3>1 DEF GateRed, HaltFor
    <3>2. CASE ~stopFlag /\ b
      BY <1>0, <1>5, <3>2, StuckOrNext DEF GateRed
    <3>3. CASE ~stopFlag /\ ~b
      BY <1>5, <3>3 DEF GateRed, Goto
    <3> QED
      BY <3>1, <3>2, <3>3
  <2> QED
    BY <1>0, <1>5, <2>1, Elsewhere DEF GateRed, SnapRefLives
<1>6. CASE FullGate(t, b)
  <2>1. UNCHANGED <<refs, snapRef, gated, approved>>
    BY <1>6 DEF FullGate
  <2>2. pc' \in {"ship", "top", "halt"}
    BY <1>6 DEF FullGate, CheckStop, HaltFor, Goto
  <2>3. tree = approved /\ tree = gated
    BY <1>6 DEF FullGate, PhaseInv, ShipsGated
  <2>4. ASSUME GateWrites => ~Scoped PROVE tree' = tree
    BY <1>6, <2>4 DEF FullGate, FullGateNeeded, AfterTests
  <2>5. ShipsGated'
    BY <2>1, <2>2, <2>3, <2>4 DEF ShipsGated
  <2> QED
    BY <1>0, <2>1, <2>2, <2>5 DEF SnapRefLives, EntersOnGated, JudgesGated,
       PendsOnGated
<1>7. CASE EnterGate(t, ok, b)
  <2>1. ~start.reuse /\ UNCHANGED <<start, refs, snapRef>>
    BY <1>0, <1>7, StartsAssumption DEF EnterGate, TypeOK
  <2>2. pc' \in {"enterJudge", "top"}
    BY <1>7 DEF EnterGate, Goto
  <2>3. pc' = "enterJudge" => tree' = gated'
    BY <1>7 DEF EnterGate, Goto, PassGate
  <2>4. EntersOnGated'
    BY <2>1, <2>2, <2>3 DEF EntersOnGated
  <2> QED
    BY <1>0, <2>1, <2>2, <2>4 DEF SnapRefLives, JudgesGated, PendsOnGated,
       ShipsGated
<1> QED
  BY <1>4, <1>5, <1>6, <1>7

\* The steps of the tester keep the invariant.
LEMMA TesterInv == PhaseInv /\ TesterStep => PhaseInv'
<1> SUFFICES ASSUME PhaseInv, TesterStep PROVE PhaseInv'
  OBVIOUS
<1>1. TypeOK'
  BY TesterTyped DEF PhaseInv
<1>2. /\ pc # "done" /\ pc' \in {"top", "halt"}
      /\ UNCHANGED <<commit, out, halted, refs, snapRef>>
  BY DEF TesterStep, TesterWrites, TesterFails, TesterRefused, Goto, HaltFor,
     testerRest, oVars
<1>3. SnapRefLives'
  BY <1>2 DEF PhaseInv, SnapRefLives
<1> QED
  BY <1>1, <1>2, <1>3, StillRunning, Elsewhere DEF PhaseInv

----------------------------------------------------------------------------
\* The judge is reached from a resume.
LEMMA EnterJudgeInv == PhaseInv /\ EnterJudge => PhaseInv'
<1> SUFFICES ASSUME PhaseInv, EnterJudge PROVE PhaseInv'
  OBVIOUS
<1>0. /\ TypeOK /\ SnapRefLives
      /\ pc = "enterJudge" \/ (pc = "enter" /\ ~start.gateFirst)
      /\ IF start.reuse THEN snapRef # NoRef /\ refs[snapRef] = gated
                        ELSE tree = gated
  BY DEF PhaseInv, EnterJudge, EntersOnGated
<1>1. /\ pc # "done" /\ UNCHANGED <<commit, out, halted>>
      /\ UNCHANGED <<start, gated>> /\ entered' \in BOOLEAN
  BY <1>0 DEF EnterJudge, oVars, gVars
<1>2. SUFFICES /\ /\ tree' \in Trees /\ refs' \in [RefNames -> TreeOrNone]
                  /\ snapRef' \in RefNames \cup {NoRef}
                  /\ judgeRef' \in RefNames \cup {NoRef}
                  /\ pc' \in PCs /\ cause' \in Reasons
               /\ SnapRefLives'
               /\ EntersOnGated' /\ JudgesGated' /\ PendsOnGated' /\ ShipsGated'
  <2>1. TypeOK'
    BY <1>0, <1>1, <1>2 DEF EnterJudge, TypeOK, pVars, kVars, fVars, gVars,
       oVars
  <2> QED
    BY <1>1, <1>2, <2>1, StillRunning DEF PhaseInv
<1>3. CASE stopFlag
  <2>1. pc' = "halt" /\ cause' = "user_stop" /\ UNCHANGED <<tVars, judgeRef>>
    BY <1>3 DEF EnterJudge, HaltFor
  <2> QED
    BY <1>0, <2>1, Elsewhere DEF tVars, TypeOK, SnapRefLives, PCs, Reasons
<1>4. CASE ~stopFlag /\ ~start.reuse
  <2>1. CallJudge(tree) /\ UNCHANGED tree
    BY <1>4 DEF EnterJudge
  <2> QED
    BY <1>0, <1>1, <1>4, <2>1, CallsOnGated, CallJudgeTyped DEF TypeOK, PCs
<1>5. CASE ~stopFlag /\ start.reuse
  <2>1. snapRef \in RefNames /\ snapRef # NoRef /\ refs[snapRef] = gated /\ gated \in Trees
    BY <1>0, <1>5 DEF TypeOK, SnapRefLives
  <2>2. CASE /\ tree' = refs[snapRef] /\ judgeRef' = snapRef
             /\ Goto("judge") /\ UNCHANGED <<refs, snapRef>>
    <3>1. JudgesGated'
      BY <1>1, <2>1, <2>2 DEF JudgesGated
    <3> QED
      BY <1>0, <2>1, <2>2, <3>1 DEF Goto, TypeOK, SnapRefLives, EntersOnGated,
         PendsOnGated, ShipsGated, PCs
  <2>3. CASE pc' = "pending" /\ cause' = "judge_failed" /\ UNCHANGED <<tVars, judgeRef>>
    <3>1. PendsOnGated'
      BY <1>1, <2>1, <2>3 DEF PendsOnGated, tVars
    <3>2. "judge_failed" \in Reasons
      BY DEF Reasons, PendingReasons
    <3> QED
      BY <1>0, <2>1, <2>3, <3>1, <3>2 DEF tVars, TypeOK, SnapRefLives,
         EntersOnGated, JudgesGated, ShipsGated, PCs
  <2> QED
    BY <1>5, <2>2, <2>3 DEF EnterJudge
<1> QED
  BY <1>3, <1>4, <1>5

\* What the replies of the judge have in common: they leave the refs alone,
\* give the tree back, and go on to a place the invariant can speak of.
LEMMA JudgeReplyInv ==
    ASSUME PhaseInv, pc = "judge", tree' = refs[judgeRef],
           UNCHANGED <<start, round, refs, snapRef, stopFlag, judgeRef, entered,
                       pVars, escalated, kVars, fVars, gVars, oVars,
                       halted, escPlayed>>,
           judgeFails' \in Nat, needsUser' \in Nat, judgeCompacted' \in BOOLEAN,
           approved' \in TreeOrNone,
           cause' \in Reasons,
           pc' \in {"judge", "pending", "halt", "fullGate"},
           pc' = "fullGate" => approved' = refs[judgeRef]
    PROVE  PhaseInv'
<1>0. TypeOK /\ SnapRefLives /\ JudgesGated
  BY DEF PhaseInv
<1>1. /\ judgeRef \in RefNames /\ judgeRef # NoRef /\ judgeRef = snapRef
      /\ refs[judgeRef] = gated /\ gated \in Trees
  BY <1>0 DEF TypeOK, JudgesGated
<1>2. TypeOK'
  BY <1>0, <1>1 DEF TypeOK, PCs, pVars, kVars, fVars, gVars, oVars
<1>3. SnapRefLives'
  BY <1>0 DEF SnapRefLives
<1>4. EntersOnGated' /\ JudgesGated' /\ PendsOnGated' /\ ShipsGated'
  BY <1>1 DEF EntersOnGated, JudgesGated, PendsOnGated, ShipsGated, gVars
<1> QED
  BY <1>2, <1>3, <1>4, StillRunning DEF PhaseInv, oVars

\* A NO_SHIP keeps the invariant.
LEMMA NoShipInv ==
    ASSUME PhaseInv, NEW t \in Trees, NEW resolved \in SUBSET open,
           NEW new \in SUBSET Findings, NEW disc \in SUBSET guarded,
           NEW toTester \in BOOLEAN, NEW shrunk \in BOOLEAN,
           JudgeNoShip(t, resolved, new, disc, toTester, shrunk)
    PROVE  PhaseInv'
<1>0. TypeOK /\ SnapRefLives /\ round \in RefNames
  BY BoundsAssumption DEF PhaseInv, TypeOK, RefNames
<1>1. PICK w \in IF disc = {} THEN {AfterJudge(t)} ELSE Trees :
         \/ JudgeRejects(w, resolved, new, disc, toTester)
         \/ JudgeRejectsContinuation(w, resolved, new, toTester, shrunk)
  BY DEF JudgeNoShip
<1>2. w \in Trees
  BY <1>0, <1>1 DEF JudgeNoShip, PhaseInv, JudgesGated, AfterJudge, TypeOK
<1>3. /\ pc' \in {"halt", "tester", "top", "raised"}
      /\ cause' \in Reasons
      /\ tree' \in Trees
      /\ \/ SnapshotOk(w, round)
         \/ UNCHANGED <<refs, snapRef>>
      /\ open' \subseteq Findings
      /\ hadCrash' \in BOOLEAN /\ resumed' \in BOOLEAN
      /\ kFlat' \in 0 .. KMax /\ kPrev' \in BOOLEAN
      /\ escalated' \in BOOLEAN
  <2>1. CASE JudgeRejects(w, resolved, new, disc, toTester)
    BY <1>0, <1>2, <2>1, RejectsTyped DEF TypeOK, kVars, Reasons, AskedReasons
  <2>2. CASE JudgeRejectsContinuation(w, resolved, new, toTester, shrunk)
    BY <1>0, <1>2, <2>2, ContinuationTyped DEF TypeOK, Reasons, SnapshotOk
  <2> QED
    BY <1>1, <2>1, <2>2
<1>4. TypeOK'
  <2>1. refs' \in [RefNames -> TreeOrNone] /\ snapRef' \in RefNames \cup {NoRef}
    BY <1>0, <1>2, <1>3 DEF SnapshotOk, TypeOK, TreeOrNone
  <2>2. judgeFails' \in Nat /\ needsUser' \in Nat /\ guarded' \subseteq Findings
    BY <1>0 DEF JudgeNoShip, TypeOK
  <2> QED
    BY <1>0, <1>3, <2>1, <2>2 DEF JudgeNoShip, TypeOK, PCs, gVars, oVars
<1>5. SnapRefLives'
  BY <1>0, <1>2, <1>3, SnapshotLives
<1>6. pc # "done" /\ UNCHANGED <<commit, out, halted>>
  BY DEF JudgeNoShip, oVars
<1> QED
  BY <1>3, <1>4, <1>5, <1>6, StillRunning, Elsewhere DEF PhaseInv

\* The steps of the judge keep the invariant.
LEMMA JudgeInv == PhaseInv /\ JudgeStep => PhaseInv'
<1> SUFFICES ASSUME PhaseInv, JudgeStep PROVE PhaseInv'
  OBVIOUS
<1>0. TypeOK
  BY DEF PhaseInv
<1>1. CASE EnterJudge
  BY <1>1, EnterJudgeInv
<1>2. ASSUME NEW t \in Trees,
             NEW reason \in {"judge_failed", "judge_auth", "judge_quota"},
             JudgeFails(t, reason)
      PROVE  PhaseInv'
  <2>1. pc' \in {"judge", "pending", "halt"} /\ cause' \in Reasons
    BY <1>0, <1>2 DEF JudgeFails, JudgePends, HaltFor, Goto, TypeOK, Reasons,
       PendingReasons
  <2>2. /\ judgeFails' \in Nat /\ needsUser' \in Nat /\ judgeCompacted' \in BOOLEAN
        /\ approved' \in TreeOrNone
    BY <1>0, <1>2 DEF JudgeFails, TypeOK
  <2> QED
    BY <1>2, <2>1, <2>2, JudgeReplyInv DEF JudgeFails, AfterJudge, judgeRest
<1>3. ASSUME NEW t \in Trees, JudgeCompacts(t) PROVE PhaseInv'
  <2>1. judgeCompacted' \in BOOLEAN
    BY <1>3 DEF JudgeCompacts
  <2>2. /\ pc' = "judge" /\ cause' \in Reasons /\ judgeFails' \in Nat
        /\ needsUser' \in Nat /\ approved' \in TreeOrNone
    BY <1>0, <1>3 DEF JudgeCompacts, Goto, TypeOK
  <2> QED
    BY <1>3, <2>1, <2>2, JudgeReplyInv DEF JudgeCompacts, AfterJudge, judgeRest
<1>4. ASSUME NEW t \in Trees, JudgeNeedsUser(t) PROVE PhaseInv'
  <2>1. pc' \in {"judge", "pending", "halt"} /\ cause' \in Reasons
    BY <1>0, <1>4 DEF JudgeNeedsUser, JudgePends, HaltFor, Goto, TypeOK, Reasons,
       PendingReasons, AskedReasons
  <2>2. /\ judgeFails' \in Nat /\ needsUser' \in Nat /\ judgeCompacted' \in BOOLEAN
        /\ approved' \in TreeOrNone
    BY <1>0, <1>4 DEF JudgeNeedsUser, TypeOK
  <2> QED
    BY <1>4, <2>1, <2>2, JudgeReplyInv DEF JudgeNeedsUser, AfterJudge, judgeRest
<1>5. ASSUME NEW t \in Trees, JudgeShips(t) PROVE PhaseInv'
  <2>1. pc' \in {"fullGate", "halt"} /\ cause' \in Reasons
    BY <1>0, <1>5 DEF JudgeShips, HaltFor, Goto, TypeOK, Reasons
  <2>2. /\ judgeFails' \in Nat /\ needsUser' \in Nat /\ judgeCompacted' \in BOOLEAN
        /\ approved' = refs[judgeRef]
    BY <1>0, <1>5 DEF JudgeShips, TypeOK
  <2>3. refs[judgeRef] \in TreeOrNone
    BY <1>0, <1>5 DEF JudgeShips, PhaseInv, JudgesGated, TypeOK
  <2> QED
    BY <1>5, <2>1, <2>2, <2>3, JudgeReplyInv DEF JudgeShips, AfterJudge, judgeRest
<1> QED
  BY <1>1, <1>2, <1>3, <1>4, <1>5, NoShipInv DEF JudgeStep

----------------------------------------------------------------------------
\* What ends a phase keeps the invariant, when the tree it removes is saved
\* and a judge_pending question names the gated tree.
LEMMA Ends ==
    ASSUME PhaseInv, pc # "done", NEW o, Finish(o),
           o \in [status : Statuses, reason : Reasons, sha : TreeOrNone],
           UNCHANGED endRest,
           tree' \in Trees, refs' \in [RefNames -> TreeOrNone],
           snapRef' \in RefNames \cup {NoRef}, commit' \in TreeOrNone,
           halted' \subseteq Trees,
           SnapRefLives', ShippedIsApproved', HaltKeepsWork', PendingIsGated'
    PROVE  PhaseInv'
<1>1. TypeOK'
  BY DEF PhaseInv, TypeOK, Finish, endRest, jVars, pVars, kVars, fVars, gVars, PCs
<1>2. pc' = "done"
  BY DEF Finish
<1>3. Unfinished'
  BY <1>2 DEF Unfinished
<1> QED
  BY <1>1, <1>2, <1>3, Elsewhere DEF PhaseInv

\* A commit keeps the invariant.
LEMMA ShipInv == PhaseInv /\ Ship => PhaseInv'
<1> SUFFICES ASSUME PhaseInv, Ship PROVE PhaseInv'
  OBVIOUS
<1> DEFINE o == Outcome("ship", "ship", NoTree)
<1>1. o \in [status : Statuses, reason : Reasons, sha : TreeOrNone]
  BY DEF Outcome, Statuses, Reasons, TreeOrNone
<1>2. /\ pc = "ship" /\ commit' = tree /\ Finish(o)
      /\ UNCHANGED <<endRest, tVars, halted>>
  BY DEF Ship
<1>3. halted = {} /\ TypeOK /\ SnapRefLives
  BY <1>2 DEF PhaseInv, Unfinished
<1>4. ShippedIsApproved'
  BY <1>2 DEF PhaseInv, ShipsGated, ShippedIsApproved, endRest, gVars
<1>5. HaltKeepsWork'
  BY <1>2, <1>3 DEF HaltKeepsWork
<1>6. PendingIsGated'
  BY <1>2 DEF PendingIsGated, Finish, Outcome
<1>7. SnapRefLives'
  BY <1>2, <1>3 DEF SnapRefLives, tVars
<1>8. /\ tree' \in Trees /\ refs' \in [RefNames -> TreeOrNone]
      /\ snapRef' \in RefNames \cup {NoRef} /\ commit' \in TreeOrNone
      /\ halted' \subseteq Trees /\ UNCHANGED endRest
  BY <1>2, <1>3 DEF TypeOK, tVars, TreeOrNone
<1> QED
  BY <1>1, <1>2, <1>4, <1>5, <1>6, <1>7, <1>8, Ends

\* The rollback of a halt: what it removes is in the ref snapshot_ref names.
LEMMA RollbackInv ==
    ASSUME PhaseInv, pc # "done",
           \/ (RollbackOk \/ RollbackBroken) /\ halted' = halted \cup {tree}
           \/ UNCHANGED <<tVars, halted>>
    PROVE  /\ tree' \in Trees /\ refs' \in [RefNames -> TreeOrNone]
           /\ snapRef' \in RefNames \cup {NoRef} /\ halted' \subseteq Trees
           /\ SnapRefLives' /\ HaltKeepsWork'
<1>0. /\ TypeOK /\ SnapRefLives /\ halted = {} /\ Base \in Trees
      /\ round \in RefNames /\ round # NoRef
  BY TreesAssumption, BoundsAssumption
     DEF PhaseInv, Unfinished, TypeOK, RefNames, NoRef
<1>1. CASE (RollbackOk \/ RollbackBroken) /\ halted' = halted \cup {tree}
  <2>1. /\ refs' = [refs EXCEPT ![round] = tree] /\ snapRef' = round
        /\ tree' \in Trees
    BY <1>0, <1>1 DEF RollbackOk, RollbackBroken, SnapshotOk
  <2>2. halted' = {tree} /\ refs'[round] = tree /\ tree \in Trees
    BY <1>0, <1>1, <2>1 DEF TypeOK
  <2>3. HaltKeepsWork'
    BY <1>0, <2>1, <2>2 DEF HaltKeepsWork
  <2>4. SnapRefLives'
    BY <2>1, <2>2 DEF SnapRefLives
  <2> QED
    BY <1>0, <2>1, <2>2, <2>3, <2>4 DEF TypeOK, TreeOrNone
<1>2. CASE UNCHANGED <<tVars, halted>>
  BY <1>0, <1>2 DEF tVars, TypeOK, SnapRefLives, HaltKeepsWork
<1> QED
  BY <1>1, <1>2

\* The ends that neither commit nor ask about a pending judge.
LEMMA StopsInv ==
    ASSUME PhaseInv, pc # "done", NEW o, Finish(o),
           o \in [status : Statuses, reason : Reasons, sha : TreeOrNone],
           ~(o.status = "waiting_human" /\ o.reason = "judge_pending"),
           UNCHANGED <<endRest, commit>>,
           \/ (RollbackOk \/ RollbackBroken) /\ halted' = halted \cup {tree}
           \/ UNCHANGED <<tVars, halted>>
    PROVE  PhaseInv'
<1>1. commit' = NoTree
  BY DEF PhaseInv, Unfinished
<1>2. ShippedIsApproved' /\ commit' \in TreeOrNone
  BY <1>1 DEF ShippedIsApproved, TreeOrNone
<1>3. PendingIsGated'
  BY DEF PendingIsGated, Finish
<1> QED
  BY <1>2, <1>3, RollbackInv, Ends

\* A secret in the index keeps the invariant.
LEMMA BlockedInv == PhaseInv /\ ShipBlocked => PhaseInv'
<1> SUFFICES ASSUME PhaseInv, ShipBlocked PROVE PhaseInv'
  OBVIOUS
<1>1. CASE /\ Decisions /\ HaltFor("secrets")
           /\ UNCHANGED <<tVars, out, halted>> /\ UNCHANGED <<endRest, commit>>
  <2>1. TypeOK /\ SnapRefLives /\ pc # "done"
    BY DEF PhaseInv, ShipBlocked
  <2>2. pc' = "halt" /\ cause' \in Reasons
    BY <1>1 DEF HaltFor, Reasons, AskedReasons
  <2>3. TypeOK'
    BY <1>1, <2>1, <2>2 DEF TypeOK, PCs, endRest, tVars, jVars, pVars,
       kVars, fVars, gVars
  <2>4. SnapRefLives'
    BY <1>1, <2>1 DEF SnapRefLives, tVars
  <2>5. UNCHANGED <<commit, out, halted>>
    BY <1>1
  <2> QED
    BY <2>1, <2>2, <2>3, <2>4, <2>5, StillRunning, Elsewhere DEF PhaseInv
<1>2. CASE ~Decisions
  <2> DEFINE o == Outcome("stop", "secrets", NoTree)
  <2>1. o \in [status : Statuses, reason : Reasons, sha : TreeOrNone]
    BY DEF Outcome, Statuses, Reasons, AskedReasons, TreeOrNone
  <2>2. ~(o.status = "waiting_human" /\ o.reason = "judge_pending")
    BY DEF Outcome
  <2>3. /\ pc # "done" /\ Finish(o) /\ UNCHANGED <<endRest, commit>>
        /\ \/ (RollbackOk \/ RollbackBroken) /\ halted' = halted \cup {tree}
           \/ UNCHANGED <<tVars, halted>>
    BY <1>2 DEF ShipBlocked, RollbackSkipped
  <2> HIDE DEF o
  <2> QED
    BY <2>1, <2>2, <2>3, StopsInv
<1> QED
  BY <1>1, <1>2 DEF ShipBlocked

\* DecisionStep._old_halt keeps the invariant.
LEMMA OldHaltInv ==
    ASSUME PhaseInv, pc # "done", NEW reason \in Reasons, OldHalt(reason),
           UNCHANGED <<endRest, commit>>
    PROVE  PhaseInv'
<1> DEFINE o == Outcome("stop", reason, NoTree)
<1>1. o \in [status : Statuses, reason : Reasons, sha : TreeOrNone]
  BY DEF Outcome, Statuses, TreeOrNone
<1>2. ~(o.status = "waiting_human" /\ o.reason = "judge_pending")
  BY DEF Outcome
<1>3. /\ Finish(o)
      /\ \/ (RollbackOk \/ RollbackBroken) /\ halted' = halted \cup {tree}
         \/ UNCHANGED <<tVars, halted>>
  BY DEF OldHalt, RollbackSkipped
<1> HIDE DEF o
<1> QED
  BY <1>1, <1>2, <1>3, StopsInv

\* A halt keeps the invariant.
LEMMA HaltInv == PhaseInv /\ Halt => PhaseInv'
<1> SUFFICES ASSUME PhaseInv, Halt PROVE PhaseInv'
  OBVIOUS
<1> DEFINE reason == IF stopFlag THEN "user_stop" ELSE cause
           o(status, sha) == Outcome(status, reason, sha)
<1>1. pc # "done" /\ TypeOK /\ UNCHANGED <<endRest, commit>>
  BY DEF PhaseInv, Halt
<1>2. reason \in Reasons /\ tree \in Trees
  BY <1>1 DEF TypeOK, Reasons
<1>3. CASE OldHalt(reason)
  BY <1>1, <1>2, <1>3, OldHaltInv
<1>4. CASE reason \in ProviderReasons /\ Finish(o("waiting_limit", NoTree))
           /\ UNCHANGED <<tVars, halted>>
  <2>1. o("waiting_limit", NoTree)
          \in [status : Statuses, reason : Reasons, sha : TreeOrNone]
    BY <1>2 DEF Outcome, Statuses, TreeOrNone
  <2>2. o("waiting_limit", NoTree).status # "waiting_human"
    BY DEF Outcome
  <2> QED
    BY <1>1, <1>4, <2>1, <2>2, StopsInv
<1>5. CASE reason \in AskedReasons /\ Ask(reason, tree)
  <2>1. o("waiting_human", tree)
          \in [status : Statuses, reason : Reasons, sha : TreeOrNone]
    BY <1>2 DEF Outcome, Statuses, TreeOrNone
  <2>2. o("waiting_human", tree).reason # "judge_pending"
    BY <1>5 DEF Outcome, AskedReasons, ProviderReasons
  <2>3. Finish(o("waiting_human", tree)) /\ UNCHANGED <<tVars, halted>>
    BY <1>5 DEF Ask
  <2> QED
    BY <1>1, <2>1, <2>2, <2>3, StopsInv
<1> QED
  BY <1>3, <1>4, <1>5 DEF Halt

\* What ends a phase with a pending judge keeps the invariant.
LEMMA PendingInv == PhaseInv /\ StopJudgePending => PhaseInv'
<1> SUFFICES ASSUME PhaseInv, StopJudgePending PROVE PhaseInv'
  OBVIOUS
<1>1. /\ pc = "pending" /\ TypeOK /\ SnapRefLives /\ PendsOnGated
      /\ UNCHANGED <<endRest, commit>>
  BY DEF PhaseInv, StopJudgePending
<1>2. /\ snapRef \in RefNames /\ snapRef # NoRef
      /\ refs[snapRef] = gated /\ gated \in Trees /\ cause \in Reasons
  BY <1>1 DEF TypeOK, SnapRefLives, PendsOnGated
<1>3. CASE Finish(Outcome("judge_pending", cause, NoTree))
             /\ UNCHANGED <<tVars, halted>>
  <2> DEFINE o == Outcome("judge_pending", cause, NoTree)
  <2>1. o \in [status : Statuses, reason : Reasons, sha : TreeOrNone]
    BY <1>2 DEF Outcome, Statuses, TreeOrNone
  <2>2. o.status # "waiting_human"
    BY DEF Outcome
  <2>3. Finish(o) /\ UNCHANGED <<tVars, halted>>
    BY <1>3
  <2> HIDE DEF o
  <2> QED
    BY <1>1, <2>1, <2>2, <2>3, StopsInv
<1>4. CASE Ask("judge_pending", PendingTree)
  <2> DEFINE o == Outcome("waiting_human", "judge_pending", PendingTree)
  <2>1. PendingTree = gated
    BY <1>2 DEF PendingTree
  <2>2. o \in [status : Statuses, reason : Reasons, sha : TreeOrNone]
    BY <1>2, <2>1 DEF Outcome, Statuses, Reasons, TreeOrNone
  <2>3. Finish(o) /\ UNCHANGED <<tVars, halted>>
    BY <1>4 DEF Ask
  <2>4. o.sha = gated
    BY <2>1 DEF Outcome
  <2> HIDE DEF o
  <2>5. UNCHANGED gated
    BY <1>1 DEF endRest, gVars
  <2>6. PendingIsGated'
    BY <2>3, <2>4, <2>5 DEF PendingIsGated, Finish
  <2>7. commit' = NoTree /\ halted' = {}
    BY <1>1, <2>3 DEF PhaseInv, Unfinished
  <2>8. ShippedIsApproved' /\ HaltKeepsWork' /\ SnapRefLives'
    BY <1>1, <2>3, <2>7 DEF ShippedIsApproved, HaltKeepsWork, SnapRefLives, tVars
  <2>9. /\ tree' \in Trees /\ refs' \in [RefNames -> TreeOrNone]
        /\ snapRef' \in RefNames \cup {NoRef} /\ commit' \in TreeOrNone
        /\ halted' \subseteq Trees
    BY <1>1, <2>3, <2>7 DEF TypeOK, tVars, TreeOrNone
  <2> QED
    BY <1>1, <2>2, <2>3, <2>6, <2>8, <2>9, Ends
<1>5. CASE OldHalt(cause)
  BY <1>1, <1>2, <1>5, OldHaltInv
<1> QED
  BY <1>3, <1>4, <1>5 DEF StopJudgePending

\* A crash keeps the invariant.
LEMMA CrashInv == ASSUME PhaseInv, NEW t \in Trees, Crash(t) PROVE PhaseInv'
<1> DEFINE o == Outcome("stop", "crash", NoTree)
<1>1. /\ pc # "done" /\ Finish(o) /\ UNCHANGED <<endRest, commit>>
      /\ TypeOK /\ SnapRefLives /\ halted = {} /\ commit = NoTree
  BY DEF Crash, PhaseInv, Unfinished
<1>2. o \in [status : Statuses, reason : Reasons, sha : TreeOrNone]
        /\ o.reason = "crash" /\ o.status = "stop"
  BY DEF Outcome, Statuses, Reasons, TreeOrNone
<1> HIDE DEF o
<1>3. CrashRef \in RefNames /\ CrashRef # NoRef /\ Base \in Trees
  BY TreesAssumption, BoundsAssumption DEF RefNames, CrashRef, NoRef
<1>4. /\ tree' \in Trees /\ refs' \in [RefNames -> TreeOrNone]
      /\ snapRef' \in RefNames \cup {NoRef} /\ SnapRefLives'
      /\ \/ refs'[CrashRef] = t /\ halted' = halted \cup {t}
         \/ halted' = halted
  <2>1. CASE refs' = [refs EXCEPT ![CrashRef] = t] /\ halted' = halted \cup {t}
             /\ tree' = Base /\ snapRef' = CrashRef
    BY <1>1, <1>3, <2>1 DEF TypeOK, SnapRefLives, TreeOrNone
  <2>2. CASE refs' = [refs EXCEPT ![CrashRef] = t] /\ halted' = halted \cup {t}
             /\ tree' \in Trees /\ UNCHANGED snapRef
    BY <1>1, <1>3, <2>2 DEF TypeOK, SnapRefLives, TreeOrNone
  <2>3. CASE tree' = t /\ UNCHANGED <<refs, snapRef, halted>>
    BY <1>1, <2>3 DEF TypeOK, SnapRefLives
  <2> QED
    BY <2>1, <2>2, <2>3 DEF Crash
<1>5. out' = o
  BY <1>1 DEF Finish
<1>6. HaltKeepsWork'
  <2>1. CASE refs'[CrashRef] = t /\ halted' = halted \cup {t}
    BY <1>1, <1>2, <1>3, <1>5, <2>1 DEF HaltKeepsWork
  <2>2. CASE halted' = halted
    BY <1>1, <2>2 DEF HaltKeepsWork
  <2> QED
    BY <1>4, <2>1, <2>2
<1>7. ShippedIsApproved' /\ PendingIsGated'
  BY <1>1, <1>2, <1>5 DEF ShippedIsApproved, PendingIsGated
<1>8. halted' \subseteq Trees /\ commit' \in TreeOrNone
  BY <1>1, <1>4 DEF TreeOrNone
<1> QED
  BY <1>1, <1>2, <1>4, <1>6, <1>7, <1>8, Ends

\* The stop flag keeps the invariant.
LEMMA StopInv == PhaseInv /\ RaiseStop => PhaseInv'
BY DEF PhaseInv, RaiseStop, TypeOK, SnapRefLives, EntersOnGated, JudgesGated,
   PendsOnGated, ShipsGated, Unfinished, ShippedIsApproved, HaltKeepsWork,
   PendingIsGated, tVars, jVars, pVars, kVars, fVars, gVars, oVars

\* So does a step that changes nothing.
LEMMA StutterInv == PhaseInv /\ UNCHANGED vars => PhaseInv'
BY DEF PhaseInv, vars, TypeOK, SnapRefLives, EntersOnGated, JudgesGated,
   PendsOnGated, ShipsGated, Unfinished, ShippedIsApproved, HaltKeepsWork,
   PendingIsGated, tVars, jVars, pVars, kVars, fVars, gVars, oVars

----------------------------------------------------------------------------
\* Every step of the phase keeps the invariant.
LEMMA NextInv == PhaseInv /\ [Next]_vars => PhaseInv'
<1> SUFFICES ASSUME PhaseInv, [Next]_vars PROVE PhaseInv'
  OBVIOUS
<1>1. CASE Step
  <2>1. CASE Raised
    <3>1. tree \in Trees
      BY DEF PhaseInv, TypeOK
    <3> QED
      BY <2>1, <3>1, CrashInv DEF Raised
  <2> QED
    BY <1>1, <2>1, PlayerInv, GateInv, JudgeInv, TesterInv, ShipInv,
       BlockedInv, HaltInv, PendingInv DEF Step, EndStep
<1>2. CASE RaiseStop
  BY <1>2, StopInv
<1>3. CASE \E t \in Trees : Crash(t)
  BY <1>3, CrashInv
<1>4. CASE UNCHANGED vars
  BY <1>4, StutterInv
<1> QED
  BY <1>1, <1>2, <1>3, <1>4 DEF Next, Finished

\* The invariant holds in every state of every phase.
THEOREM PhaseCorrect == Spec => []PhaseInv
<1>1. Init => PhaseInv
  BY InitInv
<1>2. PhaseInv /\ [Next]_vars => PhaseInv'
  BY NextInv
<1> QED
  BY <1>1, <1>2, PTL DEF Spec

\* Every variable keeps its type.
THEOREM Typed == Spec => []TypeOK
<1>1. PhaseInv => TypeOK
  BY DEF PhaseInv
<1> QED
  BY <1>1, PhaseCorrect, PTL

\* The committed tree is the one the judge approved and the gate let pass.
THEOREM ShipsOnlyTheApproved == Spec => []ShippedIsApproved
<1>1. PhaseInv => ShippedIsApproved
  BY DEF PhaseInv
<1> QED
  BY <1>1, PhaseCorrect, PTL

\* No halt and no crash loses the work it removes from the tree.
THEOREM HaltsKeepTheWork == Spec => []HaltKeepsWork
<1>1. PhaseInv => HaltKeepsWork
  BY DEF PhaseInv
<1> QED
  BY <1>1, PhaseCorrect, PTL

\* A judge_pending question names the tree that passed the gate.
THEOREM AsksAboutTheGated == Spec => []PendingIsGated
<1>1. PhaseInv => PendingIsGated
  BY DEF PhaseInv
<1> QED
  BY <1>1, PhaseCorrect, PTL

----------------------------------------------------------------------------
(* The stop flag.                                                          *)

\* A verdict taken in with the stop flag up calls nothing more.
LEMMA VerdictStops ==
    ASSUME stopFlag, NEW toTester, AfterNoShip(toTester)
    PROVE  pc' \in {"halt", "top"}
  BY DEF AfterNoShip, CheckStop, HaltFor, Goto

\* The steps of the judge with the stop flag up.
LEMMA JudgeStops ==
    ASSUME TypeOK, stopFlag, JudgeStep
    PROVE  \/ pc' \in {"halt", "pending", "top", "raised"}
           \/ pc' = "judge" /\ JudgeAgain
           \/ pc' = "fullGate" /\ pc = "judge" /\ entered
<1>1. CASE EnterJudge
  BY <1>1 DEF EnterJudge, HaltFor
<1>2. ASSUME NEW t \in Trees, NEW reason, JudgeFails(t, reason)
      PROVE  pc' \in {"halt", "pending"} \/ (pc' = "judge" /\ JudgeAgain)
  <2>1. judgeFails \in Nat /\ pc = "judge" /\ judgeFails' = judgeFails + 1
    BY <1>2 DEF JudgeFails, TypeOK
  <2> QED
    BY <1>2, <2>1 DEF JudgeFails, JudgePends, HaltFor, Goto, JudgeAgain
<1>3. ASSUME NEW t \in Trees, JudgeCompacts(t)
      PROVE  pc' = "judge" /\ JudgeAgain
  BY <1>3 DEF JudgeCompacts, Goto, JudgeAgain
<1>4. ASSUME NEW t \in Trees, JudgeNeedsUser(t)
      PROVE  pc' \in {"halt", "pending"} \/ (pc' = "judge" /\ JudgeAgain)
  <2>1. needsUser \in Nat /\ pc = "judge"
    BY <1>4 DEF JudgeNeedsUser, TypeOK
  <2> QED
    BY <1>4, <2>1 DEF JudgeNeedsUser, JudgePends, HaltFor, Goto, JudgeAgain
<1>5. ASSUME NEW t \in Trees, JudgeShips(t)
      PROVE  pc' = "halt" \/ (pc' = "fullGate" /\ pc = "judge" /\ entered)
  BY <1>5 DEF JudgeShips, StopAfterVerdict, HaltFor, Goto, TypeOK
<1>6. ASSUME NEW t \in Trees, NEW resolved, NEW new, NEW disc, NEW toTester,
             NEW shrunk,
             JudgeNoShip(t, resolved, new, disc, toTester, shrunk)
      PROVE  pc' \in {"halt", "top", "raised"}
  <2>1. PICK w \in IF disc = {} THEN {AfterJudge(t)} ELSE Trees :
           \/ JudgeRejects(w, resolved, new, disc, toTester)
           \/ JudgeRejectsContinuation(w, resolved, new, toTester, shrunk)
    BY <1>6 DEF JudgeNoShip
  <2>2. \/ pc' = "halt"
        \/ AfterNoShip(toTester)
        \/ pc' = "raised"
    BY <2>1 DEF JudgeRejects, JudgeRejectsContinuation, CleanRetryRaises,
       HaltFor, Goto
  <2> QED
    BY <2>2, VerdictStops
<1> QED
  BY <1>1, <1>2, <1>3, <1>4, <1>5, <1>6 DEF JudgeStep

\* The other steps of a round with the stop flag up.
LEMMA RoundStops ==
    ASSUME TypeOK, stopFlag, PlayerStep \/ GateStep \/ TesterStep
    PROVE  \/ pc' \in {"halt", "top", "launch", "enterJudge"}
           \/ pc' = "player" /\ PlayerAgain
<1>1. CASE PlayerStep
  <2>1. ASSUME NEW t \in Trees, NEW violated \in BOOLEAN, ProtectTests(t, violated)
        PROVE  pc' \in {"top", "halt"}
    BY <2>1, StuckOrNext DEF ProtectTests, CheckStop, HaltFor
  <2>2. CASE NextRound
    BY <2>2 DEF NextRound, HaltFor, Goto
  <2>3. CASE LaunchPlayer
    BY <2>3 DEF LaunchPlayer, CheckStop, HaltFor
  <2>4. ASSUME NEW t \in Trees, NEW valid \in BOOLEAN, PlayerReplies(t, valid)
        PROVE  pc' = "halt"
    BY <2>4 DEF PlayerReplies, CheckStop, HaltFor
  <2>5. ASSUME NEW t \in Trees, PlayerCrashes(t) PROVE pc' = "halt"
    BY <2>5 DEF PlayerCrashes, CheckStop, HaltFor
  <2>6. ASSUME NEW t \in Trees, NEW reason, PlayerRefused(t, reason)
        PROVE  pc' = "halt"
    BY <2>6 DEF PlayerRefused, HaltFor
  <2>7. ASSUME NEW t \in Trees, PlayerCompacts(t)
        PROVE  pc' = "halt" \/ (pc' = "player" /\ PlayerAgain)
    <3>1. compacts \in Nat
      BY BoundsAssumption DEF TypeOK
    <3> QED
      BY <2>7, <3>1 DEF PlayerCompacts, CountCompact, RecordCompact,
         CompactFailed, Goto, HaltFor, PlayerAgain
  <2> QED
    BY <1>1, <2>1, <2>2, <2>3, <2>4, <2>5, <2>6, <2>7 DEF PlayerStep
<1>2. CASE GateStep
  BY <1>2 DEF GateStep, GateGreen, GateRed, FullGate, EnterGate, CheckStop,
     HaltFor, Goto
<1>3. CASE TesterStep
  BY <1>3 DEF TesterStep, TesterWrites, TesterFails, TesterRefused, Goto, HaltFor
<1> QED
  BY <1>1, <1>2, <1>3

\* What a step of the phase may start with the stop flag up.
StartsLittle ==
    /\ pc' \notin {"gate", "tester", "ship"}
    /\ pc' = "player" => PlayerAgain
    /\ pc' = "judge" => JudgeAgain
    /\ pc' = "fullGate" => pc = "judge" /\ entered

\* With the stop flag up no step of the phase leads to another call of an
\* agent or of the tests, nor to a commit.
LEMMA StepStops ==
    ASSUME TypeOK, Next, stopFlag, ~UNCHANGED vars
    PROVE  StartsLittle
<1> USE DEF StartsLittle
<1>1. CASE EndStep
  BY <1>1 DEF EndStep, Ship, ShipBlocked, Halt, StopJudgePending, Raised, Crash,
     OldHalt, Ask, Finish, HaltFor
<1>2. CASE \E t \in Trees : Crash(t)
  BY <1>2 DEF Crash, Finish
<1>3. CASE RaiseStop
  BY <1>3 DEF RaiseStop
<1>4. CASE JudgeStep
  BY <1>4, JudgeStops
<1>5. CASE PlayerStep \/ GateStep \/ TesterStep
  BY <1>5, RoundStops
<1> QED
  BY <1>1, <1>2, <1>3, <1>4, <1>5 DEF Next, Step, Finished

\* A stop that was asked for starts nothing more in the phase: no gate, no
\* tester and no commit, the player and the judge only again within the call
\* that was running, and the whole suite only after the SHIP of a judge the
\* phase was entered with (_after_judge).
THEOREM AStopStartsNothing == Spec => StopStartsNothing
<1>1. TypeOK /\ [Next]_vars => [stopFlag => StartsLittle]_vars
  BY StepStops
<1> QED
  BY <1>1, Typed, PTL DEF Spec, StopStartsNothing, StartsLittle

----------------------------------------------------------------------------
(* The full gate of the scoped mode.                                       *)

\* Only a gate, the full gate and the commit touch what FullGateKept is about.
LEMMA FullGateQuiet ==
    ASSUME TypeOK,
           \/ PlayerStep \/ JudgeStep \/ TesterStep
           \/ ShipBlocked \/ Halt \/ StopJudgePending
           \/ \E t \in Trees : Crash(t)
           \/ RaiseStop
           \/ UNCHANGED vars
    PROVE  /\ UNCHANGED <<greenFull, fullOk, commit>>
           /\ pc' = "ship" => pc = "ship" /\ UNCHANGED tree
<1>1. CASE PlayerStep
  <2>1. UNCHANGED <<greenFull, fullOk, commit>>
    BY <1>1 DEF PlayerStep, NextRound, LaunchPlayer, PlayerReplies,
       PlayerCrashes, PlayerRefused, PlayerCompacts, ProtectTests, playerRest,
       gVars, oVars
  <2>2. ASSUME NEW t \in Trees, NEW violated \in BOOLEAN, ProtectTests(t, violated)
        PROVE  pc' # "ship"
    BY <2>2, StuckOrNext DEF ProtectTests, CheckStop, HaltFor, Goto
  <2>3. ASSUME NEW t \in Trees, PlayerCompacts(t) PROVE pc' # "ship"
    BY <2>3 DEF PlayerCompacts, RecordCompact, CompactFailed, Goto, HaltFor
  <2>4. pc' # "ship"
    BY <1>1, <2>2, <2>3 DEF PlayerStep, NextRound, LaunchPlayer, PlayerReplies,
       PlayerCrashes, PlayerRefused, CheckStop, Goto, HaltFor
  <2> QED
    BY <2>1, <2>4
<1>2. CASE JudgeStep
  <2>1. UNCHANGED <<greenFull, fullOk, commit>>
    <3>1. CASE EnterJudge
      BY <3>1 DEF EnterJudge, gVars, oVars
    <3>2. ASSUME NEW t \in Trees, NEW reason,
                 \/ JudgeFails(t, reason) \/ JudgeCompacts(t)
                 \/ JudgeNeedsUser(t) \/ JudgeShips(t)
          PROVE  UNCHANGED <<greenFull, fullOk, commit>>
      BY <3>2 DEF JudgeFails, JudgeCompacts, JudgeNeedsUser, JudgeShips,
         judgeRest, gVars, oVars
    <3>3. ASSUME NEW t \in Trees, NEW resolved, NEW new, NEW disc,
                 NEW toTester, NEW shrunk,
                 JudgeNoShip(t, resolved, new, disc, toTester, shrunk)
          PROVE  UNCHANGED <<greenFull, fullOk, commit>>
      BY <3>3 DEF JudgeNoShip, gVars, oVars
    <3> QED
      BY <1>2, <3>1, <3>2, <3>3 DEF JudgeStep
  <2>2. CASE EnterJudge
    <3>1. pc' \in {"halt", "pending", "judge"} \/ CallJudge(tree)
      BY <2>2 DEF EnterJudge, HaltFor, Goto
    <3> QED
      BY <2>1, <3>1, CallJudgeTyped DEF TypeOK
  <2>3. ASSUME NEW t \in Trees, NEW reason,
               \/ JudgeFails(t, reason) \/ JudgeCompacts(t)
               \/ JudgeNeedsUser(t) \/ JudgeShips(t)
        PROVE  pc' # "ship"
    BY <2>3 DEF JudgeFails, JudgeCompacts, JudgeNeedsUser, JudgeShips,
       JudgePends, HaltFor, Goto
  <2>4. ASSUME NEW t \in Trees, NEW resolved, NEW new, NEW disc,
               NEW toTester \in BOOLEAN, NEW shrunk,
               JudgeNoShip(t, resolved, new, disc, toTester, shrunk)
        PROVE  pc' # "ship"
    <3>1. PICK w \in IF disc = {} THEN {AfterJudge(t)} ELSE Trees :
             \/ JudgeRejects(w, resolved, new, disc, toTester)
             \/ JudgeRejectsContinuation(w, resolved, new, toTester, shrunk)
      BY <2>4 DEF JudgeNoShip
    <3>2. pc' \in {"halt", "raised"} \/ AfterNoShip(toTester)
      BY <3>1 DEF JudgeRejects, JudgeRejectsContinuation, CleanRetryRaises,
         HaltFor, Goto
    <3> QED
      BY <3>2, VerdictTyped
  <2> QED
    BY <1>2, <2>1, <2>2, <2>3, <2>4 DEF JudgeStep
<1>3. CASE TesterStep
  BY <1>3 DEF TesterStep, TesterWrites, TesterFails, TesterRefused, Goto,
     HaltFor, testerRest, gVars, oVars
<1>4. CASE ShipBlocked \/ Halt \/ StopJudgePending \/ \E t \in Trees : Crash(t)
  BY <1>4 DEF ShipBlocked, Halt, StopJudgePending, Crash, OldHalt, Ask, Finish,
     HaltFor, endRest, gVars
<1>5. CASE RaiseStop \/ UNCHANGED vars
  BY <1>5 DEF RaiseStop, vars, tVars, gVars, oVars
<1> QED
  BY <1>1, <1>2, <1>3, <1>4, <1>5

\* Every step keeps what last_green_full_tree promises.
LEMMA FullGateNext ==
    ASSUME TypeOK, FullGateKept, [Next]_vars PROVE FullGateKept'
<1> SUFFICES ASSUME HasTests, Scoped, ~GateWrites
             PROVE  /\ greenFull' # NoTree => greenFull' \in fullOk'
                    /\ pc' = "ship" => tree' \in fullOk'
                    /\ commit' # NoTree => commit' \in fullOk'
  BY DEF FullGateKept
<1>1. /\ greenFull # NoTree => greenFull \in fullOk
      /\ pc = "ship" => tree \in fullOk
      /\ commit # NoTree => commit \in fullOk
      /\ tree \in Trees /\ tree # NoTree
  BY TreesAssumption DEF FullGateKept, TypeOK
<1>2. CASE Ship
  BY <1>1, <1>2 DEF Ship, Finish, endRest, gVars
<1>3. ASSUME NEW t \in Trees, NEW b \in BOOLEAN, GateGreen(t, b)
      PROVE  /\ pc' # "ship" /\ UNCHANGED commit
             /\ PassGate(t, b)
  BY <1>3 DEF GateGreen, CallJudge, HaltFor, Goto, oVars
<1>4. ASSUME NEW t \in Trees, NEW b \in BOOLEAN, NEW ok \in BOOLEAN,
             EnterGate(t, ok, b)
      PROVE  /\ pc' # "ship" /\ UNCHANGED commit
             /\ PassGate(t, b) \/ UNCHANGED <<greenFull, fullOk>>
  BY <1>4 DEF EnterGate, Goto, oVars
<1>5. ASSUME NEW t \in Trees, NEW b \in BOOLEAN, GateRed(t, b)
      PROVE  /\ pc' # "ship"
             /\ UNCHANGED <<greenFull, fullOk, commit>>
  <2>1. CASE ~stopFlag /\ b
    BY <1>5, <2>1, StuckOrNext DEF GateRed, oVars
  <2>2. CASE stopFlag \/ ~b
    BY <1>5, <2>2 DEF GateRed, HaltFor, Goto, oVars
  <2> QED
    BY <2>1, <2>2
<1>6. ASSUME NEW t \in Trees, NEW b \in BOOLEAN, PassGate(t, b)
      PROVE  /\ greenFull' # NoTree => greenFull' \in fullOk'
             /\ fullOk \subseteq fullOk'
  BY <1>1, <1>6 DEF PassGate
<1>7. ASSUME NEW t \in Trees, NEW b \in BOOLEAN, FullGate(t, b)
      PROVE  /\ greenFull' # NoTree => greenFull' \in fullOk'
             /\ pc' = "ship" => tree' \in fullOk'
             /\ fullOk \subseteq fullOk' /\ UNCHANGED commit
  <2>1. UNCHANGED commit
    BY <1>7 DEF FullGate, oVars
  <2>2. CASE ~FullGateNeeded
    <3>1. greenFull = tree
      BY <2>2 DEF FullGateNeeded
    <3>2. UNCHANGED <<tree, greenFull, fullOk>>
      BY <1>7, <2>2 DEF FullGate
    <3> QED
      BY <1>1, <2>1, <3>1, <3>2
  <2>3. CASE FullGateNeeded
    <3>1. tree' = tree
      BY <1>7, <2>3 DEF FullGate, AfterTests
    <3>2. CASE b
      <4>1. greenFull' = tree /\ fullOk' = fullOk \cup {tree}
        BY <1>7, <2>3, <3>2 DEF FullGate
      <4> QED
        BY <2>1, <3>1, <4>1
    <3>3. CASE ~b
      <4>1. CheckStop("top") /\ UNCHANGED <<greenFull, fullOk>>
        BY <1>7, <2>3, <3>3 DEF FullGate
      <4> QED
        BY <1>1, <2>1, <4>1 DEF CheckStop, HaltFor, Goto
    <3> QED
      BY <3>2, <3>3
  <2> QED
    BY <2>1, <2>2, <2>3
<1>8. CASE GateStep
  BY <1>1, <1>3, <1>4, <1>5, <1>6, <1>7, <1>8 DEF GateStep
<1>9. CASE \/ PlayerStep \/ JudgeStep \/ TesterStep
           \/ ShipBlocked \/ Halt \/ StopJudgePending
           \/ \E t \in Trees : Crash(t)
           \/ RaiseStop
           \/ UNCHANGED vars
  BY <1>1, <1>9, FullGateQuiet
<1>10. CASE Raised
  BY <1>1, <1>10, FullGateQuiet DEF Raised, TypeOK
<1> QED
  BY <1>2, <1>8, <1>9, <1>10 DEF Next, Step, EndStep, Finished

\* In the scoped mode only a tree on which the whole suite was green is
\* committed, however the gates, the judge and the retries are interleaved.
THEOREM ShipsAfterTheFullGate == Spec => []ShippedAfterFullGate
<1>1. Init => FullGateKept
  BY DEF Init, FullGateKept
<1>2. TypeOK /\ FullGateKept /\ [Next]_vars => FullGateKept'
  BY FullGateNext
<1>3. FullGateKept => ShippedAfterFullGate
  BY DEF FullGateKept, ShippedAfterFullGate
<1> QED
  BY <1>1, <1>2, <1>3, Typed, PTL DEF Spec

----------------------------------------------------------------------------
(* The escalation model.                                                   *)

\* Where the escalation model is due it has already played, at any place
\* that may call a phase stuck.
LEMMA StuckIsLate ==
    ASSUME TypeOK, EscalationKept, MayEscalate,
           pc \in {"protect", "gate", "judge"}, NoProgress(TRUE)
    PROVE  escPlayed
<1>1. EscalationDue
  BY DEF NoProgress, EscalateOnce, MayEscalate, EscalationDue, TypeOK
<1> QED
  BY <1>1 DEF EscalationKept

\* A step from a place where the escalation model is not awaited, that ends
\* no phase: it keeps the promise if it halts as stuck only after that model.
LEMMA Settles ==
    ASSUME EscalationKept, pc \notin {"launch", "top", "tester", "halt", "done"},
           UNCHANGED <<start, round, out, escPlayed>>,
           \/ UNCHANGED escalated
           \/ NoProgress(FALSE) /\ pc' \in {"top", "tester", "halt"},
           MayEscalate /\ pc' \in {"halt", "pending"} /\ cause' = "stuck"
              => escPlayed
    PROVE  EscalationKept'
<1> SUFFICES ASSUME MayEscalate'
             PROVE  /\ EscalationDue' =>
                          \/ escPlayed'
                          \/ pc' \in {"top", "tester"} /\ EscalateAt = 0
                          \/ pc' \in {"halt", "done"}
                    /\ pc' \in {"halt", "pending"} /\ cause' = "stuck" => escPlayed'
                    /\ out'.reason = "stuck" => escPlayed'
  BY DEF EscalationKept
<1>1. MayEscalate
  BY DEF MayEscalate
<1>2. EscalationDue => escPlayed
  BY <1>1 DEF EscalationKept
<1>3. CASE UNCHANGED escalated
  BY <1>1, <1>2, <1>3 DEF EscalationKept, EscalationDue
<1>4. CASE EscalateAt = 0 /\ pc' \in {"top", "tester", "halt"}
  BY <1>1, <1>4 DEF EscalationKept
<1> QED
  BY <1>1, <1>3, <1>4 DEF NoProgress, MayEscalate

\* So does a round that may be the last one.
LEMMA StuckOrNextSettles ==
    ASSUME TypeOK, EscalationKept, pc \in {"protect", "gate"},
           NextRoundUnlessStuck,
           UNCHANGED <<start, round, out, escPlayed>>
    PROVE  EscalationKept'
<1>1. CASE InContinuation
  BY <1>1, Settles DEF NextRoundUnlessStuck, Goto
<1>2. CASE NoProgress(TRUE) /\ HaltFor("stuck")
  <2>1. MayEscalate => escPlayed
    BY <1>2, StuckIsLate
  <2>2. CASE UNCHANGED escalated
    BY <1>2, <2>1, <2>2, Settles DEF HaltFor
  <2> QED
    BY <1>2, <2>2 DEF NoProgress, EscalateOnce
<1>3. CASE NoProgress(FALSE) /\ Goto("top")
  BY <1>3, Settles DEF Goto
<1>4. ~InContinuation => \/ NoProgress(TRUE) /\ HaltFor("stuck")
                         \/ NoProgress(FALSE) /\ Goto("top")
  BY DEF NextRoundUnlessStuck
<1> QED
  BY <1>1, <1>2, <1>3, <1>4

\* The steps of the player keep the promise.
LEMMA PlayerEscalates ==
    ASSUME TypeOK, EscalationKept, PlayerStep PROVE EscalationKept'
<1>1. CASE NextRound
  <2> SUFFICES ASSUME MayEscalate'
               PROVE  /\ EscalationDue' =>
                            \/ escPlayed'
                            \/ /\ pc' = "launch"
                               /\ EscalateAt # 0 => round' = EscalateAt
                            \/ pc' = "halt"
                      /\ pc' # "pending" /\ (pc' = "halt" => cause' # "stuck")
                      /\ out'.reason = "stuck" => escPlayed'
    BY DEF EscalationKept
  <2>1. /\ MayEscalate /\ pc = "top"
        /\ UNCHANGED <<start, out, escalated, escPlayed>>
    BY <1>1 DEF NextRound, MayEscalate, oVars
  <2>2. CASE pc' = "halt" /\ cause' = "fuse"
    BY <2>1, <2>2 DEF EscalationKept
  <2>3. CASE pc' = "launch" /\ round' = round + 1
    <3>1. ASSUME EscalateAt # 0, EscalationDue' PROVE escPlayed' \/ round' = EscalateAt
      <4>1. EscalateAt \in Nat /\ round \in Nat /\ round + 1 >= EscalateAt
        BY <2>3, <3>1, BoundsAssumption DEF EscalationDue, TypeOK
      <4>2. round >= EscalateAt => escPlayed
        BY <2>1, <3>1 DEF EscalationKept, EscalationDue
      <4> QED
        BY <2>1, <2>3, <4>1, <4>2
    <3> QED
      BY <2>1, <2>3, <3>1 DEF EscalationKept
  <2> QED
    BY <1>1, <2>2, <2>3 DEF NextRound, HaltFor, Goto
<1>2. CASE LaunchPlayer
  <2>1. /\ pc = "launch" /\ UNCHANGED <<start, round, out, escalated>>
    BY <1>2 DEF LaunchPlayer, oVars
  <2>2. MayEscalate' = MayEscalate /\ EscalationDue' = EscalationDue
    BY <2>1 DEF MayEscalate, EscalationDue
  <2>3. CASE stopFlag
    BY <1>2, <2>1, <2>2, <2>3 DEF LaunchPlayer, CheckStop, HaltFor, EscalationKept
  <2>4. CASE ~stopFlag
    <3>1. pc' = "player" /\ escPlayed' = (escPlayed \/ EscalationPlays)
      BY <1>2, <2>4 DEF LaunchPlayer, CheckStop, Goto
    <3>2. MayEscalate /\ EscalationDue => escPlayed \/ EscalationPlays
      BY <2>1 DEF EscalationKept, MayEscalate, EscalationDue, EscalationPlays
    <3>3. MayEscalate /\ out.reason = "stuck" => escPlayed
      BY DEF EscalationKept
    <3>4. MayEscalate /\ EscalationDue => escPlayed'
      BY <3>1, <3>2, Zenon
    <3>5. MayEscalate /\ out.reason = "stuck" => escPlayed'
      BY <3>1, <3>3, Zenon
    <3> QED
      BY <2>1, <2>2, <3>1, <3>4, <3>5 DEF EscalationKept
  <2> QED
    BY <2>3, <2>4
<1>3. ASSUME NEW t \in Trees, NEW valid \in BOOLEAN, PlayerReplies(t, valid)
      PROVE  EscalationKept'
  BY <1>3, Settles DEF PlayerReplies, CheckStop, HaltFor, Goto, playerRest, oVars
<1>4. ASSUME NEW t \in Trees, PlayerCrashes(t) PROVE EscalationKept'
  BY <1>4, Settles DEF PlayerCrashes, CheckStop, HaltFor, Goto, playerRest, oVars
<1>5. ASSUME NEW t \in Trees, NEW reason \in {"provider_auth", "provider_quota"},
             PlayerRefused(t, reason)
      PROVE  EscalationKept'
  BY <1>5, Settles DEF PlayerRefused, HaltFor, playerRest, oVars
<1>6. ASSUME NEW t \in Trees, PlayerCompacts(t) PROVE EscalationKept'
  BY <1>6, Settles DEF PlayerCompacts, RecordCompact, CompactFailed, HaltFor,
     Goto, playerRest, oVars
<1>7. ASSUME NEW t \in Trees, NEW violated \in BOOLEAN, ProtectTests(t, violated)
      PROVE  EscalationKept'
  <2>1. pc = "protect" /\ UNCHANGED <<start, round, out, escPlayed>>
    BY <1>7 DEF ProtectTests, oVars
  <2>2. CASE violated
    BY <1>7, <2>1, <2>2, StuckOrNextSettles DEF ProtectTests
  <2>3. CASE ~violated
    BY <1>7, <2>1, <2>3, Settles DEF ProtectTests, CheckStop, HaltFor, Goto
  <2> QED
    BY <2>2, <2>3
<1> QED
  BY <1>1, <1>2, <1>3, <1>4, <1>5, <1>6, <1>7 DEF PlayerStep

\* The steps of the gates keep the promise.
LEMMA GateEscalates ==
    ASSUME TypeOK, EscalationKept, GateStep PROVE EscalationKept'
<1>1. ASSUME NEW t \in Trees, NEW b \in BOOLEAN, GateGreen(t, b)
      PROVE  EscalationKept'
  BY <1>1, Settles DEF GateGreen, CallJudge, HaltFor, Goto, oVars
<1>2. ASSUME NEW t \in Trees, NEW b \in BOOLEAN, GateRed(t, b)
      PROVE  EscalationKept'
  <2>1. pc = "gate" /\ UNCHANGED <<start, round, out, escPlayed>>
    BY <1>2 DEF GateRed, oVars
  <2>2. CASE ~stopFlag /\ b
    BY <1>2, <2>1, <2>2, StuckOrNextSettles DEF GateRed
  <2>3. CASE stopFlag \/ ~b
    BY <1>2, <2>1, <2>3, Settles DEF GateRed, HaltFor, Goto
  <2> QED
    BY <2>2, <2>3
<1>3. ASSUME NEW t \in Trees, NEW b \in BOOLEAN, FullGate(t, b)
      PROVE  EscalationKept'
  BY <1>3, Settles DEF FullGate, CheckStop, HaltFor, Goto, oVars
<1>4. ASSUME NEW t \in Trees, NEW b \in BOOLEAN, NEW ok \in BOOLEAN,
             EnterGate(t, ok, b)
      PROVE  EscalationKept'
  BY <1>4, Settles DEF EnterGate, Goto, oVars
<1> QED
  BY <1>1, <1>2, <1>3, <1>4 DEF GateStep

\* A NO_SHIP keeps the promise.
LEMMA NoShipEscalates ==
    ASSUME TypeOK, EscalationKept, NEW t \in Trees, NEW resolved, NEW new,
           NEW disc, NEW toTester \in BOOLEAN, NEW shrunk,
           JudgeNoShip(t, resolved, new, disc, toTester, shrunk)
    PROVE  EscalationKept'
<1>0. pc = "judge" /\ UNCHANGED <<start, round, out, escPlayed>>
  BY DEF JudgeNoShip, oVars
<1>1. PICK w \in IF disc = {} THEN {AfterJudge(t)} ELSE Trees :
         \/ JudgeRejects(w, resolved, new, disc, toTester)
         \/ JudgeRejectsContinuation(w, resolved, new, toTester, shrunk)
  BY DEF JudgeNoShip
<1>2. ASSUME AfterNoShip(toTester)
      PROVE  /\ pc' \in {"top", "tester", "halt"}
             /\ pc' = "halt" => cause' = "user_stop"
  BY <1>2 DEF AfterNoShip, CheckStop, HaltFor, Goto
<1>3. CASE /\ NoProgress(TRUE)
           /\ HaltFor(IF StopAfterVerdict THEN "user_stop" ELSE "stuck")
  <2>1. MayEscalate => escPlayed
    BY <1>0, <1>3, StuckIsLate
  <2>2. UNCHANGED escalated
    BY <1>3 DEF NoProgress, EscalateOnce
  <2> QED
    BY <1>0, <1>3, <2>1, <2>2, Settles DEF HaltFor
<1>4. CASE AfterNoShip(toTester) /\ (UNCHANGED escalated \/ NoProgress(FALSE))
  BY <1>0, <1>2, <1>4, Settles
<1>5. CASE pc' = "raised" /\ UNCHANGED escalated
  BY <1>0, <1>5, Settles
<1>6. CASE JudgeRejects(w, resolved, new, disc, toTester)
  BY <1>3, <1>4, <1>6, Zenon DEF JudgeRejects
<1>7. CASE JudgeRejectsContinuation(w, resolved, new, toTester, shrunk)
  BY <1>4, <1>5, <1>7 DEF JudgeRejectsContinuation, CleanRetryRaises, Goto
<1> QED
  BY <1>1, <1>6, <1>7

\* The steps of the judge and of the tester keep the promise.
LEMMA JudgeEscalates ==
    ASSUME TypeOK, EscalationKept, JudgeStep \/ TesterStep PROVE EscalationKept'
<1>1. CASE EnterJudge
  BY <1>1, Settles DEF EnterJudge, CallJudge, HaltFor, Goto, oVars
<1>2. ASSUME NEW t \in Trees,
             NEW reason \in {"judge_failed", "judge_auth", "judge_quota"},
             JudgeFails(t, reason)
      PROVE  EscalationKept'
  BY <1>2, Settles DEF JudgeFails, JudgePends, HaltFor, Goto, judgeRest, oVars
<1>3. ASSUME NEW t \in Trees, JudgeCompacts(t) PROVE EscalationKept'
  BY <1>3, Settles DEF JudgeCompacts, Goto, judgeRest, oVars
<1>4. ASSUME NEW t \in Trees, JudgeNeedsUser(t) PROVE EscalationKept'
  BY <1>4, Settles DEF JudgeNeedsUser, JudgePends, HaltFor, Goto, judgeRest, oVars
<1>5. ASSUME NEW t \in Trees, JudgeShips(t) PROVE EscalationKept'
  BY <1>5, Settles DEF JudgeShips, HaltFor, Goto, judgeRest, oVars
<1>6. CASE TesterStep
  <2>1. /\ pc = "tester" /\ UNCHANGED <<start, round, out, escalated, escPlayed>>
        /\ pc' = "top" \/ (pc' = "halt" /\ cause' # "stuck")
    BY <1>6 DEF TesterStep, TesterWrites, TesterFails, TesterRefused, Goto,
       HaltFor, testerRest, oVars
  <2> QED
    BY <2>1 DEF EscalationKept, EscalationDue, MayEscalate
<1> QED
  BY <1>1, <1>2, <1>3, <1>4, <1>5, <1>6, NoShipEscalates DEF JudgeStep

\* The ends of a phase keep the promise.
LEMMA EndEscalates ==
    ASSUME EscalationKept,
           \/ Ship \/ ShipBlocked \/ Halt \/ StopJudgePending
           \/ \E t : Crash(t)
    PROVE  EscalationKept'
<1>1. UNCHANGED <<start, round, escalated, escPlayed>>
  BY DEF Ship, ShipBlocked, Halt, StopJudgePending, Crash, endRest
<1>2. MayEscalate' = MayEscalate
  BY <1>1 DEF MayEscalate
<1>3. CASE ShipBlocked /\ pc' = "halt"
  BY <1>1, <1>2, <1>3 DEF ShipBlocked, HaltFor, Finish, EscalationKept
<1>4. ASSUME NEW o, Finish(o), MayEscalate /\ o.reason = "stuck" => escPlayed
      PROVE  EscalationKept'
  BY <1>1, <1>2, <1>4 DEF Finish, EscalationKept
<1>5. CASE ShipBlocked /\ pc' # "halt"
  BY <1>4, <1>5 DEF ShipBlocked, HaltFor, Outcome
<1>6. CASE Ship
  BY <1>4, <1>6 DEF Ship, Outcome
<1>7. CASE Halt
  <2> DEFINE reason == IF stopFlag THEN "user_stop" ELSE cause
  <2>1. MayEscalate /\ reason = "stuck" => escPlayed
    BY <1>7 DEF Halt, EscalationKept
  <2>2. PICK status, sha : Finish(Outcome(status, reason, sha))
    BY <1>7 DEF Halt, Ask, OldHalt
  <2> QED
    BY <1>4, <2>1, <2>2 DEF Outcome
<1>8. CASE StopJudgePending
  <2>1. MayEscalate /\ cause = "stuck" => escPlayed
    BY <1>8 DEF StopJudgePending, EscalationKept
  <2>2. \/ Finish(Outcome("judge_pending", cause, NoTree))
        \/ Finish(Outcome("waiting_human", "judge_pending", PendingTree))
        \/ Finish(Outcome("stop", cause, NoTree))
    BY <1>8 DEF StopJudgePending, Ask, OldHalt
  <2> QED
    BY <1>4, <2>1, <2>2 DEF Outcome
<1>9. CASE \E t : Crash(t)
  BY <1>4, <1>9 DEF Crash, Outcome
<1> QED
  BY <1>3, <1>5, <1>6, <1>7, <1>8, <1>9

\* Every step keeps the promise of the escalation.
LEMMA EscalationNext ==
    ASSUME TypeOK, EscalationKept, [Next]_vars PROVE EscalationKept'
<1>1. CASE RaiseStop \/ UNCHANGED vars
  BY <1>1 DEF RaiseStop, vars, oVars, EscalationKept, EscalationDue, MayEscalate
<1>2. CASE Step
  BY <1>2, PlayerEscalates, GateEscalates, JudgeEscalates, EndEscalates
     DEF Step, EndStep, Raised
<1>3. CASE \E t \in Trees : Crash(t)
  BY <1>3, EndEscalates
<1> QED
  BY <1>1, <1>2, <1>3 DEF Next, Finished

\* No phase that can escalate is called stuck before the escalation model has
\* played a round of it, whichever of the two schedules is configured.
THEOREM StuckOnlyAfterEscalation == Spec => []EscalatedBeforeStuck
<1>1. Init => EscalationKept
  <2> SUFFICES ASSUME Init PROVE EscalationKept
    OBVIOUS
  <2>1. cause = "none" /\ out.reason = "none" /\ escalated = FALSE
    BY DEF Init, NoOut, Outcome
  <2>2. round = start.round /\ start.round \in Nat
    BY StartsAssumption, BoundsAssumption DEF Init, StartType
  <2>3. MayEscalate => ~EscalationDue
    BY <2>1, <2>2, BoundsAssumption DEF MayEscalate, EscalationDue
  <2> QED
    BY <2>1, <2>3 DEF EscalationKept
<1>2. TypeOK /\ EscalationKept /\ [Next]_vars => EscalationKept'
  BY EscalationNext
<1>3. EscalationKept => EscalatedBeforeStuck
  BY DEF EscalationKept, EscalatedBeforeStuck, MayEscalate
<1> QED
  BY <1>1, <1>2, <1>3, Typed, PTL DEF Spec

----------------------------------------------------------------------------
(* The phase comes to its end.                                             *)

\* The arrows of the flow chart of a round: where the owner may go on to from
\* each of its places, but for a repeated call of the player or of the judge.
Arrow ==
    \/ pc = "launch"     /\ pc' \in {"player", "halt"}
    \/ pc = "player"     /\ pc' \in {"protect", "top", "halt"}
    \/ pc = "protect"    /\ pc' \in {"gate", "top", "halt"}
    \/ pc = "gate"       /\ pc' \in {"judge", "top", "halt"}
    \/ pc = "enter"      /\ pc' \in {"enterJudge", "judge", "top", "pending", "halt"}
    \/ pc = "enterJudge" /\ pc' \in {"judge", "top", "pending", "halt"}
    \/ pc = "judge"      /\ pc' \in {"fullGate", "tester", "top", "pending", "raised", "halt"}
    \/ pc = "fullGate"   /\ pc' \in {"ship", "top", "halt"}
    \/ pc = "ship"       /\ pc' \in {"halt", "done"}
    \/ pc = "tester"     /\ pc' \in {"top", "halt"}
    \/ pc = "top"        /\ pc' = "halt"
    \/ pc \in {"pending", "raised", "halt"} /\ pc' = "done"

PlayerRepeats == pc = "player" /\ pc' = "player" /\ compacts' = compacts + 1

JudgeRepeats ==
    /\ pc = "judge" /\ pc' = "judge"
    /\ \/ judgeFails' = judgeFails + 1 /\ UNCHANGED <<needsUser, judgeCompacted>>
       \/ needsUser' = needsUser + 1 /\ UNCHANGED <<judgeFails, judgeCompacted>>
       \/ ~judgeCompacted /\ judgeCompacted' /\ UNCHANGED <<judgeFails, needsUser>>

RoundBegins ==
    pc = "top" /\ pc' = "launch" /\ round < start.limit /\ round' = round + 1

Advance ==
    /\ start' = start
    /\ \/ round' = round /\ (Arrow \/ PlayerRepeats \/ JudgeRepeats)
       \/ RoundBegins

LEMMA PlayerAdvances ==
    ASSUME TypeOK, PlayerStep
    PROVE  Advance /\ UNCHANGED <<judgeFails, needsUser>>
<1> USE DEF playerRest, jVars
<1>1. CASE NextRound
  <2>1. UNCHANGED <<start, judgeFails, needsUser>>
    BY <1>1 DEF NextRound
  <2>2. \/ pc = "top" /\ pc' = "halt" /\ round' = round
        \/ RoundBegins
    BY <1>1, StartsAssumption DEF NextRound, HaltFor, Goto, RoundBegins, TypeOK, StartType
  <2> QED BY <2>1, <2>2 DEF Advance, Arrow
<1>2. CASE LaunchPlayer
  <2>1. UNCHANGED <<start, round, judgeFails, needsUser>>
    BY <1>2 DEF LaunchPlayer
  <2>2. pc = "launch" /\ pc' \in {"player", "halt"}
    BY <1>2 DEF LaunchPlayer, CheckStop, HaltFor, Goto
  <2> QED BY <2>1, <2>2 DEF Advance, Arrow
<1>3. ASSUME NEW t \in Trees, NEW valid \in BOOLEAN, PlayerReplies(t, valid)
      PROVE  Advance /\ UNCHANGED <<judgeFails, needsUser>>
  BY <1>3 DEF PlayerReplies, CheckStop, HaltFor, Goto, Advance, Arrow
<1>4. ASSUME NEW t \in Trees, PlayerCrashes(t)
      PROVE  Advance /\ UNCHANGED <<judgeFails, needsUser>>
  BY <1>4 DEF PlayerCrashes, CheckStop, HaltFor, Goto, Advance, Arrow
<1>5. ASSUME NEW t \in Trees, NEW reason, PlayerRefused(t, reason)
      PROVE  Advance /\ UNCHANGED <<judgeFails, needsUser>>
  BY <1>5 DEF PlayerRefused, HaltFor, Advance, Arrow
<1>6. ASSUME NEW t \in Trees, PlayerCompacts(t)
      PROVE  Advance /\ UNCHANGED <<judgeFails, needsUser>>
  <2>1. UNCHANGED <<start, round, judgeFails, needsUser>> /\ pc = "player"
    BY <1>6 DEF PlayerCompacts
  <2>2. pc' = "halt" \/ (pc' = "player" /\ compacts' = compacts + 1)
    BY <1>6 DEF PlayerCompacts, RecordCompact, CountCompact, CompactFailed, HaltFor, Goto
  <2> QED BY <2>1, <2>2 DEF Advance, Arrow, PlayerRepeats
<1>7. ASSUME NEW t \in Trees, NEW violated \in BOOLEAN, ProtectTests(t, violated)
      PROVE  Advance /\ UNCHANGED <<judgeFails, needsUser>>
  <2>1. UNCHANGED <<start, round, judgeFails, needsUser>> /\ pc = "protect"
    BY <1>7 DEF ProtectTests
  <2>2. pc' \in {"gate", "top", "halt"}
    BY <1>7, StuckOrNext DEF ProtectTests, CheckStop, HaltFor, Goto
  <2> QED BY <2>1, <2>2 DEF Advance, Arrow
<1> QED BY <1>1, <1>2, <1>3, <1>4, <1>5, <1>6, <1>7 DEF PlayerStep

LEMMA GateAdvances ==
    ASSUME TypeOK, GateStep \/ TesterStep
    PROVE  Advance /\ UNCHANGED <<judgeFails, needsUser>>
<1> USE DEF jVars, testerRest
<1>1. ASSUME NEW t \in Trees, NEW b \in BOOLEAN, GateGreen(t, b)
      PROVE  Advance /\ UNCHANGED <<judgeFails, needsUser>>
  BY <1>1 DEF GateGreen, CallJudge, HaltFor, Goto, Advance, Arrow
<1>2. ASSUME NEW t \in Trees, NEW b \in BOOLEAN, GateRed(t, b)
      PROVE  Advance /\ UNCHANGED <<judgeFails, needsUser>>
  <2>1. UNCHANGED <<start, round, judgeFails, needsUser>> /\ pc = "gate"
    BY <1>2 DEF GateRed
  <2>2. pc' \in {"top", "halt"}
    BY <1>2, StuckOrNext DEF GateRed, HaltFor, Goto
  <2> QED BY <2>1, <2>2 DEF Advance, Arrow
<1>3. ASSUME NEW t \in Trees, NEW b \in BOOLEAN, FullGate(t, b)
      PROVE  Advance /\ UNCHANGED <<judgeFails, needsUser>>
  BY <1>3 DEF FullGate, CheckStop, HaltFor, Goto, Advance, Arrow
<1>4. ASSUME NEW t \in Trees, NEW b \in BOOLEAN, NEW ok \in BOOLEAN, EnterGate(t, ok, b)
      PROVE  Advance /\ UNCHANGED <<judgeFails, needsUser>>
  BY <1>4 DEF EnterGate, Goto, Advance, Arrow
<1>5. CASE TesterStep
  <2>1. UNCHANGED <<start, round, judgeFails, needsUser>> /\ pc = "tester"
    BY <1>5 DEF TesterStep, TesterWrites, TesterFails, TesterRefused
  <2>2. pc' \in {"top", "halt"}
    BY <1>5 DEF TesterStep, TesterWrites, TesterFails, TesterRefused, Goto, HaltFor
  <2> QED BY <2>1, <2>2 DEF Advance, Arrow
<1> QED BY <1>1, <1>2, <1>3, <1>4, <1>5 DEF GateStep

LEMMA EndAdvances ==
    ASSUME TypeOK, EndStep
    PROVE  Advance /\ UNCHANGED <<judgeFails, needsUser>>
<1> USE DEF jVars, endRest
<1>1. UNCHANGED <<start, round, judgeFails, needsUser>>
  BY DEF EndStep, Ship, ShipBlocked, Halt, StopJudgePending, Raised, Crash
<1>2. CASE Ship \/ ShipBlocked
  BY <1>1, <1>2 DEF Ship, ShipBlocked, HaltFor, Finish, Advance, Arrow
<1>3. CASE Halt
  <2>1. pc = "halt" /\ pc' = "done"
    BY <1>3 DEF Halt, OldHalt, Ask, Finish
  <2> QED BY <1>1, <2>1 DEF Advance, Arrow
<1>4. CASE StopJudgePending
  <2>1. pc = "pending" /\ pc' = "done"
    BY <1>4 DEF StopJudgePending, OldHalt, Ask, Finish
  <2> QED BY <1>1, <2>1 DEF Advance, Arrow
<1>5. CASE Raised
  BY <1>1, <1>5 DEF Raised, Crash, Finish, Advance, Arrow
<1> QED BY <1>2, <1>3, <1>4, <1>5 DEF EndStep

\* The judge: what a call, a reply and a verdict lead to, and that the judge
\* is called again only while there is patience with it.
LEMMA JudgeAdvances ==
    ASSUME TypeOK, PatienceKept, JudgeStep
    PROVE  Advance /\ PatienceKept'
<1> USE BoundsAssumption DEF judgeRest, PatienceKept, Leaving
<1>1. CASE EnterJudge
  <2>1. UNCHANGED <<start, round, judgeFails, needsUser>> /\ pc \in {"enter", "enterJudge"}
    BY <1>1 DEF EnterJudge
  <2>2. pc' \in {"judge", "top", "pending", "halt"}
    BY <1>1 DEF EnterJudge, CallJudge, HaltFor, Goto
  <2>3. Advance
    BY <2>1, <2>2 DEF Advance, Arrow
  <2> QED BY <2>1, <2>2, <2>3
<1>2. ASSUME NEW t \in Trees, NEW reason, JudgeFails(t, reason)
      PROVE  Advance /\ PatienceKept'
  <2>1. /\ UNCHANGED <<start, round, needsUser, judgeCompacted>> /\ pc = "judge"
        /\ judgeFails' = judgeFails + 1
    BY <1>2 DEF JudgeFails
  <2>2. \/ pc' \in {"pending", "halt"}
        \/ pc' = "judge" /\ ~(judgeFails' >= JudgeMaxFailures)
    BY <1>2 DEF JudgeFails, JudgePends, HaltFor, Goto
  <2>3. Advance
    BY <2>1, <2>2 DEF Advance, Arrow, JudgeRepeats
  <2>4. judgeFails' \in Nat
    BY <2>1 DEF TypeOK
  <2> QED BY <2>1, <2>2, <2>3, <2>4
<1>3. ASSUME NEW t \in Trees, JudgeCompacts(t) PROVE Advance /\ PatienceKept'
  <2>1. /\ UNCHANGED <<start, round, judgeFails, needsUser>> /\ pc = "judge" /\ pc' = "judge"
        /\ ~judgeCompacted /\ judgeCompacted'
    BY <1>3 DEF JudgeCompacts, Goto
  <2>2. Advance
    BY <2>1 DEF Advance, JudgeRepeats
  <2> QED BY <2>1, <2>2
<1>4. ASSUME NEW t \in Trees, JudgeNeedsUser(t) PROVE Advance /\ PatienceKept'
  <2>1. UNCHANGED <<start, round, judgeCompacted>> /\ pc = "judge"
    BY <1>4 DEF JudgeNeedsUser
  <2>2. \/ pc' \in {"pending", "halt"}
        \/ /\ pc' = "judge" /\ ~(needsUser' >= NeedsUserMaxAttempts)
           /\ needsUser' = needsUser + 1 /\ UNCHANGED judgeFails
    BY <1>4 DEF JudgeNeedsUser, JudgePends, HaltFor, Goto
  <2>3. Advance
    BY <2>1, <2>2 DEF Advance, Arrow, JudgeRepeats
  <2>4. needsUser + 1 \in Nat
    BY DEF TypeOK
  <2> QED BY <2>1, <2>2, <2>3, <2>4
<1>5. ASSUME NEW t \in Trees, JudgeShips(t) PROVE Advance /\ PatienceKept'
  <2>1. /\ UNCHANGED <<start, round>> /\ pc = "judge" /\ pc' \in {"fullGate", "halt"}
        /\ judgeFails' = 0 /\ needsUser' = 0
    BY <1>5 DEF JudgeShips, HaltFor, Goto
  <2> QED BY <2>1 DEF Advance, Arrow
<1>6. ASSUME NEW t \in Trees, NEW resolved \in SUBSET open,
             NEW new \in SUBSET (Findings \ (open \cup guarded)),
             NEW disc \in SUBSET guarded, NEW toTester \in BOOLEAN,
             NEW shrunk \in BOOLEAN,
             JudgeNoShip(t, resolved, new, disc, toTester, shrunk)
      PROVE  Advance /\ PatienceKept'
  <2>1. /\ UNCHANGED <<start, round>> /\ pc = "judge"
        /\ judgeFails' = 0 /\ needsUser' = 0
    BY <1>6 DEF JudgeNoShip
  <2>2. PICK w \in IF disc = {} THEN {AfterJudge(t)} ELSE Trees :
           \/ JudgeRejects(w, resolved, new, disc, toTester)
           \/ JudgeRejectsContinuation(w, resolved, new, toTester, shrunk)
    BY <1>6 DEF JudgeNoShip
  <2>3. pc' \in {"halt", "raised"} \/ AfterNoShip(toTester)
    BY <2>2 DEF JudgeRejects, JudgeRejectsContinuation, CleanRetryRaises, HaltFor, Goto
  <2>4. pc' \in {"halt", "tester", "top", "raised"}
    BY <2>3, VerdictTyped
  <2> QED BY <2>1, <2>4 DEF Advance, Arrow
<1> QED BY <1>1, <1>2, <1>3, <1>4, <1>5, <1>6 DEF JudgeStep

\* Every step of the owner is an arrow, a repeated call or a new round.
LEMMA StepAdvances ==
    ASSUME TypeOK, PatienceKept, Step
    PROVE  Advance /\ PatienceKept'
<1>1. CASE JudgeStep
  BY <1>1, JudgeAdvances
<1>2. CASE PlayerStep \/ GateStep \/ TesterStep \/ EndStep
  <2>1. Advance /\ UNCHANGED <<judgeFails, needsUser>>
    BY <1>2, PlayerAdvances, GateAdvances, EndAdvances
  <2>2. pc \in Leaving => pc' \in Leaving
    BY <2>1 DEF Advance, Arrow, PlayerRepeats, JudgeRepeats, RoundBegins, Leaving
  <2> QED BY <2>1, <2>2 DEF PatienceKept
<1> QED BY <1>1, <1>2 DEF Step

\* A factor that is smaller by one or more takes a whole multiple away.
LEMMA Products ==
    ASSUME NEW a \in Nat, NEW b \in Nat, NEW c \in Nat
    PROVE  /\ a * c \in Nat
           /\ a <= b => a * c <= b * c
           /\ a < b => a * c + c <= b * c
<1>1. a * c \in Nat /\ b * c \in Nat
  OBVIOUS
<1>2. ASSUME a <= b PROVE a * c <= b * c
  <2>1. b = a + (b - a) /\ b - a \in Nat
    BY <1>2
  <2>2. b * c = a * c + (b - a) * c
    BY <2>1
  <2>3. (b - a) * c >= 0
    BY <2>1
  <2> QED BY <1>1, <2>2, <2>3
<1>3. ASSUME a < b PROVE a * c + c <= b * c
  <2>1. b = a + (1 + (b - (a + 1))) /\ b - (a + 1) \in Nat
    BY <1>3
  <2>2. b * c = a * c + c + (b - (a + 1)) * c
    BY <2>1
  <2>3. (b - (a + 1)) * c >= 0
    BY <2>1
  <2> QED BY <1>1, <2>2, <2>3
<1> QED BY <1>1, <1>2, <1>3

\* The parts of the measure are numbers; it is zero at the end and only there.
PhaseBounded ==
    /\ RoundsLeft \in Nat /\ StepsInRound \in 0 .. RoundSteps
    /\ StepsLeft \in Nat
    /\ StepsLeft = 0 <=> pc = "done"

LEMMA PhaseBounds == ASSUME TypeOK, PatienceKept PROVE PhaseBounded
<1> USE BoundsAssumption, StartsAssumption DEF TypeOK, StartType
<1>1. /\ JudgePatience \in Nat /\ RoundSteps \in Nat
      /\ RoundSteps = CompactLimit + JudgePatience + 11
  BY DEF RoundSteps, JudgePatience
<1>2. RoundsLeft \in Nat /\ (pc = "done" => RoundsLeft = 0)
  BY DEF RoundsLeft, Leaving
<1>3. /\ StepsInRound \in 0 .. RoundSteps
      /\ StepsInRound = 0 <=> pc = "done"
  <2>1. CASE pc = "judge"
    <3>1. StepsInRound = (JudgeMaxFailures - judgeFails)
                            + (NeedsUserMaxAttempts - needsUser)
                            + (IF judgeCompacted THEN 0 ELSE 1) + 7
      BY <2>1 DEF StepsInRound
    <3>2. judgeFails < JudgeMaxFailures /\ needsUser < NeedsUserMaxAttempts
      BY <2>1 DEF PatienceKept, Leaving
    <3> QED BY <1>1, <2>1, <3>1, <3>2 DEF JudgePatience
  <2>2. CASE pc = "player"
    <3>1. StepsInRound = (CompactLimit - compacts) + JudgePatience + 10
      BY <2>2 DEF StepsInRound
    <3> QED BY <1>1, <2>2, <3>1
  <2>3. CASE pc \in {"launch", "protect", "enter", "gate", "enterJudge"}
    <3>1. StepsInRound \in {RoundSteps, JudgePatience + 9, JudgePatience + 8}
      BY <2>3 DEF StepsInRound
    <3> QED BY <1>1, <2>3, <3>1
  <2>4. CASE pc \in {"fullGate", "ship", "tester", "top", "pending", "raised", "halt"}
    <3>1. StepsInRound \in {6, 5, 4, 2, 1}
      BY <2>4 DEF StepsInRound
    <3> QED BY <1>1, <2>4, <3>1
  <2>5. CASE pc = "done"
    BY <1>1, <2>5 DEF StepsInRound
  <2> QED BY <2>1, <2>2, <2>3, <2>4, <2>5 DEF PCs
<1>4. RoundsLeft * RoundSteps \in Nat /\ (RoundsLeft = 0 => RoundsLeft * RoundSteps = 0)
  BY <1>1, <1>2, Products
<1> QED BY <1>1, <1>2, <1>3, <1>4 DEF PhaseBounded, StepsLeft

\* What an advance does to the two parts of the measure.
LEMMA ArrowFalls ==
    ASSUME TypeOK, PatienceKept, TypeOK', PatienceKept', Arrow
    PROVE  StepsInRound' < StepsInRound
<1> USE BoundsAssumption DEF TypeOK, PatienceKept, Leaving, StepsInRound, RoundSteps,
        JudgePatience
<1>1. CASE pc = "launch" /\ pc' \in {"player", "halt"}
  BY <1>1
<1>2. CASE pc = "player" /\ pc' \in {"protect", "top", "halt"}
  BY <1>2
<1>3. CASE pc = "protect" /\ pc' \in {"gate", "top", "halt"}
  BY <1>3
<1>4. CASE pc = "gate" /\ pc' \in {"judge", "top", "halt"}
  BY <1>4
<1>5. CASE pc = "enter" /\ pc' \in {"enterJudge", "judge", "top", "pending", "halt"}
  BY <1>5
<1>6. CASE pc = "enterJudge" /\ pc' \in {"judge", "top", "pending", "halt"}
  BY <1>6
<1>7. CASE pc = "judge" /\ pc' \in {"fullGate", "tester", "top", "pending", "raised", "halt"}
  BY <1>7
<1>8. CASE pc = "fullGate" /\ pc' \in {"ship", "top", "halt"}
  BY <1>8
<1>9. CASE \/ pc = "ship" /\ pc' \in {"halt", "done"}
           \/ pc = "tester" /\ pc' \in {"top", "halt"}
           \/ pc = "top" /\ pc' = "halt"
           \/ pc \in {"pending", "raised", "halt"} /\ pc' = "done"
  BY <1>9
<1> QED BY <1>1, <1>2, <1>3, <1>4, <1>5, <1>6, <1>7, <1>8, <1>9 DEF Arrow

LEMMA AgainFalls ==
    ASSUME TypeOK, TypeOK', PlayerRepeats \/ JudgeRepeats
    PROVE  StepsInRound' < StepsInRound
<1> USE BoundsAssumption DEF TypeOK, StepsInRound, RoundSteps, JudgePatience
<1>1. CASE PlayerRepeats
  BY <1>1 DEF PlayerRepeats
<1>2. CASE JudgeRepeats
  <2>1. CASE judgeFails' = judgeFails + 1 /\ UNCHANGED <<needsUser, judgeCompacted>>
    BY <1>2, <2>1 DEF JudgeRepeats
  <2>2. CASE needsUser' = needsUser + 1 /\ UNCHANGED <<judgeFails, judgeCompacted>>
    BY <1>2, <2>2 DEF JudgeRepeats
  <2>3. CASE ~judgeCompacted /\ judgeCompacted' /\ UNCHANGED <<judgeFails, needsUser>>
    BY <1>2, <2>3 DEF JudgeRepeats
  <2> QED BY <1>2, <2>1, <2>2, <2>3 DEF JudgeRepeats
<1> QED BY <1>1, <1>2

LEMMA AdvanceFalls ==
    ASSUME TypeOK, PatienceKept, TypeOK', PatienceKept',
           PhaseBounded, PhaseBounded', Advance
    PROVE  StepsLeft' < StepsLeft
<1>0. /\ RoundSteps \in Nat /\ RoundSteps' = RoundSteps
      /\ start.limit \in Nat /\ round \in Nat
  BY BoundsAssumption, StartsAssumption
     DEF RoundSteps, JudgePatience, TypeOK, StartType
<1>1. ASSUME round' = round, Arrow \/ PlayerRepeats \/ JudgeRepeats
      PROVE  StepsLeft' < StepsLeft
  <2>1. StepsInRound' < StepsInRound
    BY <1>1, ArrowFalls, AgainFalls
  <2>2. pc \in Leaving => pc' \in Leaving
    BY <1>1 DEF Arrow, PlayerRepeats, JudgeRepeats, Leaving
  <2>3. RoundsLeft' <= RoundsLeft
    BY <1>0, <1>1, <2>2 DEF Advance, RoundsLeft
  <2>4. RoundsLeft' * RoundSteps <= RoundsLeft * RoundSteps
    BY <1>0, <2>3, Products DEF PhaseBounded
  <2>5. RoundsLeft' * RoundSteps \in Nat /\ RoundsLeft * RoundSteps \in Nat
    BY <1>0, Products DEF PhaseBounded
  <2>6. StepsInRound' \in Nat /\ StepsInRound \in Nat
    BY <1>0 DEF PhaseBounded
  <2> QED BY <1>0, <2>1, <2>4, <2>5, <2>6 DEF StepsLeft
<1>2. ASSUME RoundBegins PROVE StepsLeft' < StepsLeft
  <2>1. StepsInRound = 4 /\ StepsInRound' = RoundSteps
    BY <1>0, <1>2 DEF RoundBegins, StepsInRound
  <2>2. RoundsLeft' < RoundsLeft
    BY <1>0, <1>2 DEF RoundBegins, RoundsLeft, Leaving, Advance
  <2>3. RoundsLeft' * RoundSteps + RoundSteps <= RoundsLeft * RoundSteps
    BY <1>0, <2>2, Products DEF PhaseBounded
  <2>4. RoundsLeft' * RoundSteps \in Nat /\ RoundsLeft * RoundSteps \in Nat
    BY <1>0, Products DEF PhaseBounded
  <2> QED BY <1>0, <2>1, <2>3, <2>4 DEF StepsLeft
<1> QED BY <1>1, <1>2 DEF Advance

LEMMA PhaseStepFalls ==
    ASSUME TypeOK, PatienceKept, TypeOK', PatienceKept',
           PhaseBounded, PhaseBounded', [Next]_vars
    PROVE  /\ StepsLeft' <= StepsLeft
           /\ Step => StepsLeft' < StepsLeft
<1>0. StepsLeft \in Nat /\ StepsLeft' \in Nat
  BY DEF PhaseBounded
<1>1. CASE Step
  BY <1>0, <1>1, StepAdvances, AdvanceFalls
<1>2. CASE RaiseStop \/ UNCHANGED vars
  <2>1. UNCHANGED <<start, pc, round, compacts, judgeFails, needsUser, judgeCompacted>>
    BY <1>2 DEF RaiseStop, vars, jVars, pVars
  <2>2. StepsLeft' = StepsLeft
    BY <2>1 DEF StepsLeft, RoundsLeft, StepsInRound
  <2> QED BY <1>0, <1>1, <2>2
<1>3. CASE \E t \in Trees : Crash(t)
  <2>1. pc # "done" /\ pc' = "done"
    BY <1>3 DEF Crash, Finish
  <2>2. StepsLeft # 0 /\ StepsLeft' = 0
    BY <2>1 DEF PhaseBounded
  <2> QED BY <1>0, <2>2
<1> QED BY <1>1, <1>2, <1>3 DEF Next, Finished

\* The judge is never called again when its patience is at an end, whatever
\* it answered before (call_judge_step).
THEOREM TheJudgesPatienceEnds == Spec => []PatienceKept
<1>1. Init => PatienceKept
  BY BoundsAssumption DEF Init, PatienceKept
<1>2. TypeOK /\ PatienceKept /\ [Next]_vars => PatienceKept'
  <2> SUFFICES ASSUME TypeOK, PatienceKept, [Next]_vars PROVE PatienceKept'
    OBVIOUS
  <2>1. CASE Step
    BY <2>1, StepAdvances
  <2>2. CASE RaiseStop \/ UNCHANGED vars
    BY <2>2 DEF RaiseStop, vars, jVars, PatienceKept
  <2>3. CASE \E t \in Trees : Crash(t)
    BY <2>3 DEF Crash, Finish, PatienceKept, Leaving
  <2> QED BY <2>1, <2>2, <2>3 DEF Next, Finished
<1> QED BY <1>1, <1>2, Typed, PTL DEF Spec

\* A phase has a number of steps before it that each step of its owner makes
\* smaller, nothing makes greater and only the end makes zero: it does not go
\* round for ever, whatever the agents, the tests and git do
\* (_PhaseRunner.run).
THEOREM APhaseGoesOn == Spec => []PhaseBounded /\ PhaseGoesOn
<1>1. TypeOK /\ PatienceKept => PhaseBounded
  BY PhaseBounds
<1>2. Spec => [](TypeOK /\ PatienceKept /\ PhaseBounded)
  BY <1>1, Typed, TheJudgesPatienceEnds, PTL
<1>3. TypeOK /\ PatienceKept /\ PhaseBounded
        /\ TypeOK' /\ PatienceKept' /\ PhaseBounded' /\ [Next]_vars
        => [/\ StepsLeft' <= StepsLeft
            /\ Step => StepsLeft' < StepsLeft]_vars
  BY PhaseStepFalls
<1>4. Spec => PhaseGoesOn
  BY <1>2, <1>3, PTL DEF Spec, PhaseGoesOn
<1> QED BY <1>2, <1>4, PTL

----------------------------------------------------------------------------
(* A phase is a review (module Review), step by step.                      *)

\* The stage and the candidate at each place of the round.
ReviewTable ==
    /\ pc = "done" => ReviewStage = "over" /\ ReviewCandidate = NoTree
    /\ pc \in {"fullGate", "ship"}
         => ReviewStage = "approved" /\ ReviewCandidate = approved
    /\ pc \in {"enterJudge", "judge", "pending"} \/ (pc = "enter" /\ ~start.gateFirst)
         => ReviewStage = "gated" /\ ReviewCandidate = gated
    /\ \/ pc \in {"top", "launch", "player", "protect", "gate", "tester",
                  "halt", "raised"}
       \/ pc = "enter" /\ start.gateFirst
       => ReviewStage = "work" /\ ReviewCandidate = NoTree

LEMMA Stages == ReviewTable /\ ReviewTable'
<1>1. ReviewTable
  BY Zenon DEF ReviewTable, ReviewStage, ReviewCandidate
<1>2. ReviewTable'
  BY Zenon DEF ReviewTable, ReviewStage, ReviewCandidate
<1> QED
  BY <1>1, <1>2

\* Before its end a phase has neither committed nor asked.
NothingYet == pc # "done" => commit = NoTree /\ Questioned = NoTree

LEMMA Undecided == Unfinished => NothingYet
  BY DEF Unfinished, NothingYet, NoOut, Outcome, Questioned

reviewVars == <<ReviewStage, ReviewCandidate, commit, Questioned>>

\* What a step of the phase is for the review.
AReview == Reviews!Next \/ UNCHANGED reviewVars

\* The steps that stay with the player, and the ones that send the round
\* back to the player or into a halt.
LEMMA StaysAtWork ==
    ASSUME NothingYet, NothingYet',
           pc \in {"top", "launch", "player", "protect", "gate", "tester"}
             \/ (pc = "enter" /\ start.gateFirst),
           pc' \in {"top", "launch", "player", "protect", "gate", "tester", "halt"}
    PROVE  AReview
  BY Stages DEF NothingYet, ReviewTable, AReview, reviewVars

LEMMA SentBack ==
    ASSUME NothingYet, NothingYet',
           pc \in {"fullGate", "ship", "enterJudge", "judge", "pending"}
             \/ (pc = "enter" /\ ~start.gateFirst),
           pc' \in {"top", "tester", "halt", "raised"}
    PROVE  AReview
<1>1. /\ ReviewStage \in {"gated", "approved"}
      /\ ReviewStage' = "work" /\ ReviewCandidate' = NoTree
  BY Stages DEF ReviewTable
<1>2. UNCHANGED <<commit, Questioned>>
  BY DEF NothingYet
<1> QED
  BY <1>1, <1>2 DEF AReview, Reviews!Next, Reviews!Reject

\* The steps of the player and of the tester are none of the review.
LEMMA PlayerReviews ==
    ASSUME TypeOK, NothingYet, NothingYet', PlayerStep \/ TesterStep
    PROVE  AReview
<1>1. Advance /\ pc \in {"top", "launch", "player", "protect", "tester"}
  BY PlayerAdvances, GateAdvances
     DEF PlayerStep, TesterStep, NextRound, LaunchPlayer, PlayerReplies,
         PlayerCrashes, PlayerRefused, PlayerCompacts, ProtectTests,
         TesterWrites, TesterFails, TesterRefused
<1>2. pc' \in {"top", "launch", "player", "protect", "gate", "tester", "halt"}
  BY <1>1 DEF Advance, Arrow, PlayerRepeats, JudgeRepeats, RoundBegins
<1> QED
  BY <1>1, <1>2, StaysAtWork

\* A green gate names the candidate, a red one leaves the work at work, and
\* the full gate keeps the approved candidate or sends it back.
LEMMA GateReviews ==
    ASSUME TypeOK, NothingYet, NothingYet', NEW t \in Trees, NEW b \in BOOLEAN,
           NEW ok \in BOOLEAN,
           GateGreen(t, b) \/ GateRed(t, b) \/ FullGate(t, b) \/ EnterGate(t, ok, b)
    PROVE  AReview
<1>1. ASSUME pc = "gate" \/ (pc = "enter" /\ start.gateFirst),
             pc' \in {"judge", "enterJudge"}, gated' = t
      PROVE  AReview
  <2>1. /\ ReviewStage = "work" /\ ReviewStage' = "gated"
        /\ ReviewCandidate' = t
    BY <1>1, Stages DEF ReviewTable
  <2>2. UNCHANGED <<commit, Questioned>>
    BY <1>1 DEF NothingYet
  <2> QED
    BY <2>1, <2>2 DEF AReview, Reviews!Next, Reviews!Pass
<1>2. CASE GateGreen(t, b)
  <2>1. pc = "gate" /\ gated' = t /\ pc' \in {"judge", "top", "halt"}
    BY <1>2 DEF GateGreen, PassGate, CallJudge, HaltFor, Goto
  <2> QED
    BY <1>1, <2>1, StaysAtWork
<1>3. CASE GateRed(t, b)
  <2>1. pc = "gate" /\ pc' \in {"top", "halt"}
    BY <1>3, StuckOrNext DEF GateRed, HaltFor, Goto
  <2> QED
    BY <2>1, StaysAtWork
<1>4. CASE FullGate(t, b)
  <2>1. /\ pc = "fullGate" /\ pc' \in {"ship", "top", "halt"}
        /\ approved' = approved
    BY <1>4 DEF FullGate, CheckStop, HaltFor, Goto
  <2>2. CASE pc' = "ship"
    BY <2>1, <2>2, Stages DEF ReviewTable, NothingYet, AReview, reviewVars
  <2> QED
    BY <2>1, <2>2, SentBack
<1>5. CASE EnterGate(t, ok, b)
  <2>1. /\ pc = "enter" /\ start.gateFirst
        /\ pc' = "top" \/ (pc' = "enterJudge" /\ gated' = t)
    BY <1>5 DEF EnterGate, PassGate, Goto
  <2> QED
    BY <1>1, <2>1, StaysAtWork
<1> QED
  BY <1>2, <1>3, <1>4, <1>5

\* A SHIP approves the candidate the gate has named; any other reply keeps
\* it, or sends the round back.
LEMMA JudgeReviews ==
    ASSUME PhaseInv, PatienceKept, NothingYet, NothingYet', JudgeStep
    PROVE  AReview
<1>1. /\ TypeOK
      /\ JudgesGated
  BY DEF PhaseInv
<1>2. gated' = gated
  BY DEF JudgeStep, EnterJudge, JudgeFails, JudgeCompacts, JudgeNeedsUser,
     JudgeShips, JudgeNoShip, judgeRest, gVars
<1>3. /\ \/ pc \in {"enterJudge", "judge"}
         \/ pc = "enter" /\ ~start.gateFirst
      /\ Advance
  <2>1. Advance
    BY <1>1, JudgeAdvances
  <2> QED
    BY <2>1 DEF JudgeStep, EnterJudge, JudgeFails, JudgeCompacts,
       JudgeNeedsUser, JudgeShips, JudgeNoShip
<1>4. pc' \in {"enterJudge", "judge", "pending", "fullGate", "top", "tester",
               "raised", "halt"}
  BY <1>3 DEF Advance, Arrow, PlayerRepeats, JudgeRepeats, RoundBegins
<1>5. CASE pc' \in {"enterJudge", "judge", "pending"}
  BY <1>2, <1>3, <1>5, Stages DEF ReviewTable, NothingYet, AReview, reviewVars
<1>6. CASE pc' = "fullGate"
  <2>1. pc = "judge"
    BY <1>3, <1>6 DEF Advance, Arrow, PlayerRepeats, JudgeRepeats, RoundBegins
  <2>2. approved' = refs[judgeRef]
    <3>1. CASE \E t \in Trees : JudgeShips(t)
      BY <3>1 DEF JudgeShips
    <3>2. ASSUME NEW t \in Trees, NEW resolved \in SUBSET open,
                 NEW new, NEW disc, NEW toTester \in BOOLEAN, NEW shrunk,
                 JudgeNoShip(t, resolved, new, disc, toTester, shrunk)
          PROVE  FALSE
      <4>1. PICK w \in IF disc = {} THEN {AfterJudge(t)} ELSE Trees :
               \/ JudgeRejects(w, resolved, new, disc, toTester)
               \/ JudgeRejectsContinuation(w, resolved, new, toTester, shrunk)
        BY <3>2 DEF JudgeNoShip
      <4>2. pc' \in {"halt", "raised"} \/ AfterNoShip(toTester)
        BY <4>1 DEF JudgeRejects, JudgeRejectsContinuation, CleanRetryRaises,
           HaltFor, Goto
      <4> QED
        BY <1>1, <1>6, <4>2, VerdictTyped
    <3>3. ASSUME \/ EnterJudge
                 \/ \E t \in Trees :
                       \/ \E reason \in {"judge_failed", "judge_auth", "judge_quota"} :
                             JudgeFails(t, reason)
                       \/ JudgeCompacts(t)
                       \/ JudgeNeedsUser(t)
          PROVE  FALSE
      BY <1>6, <3>3 DEF EnterJudge, CallJudge, JudgeFails, JudgeCompacts,
         JudgeNeedsUser, JudgePends, HaltFor, Goto
    <3> QED
      BY <3>1, <3>2, <3>3 DEF JudgeStep
  <2>3. /\ ReviewStage = "gated" /\ ReviewStage' = "approved"
        /\ ReviewCandidate' = ReviewCandidate
    BY <1>1, <1>6, <2>1, <2>2, Stages DEF ReviewTable, JudgesGated
  <2>4. UNCHANGED <<commit, Questioned>>
    BY <1>6, <2>1 DEF NothingYet
  <2> QED
    BY <2>3, <2>4 DEF AReview, Reviews!Next, Reviews!Approve
<1>7. CASE pc' \in {"top", "tester", "raised", "halt"}
  BY <1>3, <1>7, SentBack
<1> QED
  BY <1>4, <1>5, <1>6, <1>7

\* An end that neither commits nor asks about a missing verdict.
LEMMA JustEnds ==
    ASSUME NothingYet, pc \in PCs, pc # "done", pc' = "done",
           commit' = commit, Questioned' = NoTree
    PROVE  AReview
<1>1. ReviewStage # "over" /\ ReviewStage' = "over" /\ ReviewCandidate' = NoTree
  BY Stages DEF ReviewTable, PCs
<1>2. UNCHANGED <<commit, Questioned>>
  BY DEF NothingYet
<1> QED
  BY <1>1, <1>2 DEF AReview, Reviews!Next, Reviews!End, Reviews!Closes

\* A crash is an end.
LEMMA CrashReviews ==
    ASSUME TypeOK, NothingYet, NEW t \in Trees, Crash(t)
    PROVE  AReview
<1>1. /\ pc # "done" /\ pc' = "done" /\ commit' = commit
      /\ out' = Outcome("stop", "crash", NoTree)
  BY DEF Crash, Finish
<1>2. Questioned' = NoTree
  BY <1>1 DEF Questioned, Outcome
<1> QED
  BY <1>1, <1>2, JustEnds DEF TypeOK

\* The commit takes the approved candidate, and the question about a missing
\* verdict the one that passed the gate.
LEMMA EndReviews ==
    ASSUME PhaseInv, NothingYet, NothingYet', EndStep
    PROVE  AReview
<1>1. TypeOK /\ ShipsGated /\ PendsOnGated
  BY DEF PhaseInv
<1>2. CASE Ship
  <2>1. /\ pc = "ship" /\ pc' = "done" /\ commit' = tree
        /\ out' = Outcome("ship", "ship", NoTree)
    BY <1>2 DEF Ship, Finish
  <2>2. /\ ReviewStage = "approved" /\ ReviewCandidate = approved
        /\ ReviewStage' = "over" /\ ReviewCandidate' = NoTree
    BY <2>1, Stages DEF ReviewTable
  <2>3. Questioned' = Questioned
    BY <2>1 DEF NothingYet, Questioned, Outcome
  <2>4. commit' \in Trees /\ (commit' = ReviewCandidate \/ (GateWrites /\ Scoped))
    BY <1>1, <2>1, <2>2, FlagsAssumption DEF TypeOK, ShipsGated
  <2> QED
    BY <2>2, <2>3, <2>4 DEF AReview, Reviews!Next, Reviews!Commit, Reviews!Closes
<1>3. CASE ShipBlocked
  <2>1. /\ pc = "ship" /\ commit' = commit
        /\ pc' = "halt" \/ (pc' = "done" /\ out' = Outcome("stop", "secrets", NoTree))
    BY <1>3 DEF ShipBlocked, HaltFor, Finish
  <2>2. CASE pc' = "halt"
    BY <2>1, <2>2, SentBack
  <2>3. CASE pc' = "done" /\ out' = Outcome("stop", "secrets", NoTree)
    <3>1. Questioned' = NoTree
      BY <2>3 DEF Questioned, Outcome
    <3> QED
      BY <1>1, <2>1, <2>3, <3>1, JustEnds DEF TypeOK
  <2> QED
    BY <2>1, <2>2, <2>3
<1>4. CASE Halt
  <2>1. /\ pc = "halt" /\ pc' = "done" /\ commit' = commit
    BY <1>4 DEF Halt, OldHalt, Ask, Finish
  <2>2. Questioned' = NoTree
    <3> DEFINE reason == IF stopFlag THEN "user_stop" ELSE cause
    <3>1. \/ out'.status \in {"waiting_limit", "stop"}
          \/ out'.status = "waiting_human" /\ out'.reason = reason
                /\ reason \in AskedReasons
      BY <1>4 DEF Halt, OldHalt, Ask, Finish, Outcome
    <3> QED
      BY <3>1 DEF Questioned, AskedReasons, ProviderReasons
  <2> QED
    BY <1>1, <2>1, <2>2, JustEnds DEF TypeOK
<1>5. CASE StopJudgePending
  <2>1. /\ pc = "pending" /\ pc' = "done" /\ commit' = commit
        /\ \/ out'.status \in {"judge_pending", "stop"}
           \/ out' = Outcome("waiting_human", "judge_pending", PendingTree)
    BY <1>5 DEF StopJudgePending, OldHalt, Ask, Finish, Outcome
  <2>2. CASE out'.status \in {"judge_pending", "stop"}
    <3>1. Questioned' = NoTree
      BY <2>2 DEF Questioned
    <3> QED
      BY <1>1, <2>1, <3>1, JustEnds DEF TypeOK
  <2>3. CASE out' = Outcome("waiting_human", "judge_pending", PendingTree)
    <3>1. PendingTree = gated
      BY <1>1, <2>1 DEF PendingTree, PendsOnGated
    <3>2. Questioned' = gated
      BY <2>3, <3>1 DEF Questioned, Outcome
    <3>3. /\ ReviewStage = "gated" /\ ReviewCandidate = gated
          /\ ReviewStage' = "over" /\ ReviewCandidate' = NoTree
      BY <2>1, Stages DEF ReviewTable
    <3> QED
      BY <2>1, <3>2, <3>3 DEF AReview, Reviews!Next, Reviews!Ask, Reviews!Closes
  <2> QED
    BY <2>1, <2>2, <2>3
<1>6. CASE Raised
  BY <1>1, <1>6, CrashReviews DEF Raised, TypeOK
<1> QED
  BY <1>2, <1>3, <1>4, <1>5, <1>6 DEF EndStep

\* Every step of the phase is a step of the review or none.
LEMMA StepReviews ==
    ASSUME PhaseInv, PhaseInv', PatienceKept, [Next]_vars
    PROVE  [Reviews!Next]_(Reviews!vars)
<1>1. NothingYet /\ TypeOK
  BY Undecided DEF PhaseInv
<1>2. NothingYet'
  BY DEF PhaseInv, Unfinished, NothingYet, NoOut, Outcome, Questioned
<1>3. CASE UNCHANGED vars \/ RaiseStop
  <2>1. /\ UNCHANGED <<start, pc>> /\ gated' = gated /\ approved' = approved
        /\ commit' = commit /\ out' = out
    BY <1>3 DEF vars, RaiseStop, gVars, oVars
  <2>2. UNCHANGED reviewVars
    BY <2>1 DEF reviewVars, ReviewStage, ReviewCandidate, Questioned
  <2> QED
    BY <2>2 DEF reviewVars, Reviews!vars
<1>4. CASE GateStep
  BY <1>1, <1>2, <1>4, GateReviews
     DEF GateStep, AReview, reviewVars, Reviews!vars
<1>5. CASE PlayerStep \/ TesterStep \/ JudgeStep \/ EndStep \/ \E t \in Trees : Crash(t)
  BY <1>1, <1>2, <1>5, PlayerReviews, JudgeReviews, EndReviews, CrashReviews
     DEF AReview, reviewVars, Reviews!vars
<1> QED
  BY <1>3, <1>4, <1>5 DEF Next, Step, Finished

\* A phase starts at work, or on a tree that has passed the gate.
LEMMA InitReviews == Init => Reviews!Init
<1> SUFFICES ASSUME Init PROVE Reviews!Init
  OBVIOUS
<1>1. commit = NoTree /\ Questioned = NoTree
  BY DEF Init, NoOut, Outcome, Questioned
<1>2. CASE start.judge /\ ~start.gateFirst
  <2>1. pc = "enter" /\ gated \in Trees
    BY <1>2 DEF Init
  <2> QED
    BY <1>1, <1>2, <2>1, Stages DEF ReviewTable, Reviews!Init
<1>3. CASE ~(start.judge /\ ~start.gateFirst)
  <2>1. pc = "top" \/ (pc = "enter" /\ start.gateFirst)
    BY <1>3 DEF Init
  <2> QED
    BY <1>1, <2>1, Stages DEF ReviewTable, Reviews!Init
<1> QED
  BY <1>2, <1>3

\* Every phase is a review: one tree goes through gate, verdict and commit,
\* and a question about a missing verdict names the tree that passed the gate
\* (_PhaseRunner.run, call_judge_step, _ship, jp_open).
THEOREM PhaseImplementsReview == Spec => ReviewHolds
<1>1. Init => Reviews!Init
  BY InitReviews
<1>2. PhaseInv /\ PhaseInv' /\ PatienceKept /\ [Next]_vars
        => [Reviews!Next]_(Reviews!vars)
  BY StepReviews
<1> QED
  BY <1>1, <1>2, PhaseCorrect, TheJudgesPatienceEnds, PTL
     DEF Spec, ReviewHolds, Reviews!Spec

----------------------------------------------------------------------------
(* A call of a role by the phase: the processes it starts (Agents).        *)

\* The group of the CLI is gone before the sweep looks, and stays so until the
\* next attempt: only a CLI that is up starts anything.
GroupGone ==
    callPC \in Between \cup {"reap", "sweep", "swept"} => procs \cap Group = {}
LeftInv == NothingLeft /\ GroupGone

\* A step that only kills leaves nothing where nothing was.
LEMMA DeathsOnly ==
    ASSUME LeftInv, NEW ps, Die(ps),
           callPC' \in Between => callPC \in Between,
           callPC' \in Between \cup {"reap", "sweep", "swept"}
              => \/ callPC \in Between \cup {"reap", "sweep", "swept"}
                 \/ ps = Group
    PROVE  LeftInv'
BY DEF LeftInv, NothingLeft, GroupGone, Die, Without

LEMMA CallStep == LeftInv /\ [CallNext]_callVars => LeftInv'
<1> SUFFICES ASSUME LeftInv, [CallNext]_callVars PROVE LeftInv'
  OBVIOUS
<1> USE DEF Goes, procVars, stopVars, Between
<1>1. ASSUME UNCHANGED <<procs, blind>>,
             callPC' \in Between => callPC \in Between,
             callPC' \in Between \cup {"reap", "sweep", "swept"}
                => callPC \in Between \cup {"reap", "sweep", "swept"}
      PROVE  LeftInv'
  BY <1>1 DEF LeftInv, NothingLeft, GroupGone
<1>2. CASE Processes
  <2>0. callPC' = callPC
    BY <1>2 DEF Processes
  <2>1. ASSUME NEW p \in Children, Fork(p)
        PROVE  callPC \notin Between \cup {"reap", "sweep", "swept"}
    BY <2>1 DEF Fork, LeftInv, GroupGone, Group
  <2>2. ASSUME NEW pipe \in Pipes, Close(pipe) PROVE UNCHANGED <<procs, blind>>
    BY <2>2 DEF Close
  <2>3. ASSUME NEW p \in Procs, Exit(p)
        PROVE  procs' = procs \ {p} /\ blind' = blind \ {p}
    BY <2>3 DEF Exit, Without
  <2> QED BY <1>1, <1>2, <2>0, <2>1, <2>2, <2>3
          DEF Processes, LeftInv, NothingLeft, GroupGone
<1>3. CASE Reap \/ Stop
  BY <1>1, <1>3 DEF Reap, Stop
<1>4. CASE Reads
  <2>1. ASSUME NEW kind \in Kinds \cup {"compacted"}, Raise(kind)
        PROVE  UNCHANGED <<procs, blind>> /\ callPC' = "close"
    BY <2>1 DEF Raise
  <2>2. ASSUME NEW kind \in {"read", "write", "shell"}, Tool(kind)
        PROVE  UNCHANGED <<procs, blind>> /\ callPC' \in {"stream", "close"}
    BY <2>2 DEF Tool
  <2> QED BY <1>1, <1>4, <2>1, <2>2 DEF Reads
<1>5. CASE Stall
  <2>1. Die(Group) /\ callPC' \in {"stderr", "exit"}
    BY <1>5 DEF Stall
  <2> QED BY <2>1, DeathsOnly
<1>6. CASE TimeOut
  BY <1>1, <1>6 DEF TimeOut
<1>7. CASE Hunt \/ HuntOver
  <2>1. \E ps : Die(ps)
    BY <1>7 DEF Hunt, HuntOver
  <2>2. callPC' = callPC
    BY <1>7 DEF Hunt, HuntOver
  <2> QED BY <2>1, <2>2, DeathsOnly
<1>8. CASE Spawn
  <2>1. callPC' = "stream" \/ (callPC' = "sweep" /\ procs' = {})
    BY <1>8 DEF Spawn
  <2> QED BY <2>1 DEF LeftInv, NothingLeft, GroupGone
<1>9. CASE Eof \/ Wait \/ Status
  <2>1. callPC' \in {"stderr", "exit", "close"}
    BY <1>9 DEF Eof, Wait, Status, Exited
  <2> QED BY <2>1 DEF LeftInv, NothingLeft, GroupGone
<1>10. CASE Cleanup
  <2>1. Die(Group) /\ callPC' \in {"sweep", "reap"}
    BY <1>10 DEF Cleanup, Killed
  <2> QED BY <2>1, DeathsOnly
<1>11. CASE Reaped \/ SweepFails
  <2>1. /\ UNCHANGED procs /\ callPC \in {"reap", "sweep"}
        /\ callPC' \in {"sweep", "swept"}
    BY <1>11 DEF Reaped, SweepFails
  <2> QED BY <2>1 DEF LeftInv, NothingLeft, GroupGone
<1>12. CASE Sweep
  <2>1. (\E ps : Die(ps)) /\ callPC = "sweep" /\ callPC' = "swept"
    BY <1>12 DEF Sweep
  <2> QED BY <2>1, DeathsOnly
<1>13. CASE Swept
  <2>1. /\ procs' = procs \ Left /\ blind' = blind \ Left
        /\ procs \cap Group = {}
    BY <1>13 DEF Swept, Without, LeftInv, GroupGone
  <2>2. procs' \subseteq blind' \ Group
    BY <2>1 DEF Left
  <2> QED BY <2>1, <2>2 DEF LeftInv, NothingLeft, GroupGone
<1>14. CASE GivesUp \/ Judge \/ Pause \/ Back
  <2>1. UNCHANGED <<procs, blind>> /\ callPC \in Between
    BY <1>14 DEF GivesUp, Judge, Pause, Back
  <2> QED BY <1>1, <2>1
<1>15. CASE Finally
  <2>1. Die(Descendants) /\ callPC \in Between
    BY <1>15 DEF Finally
  <2> QED BY <2>1, DeathsOnly
<1>16. CASE UNCHANGED callVars
  BY <1>1, <1>16 DEF callVars
<1> QED BY <1>2, <1>3, <1>4, <1>5, <1>6, <1>7, <1>8, <1>9, <1>10, <1>11, <1>12, <1>13,
           <1>14, <1>15, <1>16 DEF CallNext, Goon

\* However an attempt of a role ends, what it has started is left, when the
\* owner waits, tries again or goes on, only where the process has left the
\* group of the CLI and the sweep could not see it, because its environment or
\* the list of all processes could not be read; whichever of the children hold
\* the pipes or hide, and whatever a stop kills meanwhile (_kill_group, sweep).
THEOREM NoProcessIsLeft == CallSpec => []NothingLeft
<1>1. CallInit => LeftInv
  BY DEF CallInit, LeftInv, NothingLeft, GroupGone
<1>2. LeftInv /\ [CallNext]_callVars => LeftInv'
  BY CallStep
<1>3. LeftInv => NothingLeft
  BY DEF LeftInv
<1> QED BY <1>1, <1>2, <1>3, PTL DEF CallSpec

----------------------------------------------------------------------------
(* A call comes nearer to its end with each step of the owner.             *)

\* What a death of processes does to the variables of a process.
LEMMA DeathTyped ==
    ASSUME CallTypeOK, NEW ps, Die(ps)
    PROVE  /\ procs' \subseteq Procs /\ holds' \subseteq Pipes \X procs'
           /\ code' \in {"none", "good", "bad"} /\ reaped' \in BOOLEAN
           /\ blind' \subseteq procs'
BY DEF CallTypeOK, Die, Without

\* What an action of the call leaves typed when its processes only die.
LEMMA ProcsTyped ==
    ASSUME CallTypeOK, UNCHANGED procVars \/ \E ps \in SUBSET Procs : Die(ps)
    PROVE  /\ procs' \subseteq Procs /\ holds' \subseteq Pipes \X procs'
           /\ code' \in {"none", "good", "bad"} /\ reaped' \in BOOLEAN
           /\ blind' \subseteq procs'
<1>1. CASE UNCHANGED procVars
  BY <1>1 DEF CallTypeOK, procVars
<1>2. CASE \E ps \in SUBSET Procs : Die(ps)
  BY <1>2, DeathTyped
<1> QED BY <1>1, <1>2

\* What comes of a reply to a role.
LEMMA BackTyped ==
    ASSUME CallTypeOK, Looped \/ Answered \/ Over(ends)
    PROVE  /\ guard' \in [kicked : BOOLEAN, streak : Nat, wrote : BOOLEAN, dirty : BOOLEAN]
           /\ ask' \in [kick : BOOLEAN, repair : BOOLEAN]
           /\ tries' \in {tries, NoTries} /\ callPC' \in {"begin", "over"}
           /\ ends' \in {ends, "none", "blocked", "invalid", "report"}
           /\ UNCHANGED <<player, stalls>>
<1>1. ASSUME NEW as, Over(as)
      PROVE  /\ UNCHANGED <<player, stalls, guard, ask, tries>>
             /\ callPC' = "over" /\ ends' = as
  BY <1>1 DEF Over, Goes
<1>2. ASSUME NEW kick \in BOOLEAN, NEW repair \in BOOLEAN, Asks(kick, repair)
      PROVE  /\ UNCHANGED <<player, stalls>> /\ tries' = NoTries
             /\ ask' \in [kick : BOOLEAN, repair : BOOLEAN]
             /\ callPC' = "begin" /\ ends' = "none"
  BY <1>2 DEF Asks
<1>3. CASE Looped
  <2>1. CASE Kickable
    <3>1. Asks(TRUE, ask.repair) /\ ask.repair \in BOOLEAN
      BY <1>3, <2>1 DEF Looped, CallTypeOK
    <3>2. guard' = [guard EXCEPT !.kicked = TRUE, !.streak = 0]
      BY <1>3, <2>1 DEF Looped
    <3> QED BY <3>1, <3>2, <1>2 DEF CallTypeOK
  <2>2. CASE ~Kickable
    BY <1>3, <2>2, <1>1 DEF Looped, CallTypeOK
  <2> QED BY <2>1, <2>2
<1>4. CASE Answered
  <2>1. \/ \E as \in {ends, "blocked", "invalid", "report"} : Over(as)
        \/ Asks(FALSE, TRUE) /\ UNCHANGED guard
    BY <1>4 DEF Answered
  <2> QED BY <2>1, <1>1, <1>2 DEF CallTypeOK
<1>5. CASE Over(ends)
  BY <1>5, <1>1 DEF CallTypeOK
<1> QED BY <1>3, <1>4, <1>5

LEMMA CallTypedStep == CallTypeOK /\ [CallNext]_callVars => CallTypeOK'
<1> SUFFICES ASSUME CallTypeOK, [CallNext]_callVars PROVE CallTypeOK'
  OBVIOUS
<1> USE AgentsAssumption DEF Goes, Awaits, Between
<1>1. CASE Processes
  <2>1. ASSUME NEW p \in Children, Fork(p)
        PROVE  /\ procs' \subseteq Procs /\ holds' \subseteq Pipes \X procs'
               /\ blind' \subseteq procs'
    BY <2>1 DEF Fork, Procs, CallTypeOK
  <2>2. ASSUME NEW pipe \in Pipes, Close(pipe)
        PROVE  /\ procs' \subseteq Procs /\ holds' \subseteq Pipes \X procs'
               /\ blind' \subseteq procs'
    BY <2>2 DEF Close, CallTypeOK
  <2>3. ASSUME NEW p \in Procs, Exit(p)
        PROVE  /\ procs' \subseteq Procs /\ holds' \subseteq Pipes \X procs'
               /\ blind' \subseteq procs'
    BY <2>3 DEF Exit, Without, CallTypeOK
  <2>4. code' \in {"none", "good", "bad"} /\ reaped' = reaped
    BY <1>1 DEF Processes, Fork, Close, Exit, CallTypeOK
  <2>5. /\ procs' \subseteq Procs /\ holds' \subseteq Pipes \X procs'
        /\ blind' \subseteq procs'
    BY <1>1, <2>1, <2>2, <2>3 DEF Processes
  <2> QED BY <1>1, <2>4, <2>5 DEF Processes, CallTypeOK, stopVars
<1>2. CASE Reap \/ Stop
  BY <1>2 DEF Reap, Stop, CallTypeOK, procVars, stopVars
<1>3. CASE Reads
  <2>1. ASSUME NEW kind \in Kinds \cup {"compacted"}, Raise(kind)
        PROVE  CallTypeOK'
    BY <2>1 DEF Raise, CallTypeOK, procVars, stopVars
  <2>2. ASSUME NEW kind \in {"read", "write", "shell"}, Tool(kind)
        PROVE  CallTypeOK'
    <3> DEFINE read == [guard EXCEPT !.streak = guard.streak + 1,
                                     !.dirty = @ \/ kind = "shell"]
    <3>1. guard.dirty \in BOOLEAN /\ guard.streak + 1 \in Nat
      BY DEF CallTypeOK
    <3>2. (guard.dirty \/ kind = "shell") \in BOOLEAN
      OBVIOUS
    <3>3. read \in [kicked : BOOLEAN, streak : Nat, wrote : BOOLEAN, dirty : BOOLEAN]
      BY <3>1, <3>2 DEF CallTypeOK
    <3>4. Written \in [kicked : BOOLEAN, streak : Nat, wrote : BOOLEAN, dirty : BOOLEAN]
      BY DEF Written, NoGuard
    <3> HIDE DEF read
    <3>5. /\ guard' \in {read, Written}
          /\ callPC' \in {callPC, "close"} /\ ends' \in {ends, "loop"}
      BY <2>2 DEF Tool, read
    <3>6. UNCHANGED <<player, stalls, ask, tries, procVars, stalled, stopVars>>
      BY <2>2 DEF Tool
    <3> QED BY <3>3, <3>4, <3>5, <3>6 DEF CallTypeOK, procVars, stopVars
  <2> QED BY <1>3, <2>1, <2>2 DEF Reads
<1>4. CASE Stall \/ TimeOut
  <2>1. UNCHANGED procVars \/ \E ps \in SUBSET Procs : Die(ps)
    BY <1>4 DEF Stall, TimeOut, Group, Procs, Children
  <2> QED BY <1>4, <2>1, ProcsTyped DEF Stall, TimeOut, CallTypeOK, stopVars
<1>5. CASE Hunt \/ HuntOver
  <2>1. Descendants \subseteq Procs /\ hunt \subseteq Procs
    BY DEF Descendants, CallTypeOK
  <2>2. \E ps \in SUBSET Procs : Die(ps)
    BY <1>5, <2>1 DEF Hunt, HuntOver, Group, Procs, Children
  <2>3. hunt' \subseteq Procs
    BY <1>5, <2>1 DEF Hunt, HuntOver
  <2>4. UNCHANGED <<player, stalls, callPC, ask, tries, ends, stalled, guard, stop, step>>
    BY <1>5 DEF Hunt, HuntOver
  <2> QED BY <2>2, <2>3, <2>4, ProcsTyped DEF CallTypeOK
<1>6. CASE Spawn
  <2>1. /\ \/ procs' = {"cli"} /\ holds' = Pipes \X {"cli"}
           \/ procs' = {} /\ holds' = {}
        /\ blind' = {}
    BY <1>6 DEF Spawn
  <2>2. /\ procs' \subseteq Procs /\ holds' \subseteq Pipes \X procs'
        /\ blind' \subseteq procs'
    BY <2>1 DEF CallTypeOK, Procs
  <2>3. /\ step' = TRUE /\ hunt' = {}
        /\ callPC' \in {"stream", "sweep"} /\ ends' \in {"none", "other"}
    BY <1>6 DEF Spawn
  <2>4. UNCHANGED <<player, stalls, ask, tries, code, reaped, stalled, guard, stop>>
    BY <1>6 DEF Spawn
  <2>5. hunt' \subseteq Procs
    BY <2>3
  <2> QED BY <2>2, <2>3, <2>4, <2>5 DEF CallTypeOK, Kinds
<1>7. CASE Eof \/ Wait \/ Cleanup \/ Sweep \/ Status \/ Reaped
  <2>1. UNCHANGED procVars \/ \E ps \in SUBSET Procs : Die(ps)
    BY <1>7 DEF Eof, Wait, Cleanup, Sweep, Status, Reaped, Exited, Killed, Group,
                Procs, Children, CallTypeOK
  <2>2. /\ callPC' \in {"exit", "stderr", "close", "sweep", "swept", "reap"}
        /\ ends' \in {ends, "stall", "text"} \cup Kinds
    BY <1>7 DEF Eof, Wait, Cleanup, Sweep, Status, Reaped, Exited
  <2>3. UNCHANGED <<player, stalls, ask, tries, stalled, guard, stopVars>>
    BY <1>7 DEF Eof, Wait, Cleanup, Sweep, Status, Reaped, Exited
  <2> QED BY <2>1, <2>2, <2>3, ProcsTyped DEF CallTypeOK, stopVars
<1>8. CASE Swept
  BY <1>8 DEF Swept, Without, CallTypeOK, stopVars
<1>13. CASE SweepFails
  BY <1>13 DEF SweepFails, CallTypeOK, stopVars
<1>9. CASE GivesUp \/ Judge \/ Pause
  <2>1. tries' \in [net : 0 .. Retries, other : BOOLEAN]
    BY <1>9 DEF GivesUp, Judge, Pause, Again, CallTypeOK
  <2> QED BY <1>9, <2>1 DEF GivesUp, Judge, Pause, CallTypeOK, procVars, stopVars
<1>10. CASE Finally
  <2>1. Descendants \in SUBSET Procs
    BY DEF Descendants, CallTypeOK
  <2>2. \E ps \in SUBSET Procs : Die(ps)
    BY <1>10, <2>1 DEF Finally
  <2>3. /\ step' \in BOOLEAN /\ callPC' \in {"begin", "back"}
        /\ UNCHANGED <<player, stalls, ask, tries, ends, stalled, guard, stop, hunt>>
    BY <1>10 DEF Finally
  <2> QED BY <2>2, <2>3, ProcsTyped DEF CallTypeOK
<1>11. CASE Back
  <2>1. Looped \/ Answered \/ Over(ends)
    BY <1>11 DEF Back
  <2>2. /\ guard' \in [kicked : BOOLEAN, streak : Nat, wrote : BOOLEAN, dirty : BOOLEAN]
        /\ ask' \in [kick : BOOLEAN, repair : BOOLEAN]
        /\ tries' \in {tries, NoTries} /\ callPC' \in {"begin", "over"}
        /\ ends' \in {ends, "none", "blocked", "invalid", "report"}
        /\ UNCHANGED <<player, stalls>>
    BY <2>1, BackTyped
  <2>3. NoTries \in [net : 0 .. Retries, other : BOOLEAN]
    BY DEF NoTries
  <2>4. UNCHANGED <<procVars, stalled, stopVars>>
    BY <1>11 DEF Back
  <2> QED BY <2>1, <2>2, <2>3, <2>4 DEF CallTypeOK, procVars, stopVars
<1>12. CASE UNCHANGED callVars
  BY <1>12 DEF callVars, procVars, stopVars, CallTypeOK
<1> QED BY <1>1, <1>2, <1>3, <1>4, <1>5, <1>6, <1>7, <1>8, <1>9, <1>10, <1>11, <1>12,
           <1>13 DEF CallNext, Goon

\* The place, the attempts and the prompts that are left, in this order.
LEMMA Lexicographic ==
    ASSUME NEW n \in Nat, NEW p \in 0 .. 3, NEW q \in 0 .. 3,
           NEW a \in 0 .. n + 1, NEW b \in 0 .. n + 1,
           NEW x \in 0 .. 13, NEW y \in 0 .. 13,
           \/ p = q /\ a = b /\ y < x
           \/ p = q /\ b < a
           \/ q < p
    PROVE  (q * (n + 2) + b) * 14 + y < (p * (n + 2) + a) * 14 + x
<1>1. p \in {0, 1, 2, 3} /\ q \in {0, 1, 2, 3}
  OBVIOUS
<1>2. CASE p = q
  <2>1. CASE a = b
    BY <1>1, <1>2, <2>1
  <2>2. CASE b < a
    <3>1. b + 1 <= a
      BY <2>2
    <3> QED BY <1>1, <1>2, <3>1
  <2> QED BY <1>2, <2>1, <2>2
<1>3. CASE q < p
  <2>1. /\ 0 * (n + 2) = 0 /\ 1 * (n + 2) = n + 2
        /\ 2 * (n + 2) = 2 * n + 4 /\ 3 * (n + 2) = 3 * n + 6
    OBVIOUS
  <2> QED BY <1>1, <1>3, <2>1
<1> QED BY <1>2, <1>3

\* Each of the three is within its bounds.
CallBounded ==
    /\ PlaceLeft \in 0 .. 13 /\ AttemptsLeft \in 0 .. Retries + 1
    /\ PromptsLeft \in 0 .. 3 /\ CallLeft \in Nat

LEMMA LeftBounds == ASSUME CallTypeOK PROVE CallBounded
<1> USE AgentsAssumption
<1>1. PlaceLeft \in 0 .. 13
  BY DEF CallTypeOK, PlaceLeft, Awaits, Between
<1>2. AttemptsLeft \in 0 .. Retries + 1
  BY DEF CallTypeOK, AttemptsLeft
<1>3. PromptsLeft \in {0, 1, 2, 3}
  BY DEF CallTypeOK, PromptsLeft
<1>4. PromptsLeft * (Retries + 2) \in Nat
  BY <1>3
<1> QED BY <1>1, <1>2, <1>3, <1>4 DEF CallLeft, AttemptLength, CallBounded

\* A step on to the next place, to another attempt or to another prompt.
LEMMA CallFalls ==
    ASSUME CallBounded, CallBounded',
           \/ UNCHANGED <<ask, tries>> /\ PlaceLeft' < PlaceLeft
           \/ UNCHANGED ask /\ AttemptsLeft' < AttemptsLeft
           \/ PromptsLeft' < PromptsLeft
    PROVE  CallLeft' < CallLeft
<1> DEFINE p == PromptsLeft
           q == PromptsLeft'
           a == AttemptsLeft
           b == AttemptsLeft'
           x == PlaceLeft
           y == PlaceLeft'
<1>1. /\ x \in 0 .. 13 /\ a \in 0 .. Retries + 1 /\ p \in 0 .. 3
      /\ y \in 0 .. 13 /\ b \in 0 .. Retries + 1 /\ q \in 0 .. 3
  BY DEF CallBounded
<1>2. \/ p = q /\ a = b /\ y < x
      \/ p = q /\ b < a
      \/ q < p
  BY DEF PromptsLeft, AttemptsLeft
<1> HIDE DEF p, q, a, b, x, y
<1>3. (q * (Retries + 2) + b) * 14 + y < (p * (Retries + 2) + a) * 14 + x
  BY <1>1, <1>2, Lexicographic, AgentsAssumption
<1> QED BY <1>3 DEF CallLeft, AttemptLength, p, q, a, b, x, y

\* Where none of what it counts changes, the measure stays.
LEMMA CallStays ==
    ASSUME UNCHANGED <<callPC, ask, tries>>, callPC = "finally" => UNCHANGED ends
    PROVE  CallLeft' = CallLeft
<1>1. PlaceLeft' = PlaceLeft
  <2>1. CASE callPC = "finally"
    BY <2>1 DEF PlaceLeft
  <2>2. CASE callPC # "finally"
    BY <2>2 DEF PlaceLeft
  <2> QED BY <2>1, <2>2
<1> QED BY <1>1 DEF CallLeft, AttemptsLeft, PromptsLeft

\* The steps within an attempt go on to a later place of it.
LEMMA AttemptGoesOn ==
    ASSUME CallTypeOK,
           \/ GivesUp \/ Spawn \/ Eof \/ Wait \/ Status \/ Cleanup \/ Reaped
           \/ Sweep \/ SweepFails \/ Swept \/ TimeOut \/ Pause \/ Finally
    PROVE  UNCHANGED <<ask, tries>> /\ PlaceLeft' < PlaceLeft
<1> USE DEF Goes
<1>1. CASE GivesUp
  BY <1>1 DEF GivesUp, PlaceLeft
<1>2. CASE Spawn
  BY <1>2 DEF Spawn, PlaceLeft
<1>3. CASE Eof \/ Wait
  BY <1>3 DEF Eof, Wait, Exited, PlaceLeft
<1>4. CASE Status
  BY <1>4 DEF Status, PlaceLeft
<1>5. CASE Cleanup \/ Reaped
  BY <1>5 DEF Cleanup, Reaped, PlaceLeft
<1>6. CASE Sweep \/ SweepFails \/ Swept
  BY <1>6 DEF Sweep, SweepFails, Swept, PlaceLeft
<1>7. CASE TimeOut
  BY <1>7 DEF TimeOut, Awaits, PlaceLeft
<1>8. CASE Pause
  BY <1>8 DEF Pause, PlaceLeft
<1>9. CASE Finally
  BY <1>9 DEF Finally, PlaceLeft
<1> QED BY <1>1, <1>2, <1>3, <1>4, <1>5, <1>6, <1>7, <1>8, <1>9

\* An error is passed on, or another attempt is paid for.
LEMMA JudgeGoesOn ==
    ASSUME CallTypeOK, Judge
    PROVE  \/ UNCHANGED <<ask, tries>> /\ PlaceLeft' < PlaceLeft
           \/ UNCHANGED ask /\ AttemptsLeft' < AttemptsLeft
<1> USE AgentsAssumption
<1>1. CASE tries' \in Again /\ UNCHANGED ask
  <2>1. \/ tries' = [tries EXCEPT !.net = @ + 1]
        \/ ~tries.other /\ tries' = [tries EXCEPT !.other = TRUE]
    BY <1>1 DEF Again
  <2>2. \/ tries'.net = tries.net + 1 /\ tries'.other = tries.other
        \/ ~tries.other /\ tries'.other /\ tries'.net = tries.net
    BY <2>1 DEF CallTypeOK
  <2>3. tries.net \in Int
    BY DEF CallTypeOK
  <2> QED BY <1>1, <2>2, <2>3 DEF AttemptsLeft
<1>2. CASE /\ ends \in {"text", "compacted", "loop"}
           /\ Goes("finally") /\ UNCHANGED ends
  BY <1>2 DEF Judge, Goes, PlaceLeft
<1>3. CASE Goes("finally") /\ ends' = "none"
  BY <1>3 DEF Judge, Goes, PlaceLeft
<1> QED BY <1>1, <1>2, <1>3 DEF Judge

\* Another prompt is paid for, or the call is over.
LEMMA BackGoesOn ==
    ASSUME CallTypeOK, Back
    PROVE  \/ UNCHANGED <<ask, tries>> /\ PlaceLeft' < PlaceLeft
           \/ PromptsLeft' < PromptsLeft
<1>1. ASSUME NEW as, Over(as)
      PROVE  UNCHANGED <<ask, tries>> /\ PlaceLeft' < PlaceLeft
  BY <1>1 DEF Back, Over, Goes, PlaceLeft
<1>2. CASE Looped
  <2>1. CASE Kickable
    <3>1. ask' = [kick |-> TRUE, repair |-> ask.repair]
      BY <1>2, <2>1 DEF Looped, Asks
    <3>2. ~ask.kick
      BY <2>1 DEF Kickable
    <3> QED BY <3>1, <3>2 DEF PromptsLeft, CallTypeOK
  <2>2. CASE ~Kickable
    BY <1>1, <1>2, <2>2 DEF Looped
  <2> QED BY <2>1, <2>2
<1>3. CASE Answered
  <2>1. CASE ~ask.repair /\ Asks(FALSE, TRUE)
    <3>1. ask' = [kick |-> FALSE, repair |-> TRUE]
      BY <2>1 DEF Asks
    <3> QED BY <2>1, <3>1 DEF PromptsLeft, CallTypeOK
  <2> QED BY <1>1, <1>3, <2>1 DEF Answered
<1>4. CASE Over(ends)
  BY <1>1, <1>4
<1> QED BY <1>2, <1>3, <1>4 DEF Back

LEMMA CallStepFalls ==
    ASSUME CallTypeOK, CallBounded, CallBounded', [CallNext]_callVars
    PROVE  /\ CallLeft' <= CallLeft
           /\ Goon \/ TimeOut => CallLeft' < CallLeft
<1> USE DEF Goes
<1>0. CallLeft \in Nat /\ CallLeft' \in Nat
  BY DEF CallBounded
<1>1. ASSUME Goon \/ TimeOut PROVE CallLeft' < CallLeft
  <2>1. CASE Judge
    BY <2>1, JudgeGoesOn, CallFalls
  <2>2. CASE Back
    BY <2>2, BackGoesOn, CallFalls
  <2>3. CASE \/ GivesUp \/ Spawn \/ Eof \/ Wait \/ Status \/ Cleanup \/ Reaped
             \/ Sweep \/ SweepFails \/ Swept \/ TimeOut \/ Pause \/ Finally
    BY <2>3, AttemptGoesOn, CallFalls
  <2> QED BY <1>1, <2>1, <2>2, <2>3 DEF Goon
<1>2. CASE Goon \/ TimeOut
  BY <1>0, <1>1, <1>2
<1>3. CASE Processes \/ Reap \/ Stop \/ Hunt \/ HuntOver \/ UNCHANGED callVars
  <2>1. UNCHANGED <<callPC, ask, tries, ends>>
    BY <1>3 DEF Processes, Reap, Stop, Hunt, HuntOver, callVars
  <2> QED BY <1>0, <1>1, <2>1, CallStays
<1>4. CASE Reads \/ Stall
  <2>1. /\ UNCHANGED <<ask, tries>>
        /\ callPC \in {"stream", "exit"}
        /\ \/ callPC' = callPC
           \/ callPC' = "close"
           \/ callPC' = "stderr"
           \/ callPC = "stream" /\ callPC' = "exit"
    BY <1>4 DEF Reads, Raise, Tool, Stall
  <2>2. CASE callPC' = callPC
    BY <1>0, <1>1, <2>1, <2>2, CallStays
  <2>3. CASE callPC' # callPC
    <3>1. PlaceLeft' < PlaceLeft
      BY <2>1, <2>3 DEF PlaceLeft
    <3>2. CallLeft' < CallLeft
      BY <2>1, <3>1, CallFalls
    <3> QED BY <1>0, <3>2
  <2> QED BY <2>2, <2>3
<1> QED BY <1>2, <1>3, <1>4 DEF CallNext

\* Every variable of a call keeps its type.
THEOREM CallTyped == CallSpec => []CallTypeOK
<1>1. CallInit => CallTypeOK
  <2> SUFFICES ASSUME CallInit PROVE CallTypeOK
    OBVIOUS
  <2>1. {player, stalls, reaped, stalled, stop, step} \subseteq BOOLEAN
    BY DEF CallInit
  <2>2. tries \in [net : 0 .. Retries, other : BOOLEAN]
    BY AgentsAssumption DEF CallInit, NoTries
  <2>3. /\ ask \in [kick : BOOLEAN, repair : BOOLEAN]
        /\ guard \in [kicked : BOOLEAN, streak : Nat, wrote : BOOLEAN, dirty : BOOLEAN]
    BY DEF CallInit, NoGuard
  <2>4. procs \subseteq Procs /\ holds \subseteq Pipes \X procs /\ hunt \subseteq Procs
    BY DEF CallInit
  <2> QED BY <2>1, <2>2, <2>3, <2>4 DEF CallInit, CallTypeOK, Between
<1>2. CallTypeOK /\ [CallNext]_callVars => CallTypeOK'
  BY CallTypedStep
<1> QED BY <1>1, <1>2, PTL DEF CallSpec

\* A call has a number of steps before it that each step of the owner makes
\* smaller and that nothing makes greater, neither a retry, nor a repair, nor
\* a kick, nor a stop: it does not go round for ever, whatever the processes
\* and the network do (_call, watched, repair_once).
THEOREM ACallGoesOn == CallSpec => []CallBounded /\ CallGoesOn
<1>1. CallTypeOK => CallBounded
  BY LeftBounds
<1>2. CallSpec => []CallBounded
  BY <1>1, CallTyped, PTL
<1>3. CallTypeOK /\ CallBounded /\ CallBounded' /\ [CallNext]_callVars
        => [/\ CallLeft' <= CallLeft
            /\ Goon \/ TimeOut => CallLeft' < CallLeft]_callVars
  BY CallStepFalls
<1>4. CallSpec => CallGoesOn
  BY <1>2, <1>3, CallTyped, PTL DEF CallSpec, CallGoesOn
<1> QED BY <1>2, <1>4

=============================================================================
