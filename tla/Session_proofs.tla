--------------------------- MODULE Session_proofs ---------------------------
(* Theorems about a run (module Session), for every number of phases, of   *)
(* deaths and of questions.                                                *)
EXTENDS Session, WellFoundedInduction, TLAPS

\* A set of numbers that is not empty has a least one.
LEMMA Least ==
    ASSUME NEW S \in SUBSET Nat, S # {}
    PROVE  \E p \in S : \A q \in S : p <= q
<1> DEFINE R == {ss \in Nat \X Nat : ss[1] < ss[2]}
<1>1. IsWellFoundedOn(R, Nat)
  BY NatLessThanWellFounded DEF OpToRel
<1>2. PICK p \in S : \A q \in S : <<q, p>> \notin R
  <2> HIDE DEF R
  <2> QED
    BY <1>1, WFMin
<1>3. \A q \in S : p <= q
  <2> TAKE q \in S
  <2>1. ~(q < p)
    BY <1>2
  <2> QED
    BY <2>1
<1> QED
  BY <1>3
----------------------------------------------------------------------------
(* The reasons a phase may ask for, and what the invariant says of a phase *)
(* that is worked on or asked about.                                       *)

LEMMA AskedReasons ==
    Asked = {"provider", "user", "fuse", "secrets", "judge_pending"}
  BY DEF Asked, Actions

LEMMA PhaseFacts ==
    ASSUME SessionInv, InPhase
    PROVE  /\ TypeOK /\ TreesAgree
           /\ index \in Phases /\ AtThePhase
           /\ index \notin commits \ Astray
           /\ start.checkpoint \in SUBSET Phases
           /\ start.checkpoint \subseteq commits
           /\ firstArgs = NoArgs /\ pending = NoArgs
           /\ judgeIndex <= index /\ pc # "off" /\ Astray \subseteq Phases
  BY DEF SessionInv, TypeOK, BranchBehind, AtWork, Astray, InPhase, Working

LEMMA NoArgsTyped == NoArgs \in ArgsType
<1>1. Unset \in Points
  BY DEF Points
<1> QED
  BY <1>1, SessionAssumption DEF NoArgs, ArgsType

\* A run starts typed and with nothing behind it.
LEMMA InitInv == Init => SessionInv
<1> SUFFICES ASSUME Init PROVE SessionInv
  OBVIOUS
<1> USE SessionAssumption
<1>1. TypeOK
  <2>1. {} \in Points /\ Unset \in Points
    BY DEF Points
  <2>2. NoArgs \in ArgsType
    BY NoArgsTyped
  <2>3. start \in [judge : BOOLEAN, checkpoint : Points, answer : 0 .. N,
                   cfg : 0 .. N]
    BY <2>1 DEF Init
  <2>4. inRow \in [phase : 1 .. N + 1, n : Nat]
    BY DEF Init
  <2>5. "none" \in Reasons /\ pc \in PCs
    BY DEF Init, Reasons, PCs
  <2>6. /\ index \in 1 .. N + 1 /\ phaseIndex \in 1 .. N + 1
        /\ crashPhase \in 1 .. N + 1 /\ judgeIndex \in 0 .. N
        /\ phaseCfg \in 0 .. N /\ baseCfg \in 0 .. N /\ answerPhase \in 0 .. N
        /\ crashes \in Nat /\ deaths \in 0 .. MaxDeaths /\ asks \in 0 .. MaxAsks
    BY DEF Init
  <2>7. /\ commits \subseteq Phases /\ lost \subseteq Phases
        /\ debt \subseteq Phases /\ torn \subseteq Phases
        /\ marks \subseteq Phases /\ refMarks \subseteq Phases
        /\ plan \subseteq Phases /\ treeSha \subseteq Phases
    BY DEF Init
  <2> QED
    BY <2>1, <2>2, <2>3, <2>4, <2>5, <2>6, <2>7, Zenon DEF Init, TypeOK
<1>2. BranchBehind
  BY DEF Init, BranchBehind, Behind, NoArgs, InPhase, Working, Unset
<1>7. TreesAgree
  BY DEF Init, TreesAgree, Unset
<1>3. PastOthers
  BY DEF Init, PastOthers, Past
<1>4. AtWork
  BY DEF Init, AtWork, InPhase, Working, JudgeFirst, NoArgs
<1>5. LeftOnUndone
  BY DEF Init, LeftOnUndone, LeftInPhase
<1>6. Counted
  BY DEF Init, Counted, CrashLimit
<1> QED
  BY <1>1, <1>2, <1>3, <1>4, <1>5, <1>6, <1>7 DEF SessionInv

\* The end of a phase in a stop keeps the invariant.
LEMMA StopInv ==
    ASSUME SessionInv, InPhase, NEW r \in Reasons, Stop(r)
    PROVE  SessionInv'
<1> USE DEF Stop, RollBack, Snapshot, NoSnapshot, snapVars, branchVars, loopVars,
            diskVars, crashVars, history
<1>0. /\ TypeOK /\ TreesAgree /\ index \in Phases /\ AtThePhase
      /\ index \notin commits \ Astray /\ pc # "off" /\ Astray \subseteq Phases
      /\ start.checkpoint \in SUBSET Phases /\ start.checkpoint \subseteq commits
  BY PhaseFacts
<1>1. TypeOK'
  BY <1>0 DEF TypeOK, PCs, Points
<1>2. BranchBehind'
  BY <1>0 DEF SessionInv, BranchBehind, Behind, InPhase, Working
<1>3. PastOthers'
  BY DEF SessionInv, PastOthers, Past, Landed
<1>4. AtWork'
  BY DEF SessionInv, AtWork, InPhase, Working
<1>5. LeftOnUndone'
  BY <1>0 DEF LeftOnUndone, AtThePhase, Astray
<1>7. TreesAgree'
  BY <1>0 DEF TreesAgree, Landed, Astray, Unset
<1>6. Counted'
  BY DEF SessionInv, Counted
<1> QED
  BY <1>1, <1>2, <1>3, <1>4, <1>5, <1>6, <1>7 DEF SessionInv

----------------------------------------------------------------------------
(* The steps of a phase.                                                   *)

\* A question keeps the invariant: its phase is left on disk undone.
LEMMA AskInv ==
    ASSUME SessionInv, pc \in Working, NEW r \in Asked, Ask(r),
           Snapshot \/ (NoSnapshot /\ r # "judge_pending")
    PROVE  SessionInv'
<1> USE DEF Ask, Snapshot, NoSnapshot, snapVars, branchVars, loopVars, crashVars,
            Landed, Astray
<1>0. /\ TypeOK /\ TreesAgree /\ index \in Phases /\ AtThePhase
      /\ index \notin commits \ Astray /\ pc # "off" /\ Astray \subseteq Phases
      /\ start.checkpoint \in SUBSET Phases /\ start.checkpoint \subseteq commits
  BY PhaseFacts DEF InPhase
<1>1. TypeOK'
  <2>1. asks' \in 0 .. MaxAsks
    BY SessionAssumption DEF SessionInv, TypeOK
  <2>2. /\ pc' \in PCs /\ because' \in Reasons /\ reason' \in Reasons
        /\ question' \in Asked /\ base' \in Points /\ ref' \in BOOLEAN
        /\ refMarks' \subseteq Phases
    BY <1>0 DEF TypeOK, PCs, Points, Reasons
  <2> QED
    BY <2>1, <2>2 DEF SessionInv, TypeOK
<1>2. BranchBehind'
  BY <1>0 DEF SessionInv, BranchBehind, Behind, InPhase, Working
<1>3. PastOthers'
  BY DEF SessionInv, PastOthers, Past
<1>4. AtWork'
  BY DEF SessionInv, AtWork, AtThePhase, InPhase, Working
<1>5. LeftOnUndone'
  BY <1>0 DEF LeftOnUndone, AtThePhase, TreesAgree
<1>7. TreesAgree'
  BY <1>0 DEF TreesAgree, InPhase, Working
<1>6. Counted'
  BY DEF SessionInv, Counted
<1> QED
  BY <1>1, <1>2, <1>3, <1>4, <1>5, <1>6, <1>7 DEF SessionInv

\* A round that fails and an exception end the phase on a branch that holds
\* what the phase began with; so does a judge that is left pending.
LEMMA EndInv ==
    ASSUME SessionInv, RoundFails \/ Exception \/ JudgePends
    PROVE  SessionInv'
<1> USE DEF RoundFails, Exception, JudgePends, RollBack, Snapshot, NoSnapshot,
            snapVars, branchVars, loopVars, diskVars, crashVars, history, Landed,
            Astray
<1>0. /\ TypeOK /\ TreesAgree /\ index \in Phases /\ AtThePhase
      /\ index \notin commits \ Astray /\ pc # "off" /\ Astray \subseteq Phases
      /\ start.checkpoint \in SUBSET Phases /\ start.checkpoint \subseteq commits
  BY PhaseFacts DEF InPhase, Working
<1>1. TypeOK'
  <2>1. {"snapshot_failed", "crash", "judge_pending"} \subseteq Reasons
    BY AskedReasons DEF Reasons
  <2>2. /\ pc' \in PCs /\ reason' \in Reasons /\ question' \in Asked \cup {"none"}
        /\ base' \in Points /\ ref' \in BOOLEAN
        /\ commits' \subseteq Phases /\ refMarks' \subseteq Phases
        /\ marks' \subseteq Phases /\ lost' \subseteq Phases
    BY <1>0, <2>1 DEF TypeOK, PCs, Points
  <2> QED
    BY <2>2 DEF SessionInv, TypeOK
<1>2. BranchBehind'
  BY <1>0 DEF SessionInv, BranchBehind, Behind, InPhase, Working
<1>3. PastOthers'
  BY DEF SessionInv, PastOthers, Past
<1>4. AtWork'
  BY DEF SessionInv, AtWork, InPhase, Working
<1>5. LeftOnUndone'
  BY <1>0 DEF LeftOnUndone, LeftInPhase, AtThePhase, TypeOK
<1>7. TreesAgree'
  BY <1>0 DEF TreesAgree, Unset
<1>6. Counted'
  BY DEF SessionInv, Counted
<1> QED
  BY <1>1, <1>2, <1>3, <1>4, <1>5, <1>6, <1>7 DEF SessionInv

\* A round, and a judge who returns the phase to the player, stay in it.
LEMMA StayInv == ASSUME SessionInv, Round \/ JudgeReturns PROVE SessionInv'
<1> USE DEF Round, JudgeReturns, Snapshot, NoSnapshot, snapVars, branchVars,
            loopVars, diskVars, crashVars, history, Landed, Astray
<1>0. /\ TypeOK /\ TreesAgree /\ index \in Phases /\ AtThePhase
      /\ index \notin commits \ Astray /\ pc # "off" /\ Astray \subseteq Phases
      /\ start.checkpoint \in SUBSET Phases /\ start.checkpoint \subseteq commits
  BY PhaseFacts DEF InPhase, Working
<1>1. TypeOK'
  BY <1>0 DEF SessionInv, TypeOK, PCs, Working, Points, Phases
<1>2. BranchBehind'
  BY <1>0 DEF SessionInv, BranchBehind, Behind, InPhase, Working
<1>3. PastOthers'
  BY <1>0 DEF SessionInv, PastOthers, Past
<1>4. AtWork'
  BY <1>0 DEF SessionInv, AtWork, AtThePhase, InPhase, Working
<1>5. LeftOnUndone'
  BY DEF SessionInv, AtWork, Working, LeftOnUndone, LeftInPhase
<1>7. TreesAgree'
  BY <1>0 DEF TreesAgree
<1>6. Counted'
  BY DEF SessionInv, Counted
<1> QED
  BY <1>1, <1>2, <1>3, <1>4, <1>5, <1>6, <1>7 DEF SessionInv

\* A commit carries the loop past its phase.
LEMMA ShipInv == ASSUME SessionInv, JudgeShips PROVE SessionInv'
<1> USE DEF JudgeShips, Commit, Snapshot, loopVars, diskVars, crashVars, Landed,
            Astray
<1>0. /\ TypeOK /\ TreesAgree /\ index \in Phases /\ AtThePhase
      /\ index \notin commits \ Astray /\ pc # "off" /\ Astray \subseteq Phases
      /\ start.checkpoint \in SUBSET Phases /\ start.checkpoint \subseteq commits
      /\ firstArgs = NoArgs /\ pending = NoArgs /\ judgeIndex <= index
  BY PhaseFacts DEF InPhase, Working
<1>1. TypeOK'
  BY <1>0, SessionAssumption DEF SessionInv, TypeOK, PCs, Points, Phases
<1>2. BranchBehind'
  BY <1>0 DEF SessionInv, BranchBehind, Behind, InPhase, Working, NoArgs
<1>3. PastOthers'
  BY <1>0 DEF SessionInv, TypeOK, PastOthers, Past, Phases
<1>4. AtWork'
  <2>1. ~JudgeFirst'
    BY <1>0 DEF SessionInv, TypeOK, JudgeFirst, NoArgs, Phases
  <2>2. judgeIndex' <= index'
    BY <1>0 DEF SessionInv, TypeOK, Phases
  <2>3. status = "running" /\ ~restored
    BY DEF SessionInv, AtWork, Working
  <2> QED
    BY <2>1, <2>2, <2>3 DEF AtWork, InPhase, Working
<1>5. LeftOnUndone'
  BY DEF SessionInv, AtWork, Working, LeftOnUndone, LeftInPhase
<1>7. TreesAgree'
  <2>1. status = "running" /\ commits \subseteq Nat /\ index \in Nat
    BY <1>0 DEF SessionInv, AtWork, Working, TypeOK, Phases
  <2>2. \A n \in commits' : n > index' \/ n = index' => n \in plan' \cup Astray'
    BY <1>0, <2>1 DEF TreesAgree
  <2>3. /\ marks' \subseteq Landed' /\ refMarks' \subseteq Landed'
        /\ plan' \subseteq Landed' /\ commits' \subseteq marks' \cup Astray'
        /\ base' # Unset => base' \subseteq refMarks' \cup Astray'
    BY <1>0 DEF TreesAgree
  <2> QED
    BY <2>1, <2>2, <2>3 DEF TreesAgree
<1>6. Counted'
  BY DEF SessionInv, Counted
<1> QED
  BY <1>1, <1>2, <1>3, <1>4, <1>5, <1>6, <1>7 DEF SessionInv

\* Every step of a phase keeps the invariant.
LEMMA PhaseStepInv == ASSUME SessionInv, PhaseStep PROVE SessionInv'
<1>1. CASE Round \/ JudgeReturns
  BY <1>1, StayInv
<1>2. CASE RoundFails \/ Exception \/ JudgePends
  BY <1>2, EndInv
<1>3. CASE JudgeShips
  BY <1>3, ShipInv
<1>4. CASE RoundHalts
  <2>1. PICK r \in {"provider", "fuse"} : (Ask(r) /\ NoSnapshot) \/ Stop(r)
    BY <1>4 DEF RoundHalts
  <2>2. r \in Asked /\ r \in Reasons /\ r # "judge_pending"
    BY AskedReasons DEF Reasons
  <2>3. pc \in Working /\ InPhase
    BY <1>4 DEF RoundHalts, InPhase, Working
  <2> QED
    BY <2>1, <2>2, <2>3, AskInv, StopInv
<1>5. CASE JudgeHalts
  <2>1. PICK r \in Asked : (Ask(r) /\ Snapshot) \/ Stop(r)
    BY <1>5 DEF JudgeHalts
  <2>2. r \in Reasons
    BY DEF Reasons
  <2>3. pc \in Working /\ InPhase
    BY <1>5 DEF JudgeHalts, InPhase, Working
  <2> QED
    BY <2>1, <2>2, <2>3, AskInv, StopInv
<1>6. CASE UserStop
  BY <1>6, StopInv, AskedReasons DEF UserStop, InPhase, Reasons
<1> QED
  BY <1>1, <1>2, <1>3, <1>4, <1>5, <1>6 DEF PhaseStep

----------------------------------------------------------------------------
(* The loop over the phases.                                               *)

\* What a start is given is typed, and it goes back to a point of the branch.
LEMMA StartFacts ==
    ASSUME SessionInv, pc = "top"
    PROVE  /\ StartArgs \in [judge : BOOLEAN, checkpoint : Points,
                             answer : 0 .. N, cfg : 0 .. N]
           /\ StartArgs.checkpoint \subseteq commits
           /\ StartArgs.judge <=> JudgeFirst
<1>1. /\ firstArgs \in ArgsType /\ pending \in ArgsType
      /\ commits \in SUBSET Phases /\ index \in 0 .. N + 1
      /\ phaseCfg \in 0 .. N /\ baseCfg \in 0 .. N
  BY SessionAssumption DEF SessionInv, TypeOK
<1>2. Behind(firstArgs.checkpoint) /\ Behind(pending.checkpoint)
  BY DEF SessionInv, BranchBehind
<1> DEFINE point == FirstSet(pending.checkpoint, firstArgs.checkpoint)
           answer == IF pending.answer # 0 THEN pending.answer
                                           ELSE firstArgs.answer
           role == IF phaseCfg = index THEN index ELSE baseCfg
<1>3. point \in Points /\ point \subseteq commits
  BY <1>1, <1>2 DEF FirstSet, Behind, Points, ArgsType
<1>4. answer \in 0 .. N /\ role \in 0 .. N
  BY <1>1 DEF ArgsType
<1>5. JudgeFirst \in BOOLEAN
  BY <1>1 DEF JudgeFirst, ArgsType
<1>6. StartArgs = [judge |-> JudgeFirst, checkpoint |-> point,
                   answer |-> answer, cfg |-> role]
  BY DEF StartArgs, JudgeFirst
<1> HIDE DEF point, answer, role
<1> QED
  BY <1>3, <1>4, <1>5, <1>6

\* The loop passes over a phase for its commit only, and starts no phase that
\* has one.
LEMMA LoopInv ==
    ASSUME SessionInv, Finish \/ PassDone \/ BeginPhase
    PROVE  SessionInv'
<1> USE DEF loopVars, diskVars, snapVars, crashVars, branchVars, history, Landed,
            Astray
<1>0. TypeOK /\ TreesAgree /\ pc = "top" /\ status = "running" /\ ~restored
  BY DEF SessionInv, AtWork, Finish, PassDone, BeginPhase
<1>1. CASE Finish
  <2>1. TypeOK'
    BY <1>0, <1>1 DEF Finish, TypeOK, PCs
  <2>2. BranchBehind'
    BY <1>1 DEF Finish, SessionInv, BranchBehind, Behind, InPhase, Working
  <2>3. PastOthers' /\ Counted'
    BY <1>1 DEF Finish, SessionInv, PastOthers, Past, Counted
  <2>4. AtWork' /\ LeftOnUndone'
    BY <1>1 DEF Finish, AtWork, InPhase, Working, LeftOnUndone, LeftInPhase
  <2>5. TreesAgree'
    BY <1>0, <1>1 DEF Finish, TreesAgree
  <2> QED
    BY <2>1, <2>2, <2>3, <2>4, <2>5 DEF SessionInv
<1>2. CASE PassDone
  <2>0. index \in plan /\ index \in Landed /\ index \in Phases
    BY <1>0, <1>2 DEF PassDone, TreesAgree, TypeOK
  <2>1. TypeOK'
    BY <1>0, <1>2, <2>0, SessionAssumption DEF PassDone, TypeOK, PCs, Phases
  <2>2. BranchBehind'
    BY <1>2 DEF PassDone, SessionInv, BranchBehind, Behind, InPhase, Working
  <2>3. PastOthers'
    BY <1>0, <1>2, <2>0 DEF PassDone, SessionInv, TypeOK, BranchBehind,
       PastOthers, Past, Phases
  <2>4. AtWork'
    <3>1. /\ judgeIndex <= index
          /\ JudgeFirst => phaseIndex \in Astray
      BY <1>0, <2>0 DEF SessionInv, AtWork, AtThePhase
    <3>2. judgeIndex' <= index' /\ judgeIndex' # index'
      BY <1>0, <1>2, <2>0, <3>1 DEF PassDone, TypeOK, Phases
    <3>3. JudgeFirst' => JudgeFirst
      BY <1>2, <3>2 DEF PassDone, JudgeFirst
    <3>4. JudgeFirst' => phaseIndex' \in Astray'
      BY <1>2, <3>1, <3>3 DEF PassDone
    <3>5. pc' = "top" /\ status' = "running" /\ ~restored'
      BY <1>0, <1>2 DEF PassDone
    <3> HIDE DEF Astray
    <3> QED
      BY <3>2, <3>4, <3>5 DEF AtWork, AtThePhase, InPhase, Working
  <2>5. LeftOnUndone'
    BY <1>0, <1>2 DEF PassDone, LeftOnUndone, LeftInPhase
  <2>6. Counted'
    BY <1>2 DEF PassDone, SessionInv, Counted
  <2>7. TreesAgree'
    <3>1. commits \subseteq Nat /\ index \in Nat
      BY <1>0, <2>0 DEF TypeOK, Phases
    <3>2. \A n \in commits : n > index + 1 \/ n = index + 1 => n \in plan \cup Astray
      BY <1>0, <3>1 DEF TreesAgree
    <3> QED
      BY <1>0, <1>2, <3>2 DEF PassDone, TreesAgree
  <2> QED
    BY <2>1, <2>2, <2>3, <2>4, <2>5, <2>6, <2>7 DEF SessionInv
<1>3. CASE BeginPhase
  <2>0. /\ index \in Phases /\ index \notin commits \ Astray
        /\ start' = StartArgs /\ firstArgs' = NoArgs /\ pending' = NoArgs
        /\ pc' \in Working
    BY <1>0, <1>3 DEF BeginPhase, Undone, Emptied, Working, TreesAgree
  <2>1. AtThePhase' /\ phaseIndex' \in {index, phaseIndex}
    <3>1. CASE StartArgs.judge
      BY <1>0, <1>3, <3>1, StartFacts DEF BeginPhase, SessionInv, AtWork, AtThePhase
    <3>2. CASE ~StartArgs.judge
      BY <1>3, <3>2 DEF BeginPhase, AtThePhase
    <3> QED
      BY <3>1, <3>2
  <2>2. inRow' \in [phase : 1 .. N + 1, n : Nat] /\ Counted'
    BY <1>0, <1>3 DEF BeginPhase, SessionInv, TypeOK, Counted, CrashLimit
  <2>3. NoArgs \in ArgsType
    BY NoArgsTyped
  <2>4. TypeOK'
    <3>1. phaseCfg' \in 0 .. N
      BY <1>0, <1>3, SessionAssumption DEF BeginPhase, TypeOK
    <3>2. pc' \in PCs /\ phaseIndex' \in 1 .. N + 1
      BY <1>0, <2>0, <2>1 DEF PCs, TypeOK
    <3>3. start' \in [judge : BOOLEAN, checkpoint : Points, answer : 0 .. N,
                      cfg : 0 .. N]
      BY <1>0, <2>0, StartFacts
    <3> QED
      BY <1>0, <1>3, <2>0, <2>2, <2>3, <3>1, <3>2, <3>3 DEF BeginPhase, TypeOK
  <2>5. BranchBehind'
    <3>1. start'.checkpoint \subseteq commits'
      BY <1>0, <1>3, <2>0, StartFacts DEF BeginPhase
    <3> QED
      BY <1>3, <2>0, <3>1 DEF BeginPhase, SessionInv, BranchBehind, Behind, Working
  <2>6. PastOthers'
    BY <1>3, <2>1 DEF BeginPhase, SessionInv, PastOthers, Past
  <2>7. AtWork'
    BY <1>0, <1>3, <2>0, <2>1 DEF BeginPhase, SessionInv, AtWork, InPhase, Working
  <2>8. LeftOnUndone'
    BY <1>0, <1>3 DEF BeginPhase, LeftOnUndone, LeftInPhase
  <2>9. TreesAgree'
    BY <1>0, <1>3, <2>0 DEF BeginPhase, TreesAgree, Working
  <2> QED
    BY <2>2, <2>4, <2>5, <2>6, <2>7, <2>8, <2>9 DEF SessionInv
<1> QED
  BY <1>1, <1>2, <1>3

----------------------------------------------------------------------------
(* Answers.                                                                *)

\* What is known where an answer is carried out.
LEMMA AskedFacts ==
    ASSUME SessionInv, pc = "asked"
    PROVE  /\ InPhase /\ TypeOK /\ TreesAgree
           /\ index \in Phases /\ AtThePhase /\ index \notin commits \ Astray
           /\ start.checkpoint \in SUBSET Phases
           /\ start.checkpoint \subseteq commits
           /\ firstArgs = NoArgs /\ pending = NoArgs /\ judgeIndex <= index
           /\ Behind(base)
           /\ restored => start.checkpoint = base
<1>1. InPhase
  BY DEF InPhase
<1> QED
  BY <1>1, PhaseFacts DEF SessionInv, BranchBehind, AtWork

\* A rollback to the checkpoint of the phase keeps the trees in agreement.
LEMMA RollBackTrees ==
    ASSUME SessionInv, InPhase, RollBack, UNCHANGED <<plan, torn>>
    PROVE  /\ Landed' = Landed /\ Astray \subseteq Astray'
           /\ commits' = start.checkpoint /\ commits' \subseteq commits
           /\ marks' \subseteq Landed' /\ refMarks' \subseteq Landed'
           /\ commits' \subseteq marks' \cup Astray'
           /\ commits' \subseteq refMarks' \cup Astray'
           /\ base' = commits' /\ ref'
           /\ lost' \subseteq Phases /\ marks' \subseteq Phases
           /\ refMarks' \subseteq Phases /\ base' \in Points
<1>1. /\ TypeOK /\ TreesAgree /\ start.checkpoint \in SUBSET Phases
      /\ start.checkpoint \subseteq commits
  BY PhaseFacts
<1> QED
  BY <1>1 DEF RollBack, Snapshot, Landed, Astray, TreesAgree, TypeOK, Points

\* A phase that goes on starts again as the phase it was, on the branch or on
\* its checkpoint.
LEMMA GoOnInv ==
    ASSUME SessionInv, pc = "asked",
           NEW judge \in BOOLEAN, NEW point \in Points,
           GoOn(judge, point),
           point = Unset \/ (point = start.checkpoint /\ SameTree),
           SameTree \/ RollBack,
           phaseCfg' \in {phaseCfg, index}, baseCfg' \in {baseCfg, index},
           answerPhase' \in {answerPhase, index}
    PROVE  SessionInv'
<1> USE DEF GoOn, Closed, crashVars, history
<1>0. /\ InPhase /\ TypeOK /\ TreesAgree
      /\ index \in Phases /\ AtThePhase /\ index \notin commits \ Astray
      /\ start.checkpoint \in SUBSET Phases
      /\ start.checkpoint \subseteq commits
      /\ firstArgs = NoArgs /\ pending = NoArgs /\ judgeIndex <= index
      /\ Behind(base)
      /\ restored => start.checkpoint = base
  BY AskedFacts
<1>t. /\ commits' \in SUBSET commits /\ Landed' = Landed
      /\ Astray \subseteq Astray' /\ start.checkpoint \subseteq commits'
      /\ Behind(base)' /\ TreesAgree'
      /\ commits' \subseteq Phases /\ lost' \subseteq Phases
      /\ marks' \subseteq Phases /\ refMarks' \subseteq Phases
      /\ base' \in Points /\ ref' \in BOOLEAN
  <2>1. CASE SameTree
    <3>1. /\ commits' = commits /\ Landed' = Landed /\ Astray' = Astray
          /\ UNCHANGED <<marks, refMarks, plan, base, ref, lost, index>>
      BY <2>1 DEF SameTree, branchVars, snapVars, Landed, Astray
    <3>2. pc' = "top" /\ status' = "running"
      OBVIOUS
    <3>3. TreesAgree'
      BY <1>0, <3>1, <3>2 DEF TreesAgree
    <3> QED
      BY <1>0, <3>1, <3>3 DEF Behind, TypeOK
  <2>2. CASE RollBack
    <3>1. /\ Landed' = Landed /\ Astray \subseteq Astray'
          /\ commits' = start.checkpoint /\ commits' \subseteq commits
          /\ marks' \subseteq Landed' /\ refMarks' \subseteq Landed'
          /\ commits' \subseteq marks' \cup Astray'
          /\ commits' \subseteq refMarks' \cup Astray'
          /\ base' = commits' /\ ref' = TRUE
          /\ lost' \subseteq Phases /\ marks' \subseteq Phases
          /\ refMarks' \subseteq Phases /\ base' \in Points
      BY <1>0, <2>2, RollBackTrees DEF RollBack, Snapshot
    <3>2. pc' = "top" /\ status' = "running" /\ UNCHANGED <<index, plan>>
      OBVIOUS
    <3>3. TreesAgree'
      BY <1>0, <3>1, <3>2 DEF TreesAgree, InPhase, Working
    <3> QED
      BY <1>0, <3>1, <3>3 DEF Behind, TypeOK
  <2> QED
    BY <2>1, <2>2
<1> DEFINE args == [judge |-> judge, checkpoint |-> point, answer |-> index]
           again == [judge |-> judge, checkpoint |-> base, answer |-> index]
<1>1. IF restored THEN firstArgs' = again /\ pending' = NoArgs
                  ELSE pending' = args /\ firstArgs' = NoArgs
  BY <1>0
<1>2. args \in ArgsType /\ again \in ArgsType
  BY <1>0, SessionAssumption DEF ArgsType, TypeOK, Phases
<1>3. TypeOK'
  <2>1. firstArgs' \in ArgsType /\ pending' \in ArgsType
    BY <1>1, <1>2, NoArgsTyped
  <2>2. phaseCfg' \in 0 .. N /\ baseCfg' \in 0 .. N /\ answerPhase' \in 0 .. N
    BY <1>0 DEF TypeOK, Phases
  <2>3. pc' \in PCs
    BY DEF PCs
  <2> QED
    BY <1>0, <1>t, <2>1, <2>2, <2>3 DEF TypeOK
<1>4. BranchBehind'
  <2>2. pending'.checkpoint = Unset \/ pending'.checkpoint \subseteq commits'
    BY <1>0, <1>1, <1>t DEF NoArgs
  <2>3. firstArgs'.checkpoint = Unset \/ firstArgs'.checkpoint \subseteq commits'
    BY <1>0, <1>1, <1>t DEF NoArgs, Behind
  <2> QED
    BY <1>t, <2>2, <2>3 DEF BranchBehind, Behind, InPhase, Working
<1>5. PastOthers'
  BY <1>t DEF SessionInv, PastOthers, Past
<1>6. AtWork'
  <2>1. AtThePhase'
    BY <1>0, <1>t DEF AtThePhase
  <2>2. index = phaseIndex => index \notin plan \ Astray'
    BY <1>0, <1>t DEF TreesAgree, Landed, Astray
  <2> QED
    BY <1>0, <2>1, <2>2 DEF AtWork, InPhase, Working
<1>7. LeftOnUndone'
  BY DEF LeftOnUndone, LeftInPhase
<1>8. Counted'
  BY DEF SessionInv, Counted
<1> QED
  BY <1>t, <1>3, <1>4, <1>5, <1>6, <1>7, <1>8 DEF SessionInv

\* A skipped phase is in debt before the loop goes past it.
LEMMA SkipInv ==
    ASSUME SessionInv, pc = "asked", AnswerSkip
    PROVE  SessionInv'
<1>0. /\ InPhase /\ TypeOK /\ TreesAgree
      /\ index \in Phases /\ AtThePhase /\ index \notin commits \ Astray
      /\ start.checkpoint \in SUBSET Phases
      /\ start.checkpoint \subseteq commits
      /\ firstArgs = NoArgs /\ pending = NoArgs /\ judgeIndex <= index
  BY AskedFacts
<1>1. CASE Stop(because)
  BY <1>0, <1>1, StopInv DEF TypeOK
<1>2. CASE ~Stop(because)
  <2> USE DEF Closed, loopVars, crashVars, history
  <2>0. /\ pc' = "top" /\ index' = index + 1 /\ RollBack
        /\ status' = "running" /\ restored' = FALSE
        /\ debt' = debt \cup {index} /\ answerPhase' = 0
        /\ reason' = because /\ question' = "none"
        /\ UNCHANGED <<start, loopVars, because, plan, decisions, treeSha,
                       phaseIndex, crashVars, history>>
    BY <1>2 DEF AnswerSkip
  <2>t. /\ Landed' = Landed /\ Astray \subseteq Astray'
        /\ commits' = start.checkpoint /\ commits' \subseteq commits
        /\ marks' \subseteq Landed' /\ refMarks' \subseteq Landed'
        /\ commits' \subseteq marks' \cup Astray'
        /\ commits' \subseteq refMarks' \cup Astray'
        /\ base' = commits' /\ ref' = TRUE
        /\ lost' \subseteq Phases /\ marks' \subseteq Phases
        /\ refMarks' \subseteq Phases /\ base' \in Points
    BY <1>0, <2>0, RollBackTrees DEF RollBack, Snapshot
  <2>n. index \in Nat /\ commits \subseteq Nat /\ judgeIndex \in Nat
    BY <1>0 DEF TypeOK, Phases
  <2>1. TypeOK'
    <3>1. index' \in 1 .. N + 1 /\ answerPhase' \in 0 .. N
      BY <1>0, <2>0, SessionAssumption DEF Phases
    <3>2. debt' \subseteq Phases /\ commits' \subseteq Phases
      BY <1>0, <2>0, <2>t DEF TypeOK
    <3>3. reason' \in Reasons /\ pc' \in PCs
      BY <1>0, <2>0 DEF TypeOK, PCs
    <3> QED
      BY <1>0, <2>0, <2>t, <3>1, <3>2, <3>3 DEF TypeOK
  <2>2. BranchBehind'
    BY <1>0, <2>0, <2>t DEF BranchBehind, Behind, InPhase, Working, NoArgs
  <2>3. PastOthers'
    BY <2>0, <2>t, <2>n DEF SessionInv, PastOthers, Past
  <2>4. AtWork'
    <3>1. ~JudgeFirst' /\ judgeIndex' <= index'
      BY <1>0, <2>0, <2>n DEF JudgeFirst, NoArgs
    <3> QED
      BY <2>0, <3>1 DEF AtWork, InPhase, Working
  <2>5. LeftOnUndone'
    BY <2>0 DEF LeftOnUndone, LeftInPhase
  <2>6. Counted'
    BY <2>0 DEF SessionInv, Counted
  <2>7. TreesAgree'
    <3>1. plan' \subseteq Landed'
      BY <1>0, <2>0, <2>t DEF TreesAgree
    <3>2. \A n \in commits' : n > index' \/ n = index' => n \in plan' \cup Astray'
      <4>1. \A n \in commits : n > index => n \in plan \cup Astray
        BY <1>0 DEF TreesAgree
      <4>2. plan' = plan /\ index' = index + 1
        BY <2>0
      <4>3. \A n \in commits' : n \in commits /\ n \in Nat
        BY <2>t, <2>n
      <4>4. \A n \in commits' : n > index + 1 \/ n = index + 1 => n > index
        BY <2>n, <4>3
      <4> QED
        BY <2>t, <4>1, <4>2, <4>3, <4>4
    <3> QED
      BY <2>0, <2>t, <3>1, <3>2 DEF TreesAgree
  <2> QED
    BY <2>1, <2>2, <2>3, <2>4, <2>5, <2>6, <2>7 DEF SessionInv
<1> QED
  BY <1>1, <1>2

\* The commit of a person leaves the question on disk for a moment.
LEMMA LandInv == ASSUME SessionInv, pc = "asked", Land PROVE SessionInv'
<1> USE DEF Land, Commit, loopVars, diskVars, snapVars, crashVars
<1>0. /\ TypeOK /\ TreesAgree /\ Behind(base)
      /\ index \in Phases /\ AtThePhase /\ index \notin commits \ Astray
      /\ firstArgs = NoArgs /\ pending = NoArgs /\ judgeIndex <= index
  BY AskedFacts
<1>1. /\ commits' = commits \cup {index} /\ marks' = marks \cup {index}
      /\ Landed' = Landed \cup {index} /\ Astray' = Astray
      /\ commits' \subseteq Phases /\ marks' \subseteq Phases
  BY <1>0 DEF Landed, Astray, TypeOK
<1>2. TypeOK'
  BY <1>0, <1>1 DEF TypeOK, PCs
<1>3. BranchBehind'
  BY <1>0, <1>1 DEF BranchBehind, Behind, InPhase, Working
<1>4. PastOthers'
  BY <1>1 DEF SessionInv, PastOthers, Past
<1>5. AtWork'
  <2>1. status \in {"waiting_human", "judge_pending"}
    BY DEF SessionInv, AtWork
  <2> QED
    BY <1>0, <1>1, <2>1 DEF AtWork, AtThePhase, InPhase, Working
<1>6. LeftOnUndone'
  <2>1. status \in {"waiting_human", "judge_pending"} /\ LeftOnUndone
    BY DEF SessionInv, AtWork
  <2> QED
    BY <1>1, <2>1 DEF LeftOnUndone, LeftInPhase
<1>7. TreesAgree'
  <2>1. \A n \in commits' : n > index => n \in plan \cup Astray
    BY <1>0, <1>1 DEF TreesAgree, Phases
  <2> QED
    BY <1>0, <1>1, <2>1 DEF TreesAgree
<1>8. Counted'
  BY DEF SessionInv, Counted
<1> QED
  BY <1>2, <1>3, <1>4, <1>5, <1>6, <1>7, <1>8 DEF SessionInv

\* The closing of the question, and the end of a run that was a question,
\* carry the loop past a phase that is on the branch.
LEMMA CloseInv == ASSUME SessionInv, CloseLanding \/ EndRun PROVE SessionInv'
<1> USE DEF CloseLanding, EndRun, Closed, loopVars, diskVars, snapVars, branchVars,
            crashVars, history
<1>0. /\ TypeOK /\ TreesAgree /\ judgeIndex <= index
      /\ UNCHANGED <<branchVars, snapVars, diskVars, torn, plan, phaseIndex>>
      /\ Landed' = Landed /\ Astray' = Astray
  BY DEF SessionInv, AtWork, Landed, Astray
<1>1. \/ /\ pc = "landing" /\ pc' = "top" /\ index' = index + 1
         /\ status' = "running" /\ restored' = FALSE
      \/ /\ pc # "off" /\ pc' = "ending" /\ index' = index
         /\ status' = "running" /\ restored' = FALSE
      \/ pc' = "off" /\ index' = index /\ status' = "done" /\ ~restored'
  BY DEF SessionInv, AtWork
<1>2. pc = "landing" => /\ index \in Phases /\ index \in commits
                        /\ firstArgs = NoArgs /\ pending = NoArgs
  BY DEF SessionInv, AtWork
<1>3. /\ index \in Nat /\ commits \subseteq Nat /\ judgeIndex \in Nat
  BY <1>0 DEF TypeOK, Phases
<1>4. TypeOK'
  <2>1. index' \in 1 .. N + 1
    BY <1>0, <1>1, <1>2, SessionAssumption DEF TypeOK, Phases
  <2>2. reason' \in Reasons /\ question' \in Asked \cup {"none"} /\ pc' \in PCs
    BY <1>0 DEF TypeOK, Reasons, PCs
  <2> QED
    BY <1>0, <1>1, <2>1, <2>2 DEF TypeOK
<1>5. BranchBehind'
  BY <1>0, <1>1, <1>2 DEF SessionInv, BranchBehind, Behind, InPhase, Working, NoArgs
<1>6. PastOthers'
  <2>1. \A m \in 1 .. index' - 1 : m \in Landed' \cup debt'
    <3>1. /\ \A m \in 1 .. index - 1 : m \in Landed \cup debt
          /\ index' = index \/ (index' = index + 1 /\ index \in Landed)
      BY <1>0, <1>1, <1>2 DEF SessionInv, PastOthers, Past, Landed
    <3> QED
      BY <1>0, <1>3, <3>1
  <2> QED
    BY <1>0, <2>1 DEF SessionInv, PastOthers, Past
<1>7. AtWork'
  <2>1. pc' = "top" => ~JudgeFirst' /\ judgeIndex' <= index'
    BY <1>0, <1>1, <1>2, <1>3 DEF JudgeFirst, NoArgs
  <2> QED
    BY <1>0, <1>1, <2>1 DEF AtWork, InPhase, Working
<1>8. LeftOnUndone'
  BY <1>1 DEF LeftOnUndone, LeftInPhase
<1>9. TreesAgree'
  <2>1. pc' # "off" =>
            \A n \in commits : n > index' \/ (pc' = "top" /\ n = index')
                                   => n \in plan \cup Astray
    BY <1>0, <1>1, <1>3 DEF TreesAgree
  <2> QED
    BY <1>0, <1>1, <2>1 DEF TreesAgree
<1>10. Counted'
  BY DEF SessionInv, Counted
<1> QED
  BY <1>4, <1>5, <1>6, <1>7, <1>8, <1>9, <1>10 DEF SessionInv

\* Every answer keeps the invariant.
LEMMA AnswerInv == ASSUME SessionInv, Answer PROVE SessionInv'
<1>0. /\ pc = "asked" /\ InPhase /\ because \in Reasons
      /\ start.checkpoint \in Points /\ Unset \in Points
  BY AskedFacts DEF Answer, TypeOK, Points
<1>1. CASE AnswerText \/ AnswerMore \/ AnswerModel
  <2>1. /\ GoOn(FALSE, Unset) /\ SameTree
        /\ phaseCfg' \in {phaseCfg, index} /\ baseCfg' \in {baseCfg, index}
        /\ answerPhase' \in {answerPhase, index}
    BY <1>1 DEF AnswerText, AnswerMore, AnswerModel, SameCfg
  <2> QED
    BY <1>0, <2>1, GoOnInv
<1>2. CASE AnswerJudge
  <2>1. /\ GoOn(TRUE, start.checkpoint) /\ SameTree
        /\ phaseCfg' \in {phaseCfg, index} /\ baseCfg' \in {baseCfg, index}
        /\ answerPhase' \in {answerPhase, index}
    BY <1>2 DEF AnswerJudge, SameCfg
  <2> QED
    BY <1>0, <2>1, GoOnInv
<1>3. CASE AnswerAgain
  <2>1. CASE Stop(because)
    BY <1>0, <2>1, StopInv
  <2>2. CASE ~Stop(because)
    <3>1. /\ GoOn(FALSE, Unset) /\ RollBack
          /\ phaseCfg' \in {phaseCfg, index} /\ baseCfg' \in {baseCfg, index}
          /\ answerPhase' \in {answerPhase, index}
      BY <1>3, <2>2 DEF AnswerAgain, SameCfg
    <3> QED
      BY <1>0, <3>1, GoOnInv
  <2> QED
    BY <2>1, <2>2
<1>4. CASE AnswerSkip
  BY <1>0, <1>4, SkipInv
<1>5. CASE AnswerShip \/ AnswerAccept \/ Stop(because)
  BY <1>0, <1>5, LandInv, StopInv DEF AnswerShip, AnswerAccept
<1> QED
  BY <1>1, <1>2, <1>3, <1>4, <1>5 DEF Answer

----------------------------------------------------------------------------
(* Death and resume.                                                       *)

\* A death leaves state.json as it is, and the branch too, but for a rollback.
LEMMA DieInv == ASSUME SessionInv, Die PROVE SessionInv'
<1> USE DEF Die, loopVars, diskVars, crashVars
<1>0. TypeOK /\ TreesAgree /\ pc' = "off" /\ Astray \subseteq Phases
  BY DEF SessionInv, TypeOK, Astray
<1>1. /\ commits' \subseteq commits /\ Landed' = Landed
      /\ Astray \subseteq Astray' /\ Behind(base)'
      /\ marks' \subseteq Landed' /\ refMarks' \subseteq Landed'
      /\ commits' \subseteq marks' \cup Astray'
      /\ base' # Unset => base' \subseteq refMarks' \cup Astray'
      /\ status = "judge_pending" => commits' \subseteq refMarks' \cup Astray'
      /\ lost' \subseteq Phases /\ marks' \subseteq Phases
      /\ refMarks' \subseteq Phases /\ base' \in Points /\ ref' \in BOOLEAN
      /\ torn' \subseteq Phases
  <2>1. CASE InPhase /\ RollBack
    <3>1. torn' = torn /\ plan' = plan
      BY <2>1 DEF InPhase, Working
    <3>2. /\ Landed' = Landed /\ Astray \subseteq Astray'
          /\ commits' = start.checkpoint /\ commits' \subseteq commits
          /\ marks' \subseteq Landed' /\ refMarks' \subseteq Landed'
          /\ commits' \subseteq marks' \cup Astray'
          /\ commits' \subseteq refMarks' \cup Astray'
          /\ base' = commits' /\ ref' = TRUE
          /\ lost' \subseteq Phases /\ marks' \subseteq Phases
          /\ refMarks' \subseteq Phases /\ base' \in Points
      BY <2>1, <3>1, RollBackTrees DEF RollBack, Snapshot
    <3> QED
      BY <1>0, <3>1, <3>2 DEF TypeOK, Behind
  <2>2. CASE UNCHANGED <<branchVars, snapVars>>
    <3>1. UNCHANGED <<commits, marks, lost, base, ref, refMarks>>
      BY <2>2 DEF branchVars, snapVars
    <3>2. torn \subseteq torn' /\ torn' \subseteq Phases
      BY <1>0 DEF SessionInv, AtWork, TypeOK
    <3>3. /\ pc = "landing" /\ status = "judge_pending" => index \in torn'
          /\ Behind(base) /\ Landed' = Landed
      BY <3>1 DEF SessionInv, BranchBehind, Landed
    <3>4. Astray \subseteq Astray' /\ torn' \subseteq Astray'
      BY <3>1, <3>2 DEF Astray
    <3>5. status = "judge_pending" => commits' \subseteq refMarks' \cup Astray'
      BY <1>0, <3>1, <3>3, <3>4 DEF TreesAgree
    <3> QED
      BY <1>0, <3>1, <3>2, <3>3, <3>4, <3>5 DEF TreesAgree, TypeOK, Behind
  <2> QED
    BY <2>1, <2>2
<1>2. TypeOK'
  <2>1. commits' \subseteq Phases /\ deaths' \in 0 .. MaxDeaths /\ pc' \in PCs
    BY <1>0, <1>1, SessionAssumption DEF TypeOK, PCs
  <2> QED
    BY <1>0, <1>1, <2>1 DEF TypeOK
<1>3. BranchBehind'
  BY <1>0, <1>1 DEF BranchBehind, InPhase, Working
<1>4. PastOthers' /\ Counted'
  BY <1>1 DEF SessionInv, PastOthers, Past, Counted
<1>5. AtWork'
  BY <1>0 DEF AtWork, InPhase, Working
<1>6. LeftOnUndone'
  <2>1. LeftInPhase' => phaseIndex \in Phases \ (commits' \ Astray')
    <3>1. CASE InPhase \/ pc = "landing"
      <4>1. /\ index \in Phases /\ phaseIndex \in {index} \cup Astray
            /\ index \notin commits \ Astray \/ pc = "landing"
        BY <3>1 DEF SessionInv, AtWork, AtThePhase
      <4>2. pc = "landing" /\ LeftInPhase' => index \in Astray'
        <5>1. pc = "landing" /\ LeftInPhase' => status = "judge_pending"
          BY DEF LeftInPhase, SessionInv, AtWork
        <5> QED
          BY <5>1 DEF Astray
      <4> QED
        BY <1>0, <1>1, <4>1, <4>2
    <3>2. CASE ~(InPhase \/ pc = "landing")
      <4>1. LeftInPhase' => LeftInPhase
        BY <3>2 DEF LeftInPhase
      <4> QED
        BY <1>1, <4>1 DEF SessionInv, LeftOnUndone
    <3> QED
      BY <3>1, <3>2
  <2>2. status' = "waiting_human" => phaseIndex \in Phases \ (treeSha \ Astray')
    BY <1>1 DEF SessionInv, LeftOnUndone
  <2> QED
    BY <2>1, <2>2 DEF LeftOnUndone
<1>7. TreesAgree'
  BY <1>0, <1>1 DEF TreesAgree
<1> QED
  BY <1>2, <1>3, <1>4, <1>5, <1>6, <1>7 DEF SessionInv

\* A process enters the loop at a phase with nothing behind it open, with the
\* judge first only at the phase state.json names and only when it is undone.
LEMMA EnterInv ==
    ASSUME SessionInv, NEW n \in Phases, NEW args \in ArgsType,
           NEW judge \in 0 .. N,
           Enter(n, args, judge), Past(n),
           Behind(args.checkpoint),
           judge <= n,
           args.judge \/ judge = n => n = phaseIndex /\ n \notin plan' \ Astray,
           marks' \subseteq Landed, commits \subseteq marks' \cup Astray,
           plan' \subseteq Landed,
           \A m \in commits : m >= n => m \in plan' \cup Astray,
           phaseIndex' \in 1 .. N + 1, Past(phaseIndex'),
           args.judge \/ judge = n => phaseIndex' = phaseIndex,
           status' = "running", reason' = "resume",
           question' \in {question, "none"},
           UNCHANGED <<diskVars, snapVars, history>>,
           crashes' \in Nat, crashPhase' \in 1 .. N + 1,
           inRow' \in [phase : 1 .. N + 1, n : Nat], Counted'
    PROVE  SessionInv'
<1> USE DEF Enter, diskVars, snapVars, history
<1>0. /\ UNCHANGED <<commits, lost, torn>> /\ Landed' = Landed /\ Astray' = Astray
      /\ TypeOK /\ TreesAgree /\ n \in Nat /\ commits \subseteq Nat
  BY DEF Landed, Astray, SessionInv, TypeOK, Phases
<1>1. TypeOK'
  <2>1. pc' \in PCs /\ reason' \in Reasons /\ index' \in 1 .. N + 1
    BY SessionAssumption DEF PCs, Reasons, Phases
  <2>2. firstArgs' \in ArgsType /\ pending' \in ArgsType
    BY NoArgsTyped
  <2>3. phaseCfg' \in 0 .. N /\ baseCfg' \in 0 .. N /\ restored' = FALSE
    BY SessionAssumption
  <2>4. question' \in Asked \cup {"none"}
    BY DEF SessionInv, TypeOK
  <2>5. marks' \subseteq Phases /\ plan' \subseteq Phases
    BY <1>0 DEF Landed, TypeOK
  <2> QED
    BY <1>0, <2>1, <2>2, <2>3, <2>4, <2>5 DEF TypeOK
<1>2. BranchBehind'
  BY DEF SessionInv, BranchBehind, Behind, InPhase, Working, NoArgs
<1>3. PastOthers'
  BY <1>0 DEF PastOthers, Past
<1>4. AtWork'
  <2>1. JudgeFirst' => args.judge \/ judge = n
    BY DEF JudgeFirst, NoArgs
  <2>2. JudgeFirst' => AtThePhase' /\ index' \notin plan' \ Astray'
    BY <1>0, <2>1 DEF AtThePhase
  <2> QED
    BY <2>2 DEF AtWork, InPhase, Working
<1>5. LeftOnUndone'
  BY DEF LeftOnUndone, LeftInPhase
<1>6. TreesAgree'
  <2>1. \A m \in commits : m > n \/ m = n => m \in plan' \cup Astray
    BY <1>0
  <2>2. index' = n /\ status' = "running"
    OBVIOUS
  <2> QED
    BY <1>0, <2>1, <2>2 DEF TreesAgree
<1> QED
  BY <1>1, <1>2, <1>3, <1>4, <1>5, <1>6 DEF SessionInv

\* What a process finds that goes on from the head of the branch.
LEMMA HeadTrees ==
    ASSUME SessionInv, FromHead
    PROVE  /\ marks' \subseteq Landed /\ commits \subseteq marks' \cup Astray
           /\ plan' \subseteq Landed
           /\ \A m \in commits : m \in plan' \cup Astray
  BY DEF FromHead, Read, Landed

\* A restart that is counted stays within the limit.
LEMMA BumpCounted ==
    ASSUME SessionInv, NEW force \in BOOLEAN, CrashLoop => force, Bump(force)
    PROVE  /\ crashes' \in Nat /\ crashPhase' \in 1 .. N + 1
           /\ inRow' \in [phase : 1 .. N + 1, n : Nat]
           /\ Counted'
<1>1. /\ crashes \in Nat /\ phaseIndex \in 1 .. N + 1
      /\ inRow \in [phase : 1 .. N + 1, n : Nat] /\ Counted
  BY DEF SessionInv, TypeOK
<1>2. Count \in Nat /\ crashes' = Count + 1 /\ crashPhase' = phaseIndex
  BY <1>1 DEF Count, Bump, Bumped
<1> DEFINE row == IF force THEN 0
                  ELSE IF inRow.phase = phaseIndex THEN inRow.n + 1 ELSE 1
<1>3. inRow' = [phase |-> phaseIndex, n |-> row]
  BY DEF Bump
<1>4. row \in Nat /\ row <= CrashLimit /\ row <= crashes'
  <2>1. CASE force
    BY <1>2, <2>1 DEF CrashLimit
  <2>2. CASE ~force
    <3>1. Count <= 1
      BY <1>2, <2>2 DEF CrashLoop, CrashLimit
    <3>2. inRow.phase = phaseIndex => inRow.n <= Count
      BY <1>1, <1>2 DEF Counted, Count
    <3> QED
      BY <1>1, <1>2, <2>2, <3>1, <3>2 DEF CrashLimit
  <2> QED
    BY <2>1, <2>2
<1> HIDE DEF row
<1>5. crashes' \in Nat /\ crashPhase' \in 1 .. N + 1
  BY <1>1, <1>2
<1>6. inRow' \in [phase : 1 .. N + 1, n : Nat]
  BY <1>1, <1>3, <1>4
<1>7. Counted'
  BY <1>2, <1>3, <1>4 DEF Counted
<1> QED
  BY <1>5, <1>6, <1>7

\* Where a restart begins, everything before it was committed or is in debt.
LEMMA PhaseAtPast ==
    ASSUME SessionInv, NEW n \in 1 .. N + 1, Past(n),
           n \in Phases \/ Unmarked # {}
    PROVE  PhaseAt(n) \in Phases /\ Past(PhaseAt(n))
<1>1. CASE n \in Phases
  BY <1>1 DEF PhaseAt
<1>2. CASE n \notin Phases
  <2> DEFINE least(p) == \A q \in Unmarked : p <= q
  <2>1. Unmarked \in SUBSET Nat /\ Unmarked # {}
    BY <1>2 DEF Unmarked, Phases
  <2>2. \E p \in Unmarked : least(p)
    BY <2>1, Least
  <2>3. PhaseAt(n) \in Unmarked /\ least(PhaseAt(n))
    BY <1>2, <2>2 DEF PhaseAt
  <2>4. \A m \in 1 .. PhaseAt(n) - 1 : m \in commits
    BY <2>3, SessionAssumption DEF Unmarked, Read, Phases
  <2> QED
    BY <2>3, <2>4 DEF Unmarked, Past, Landed
<1> QED
  BY <1>1, <1>2

\* `tero resume` of a stopped or pending run.
LEMMA ResumeInv ==
    ASSUME SessionInv, ResumeStopped \/ ResumePending
    PROVE  SessionInv'
<1> USE DEF crashVars, history
<1>0. LeftInPhase
  BY DEF ResumeStopped, BranchAhead, ResumePending, Resumable, LeftInPhase, Enter
<1>1. phaseIndex \in Phases /\ phaseIndex \notin commits \ Astray
  BY <1>0 DEF SessionInv, LeftOnUndone
<1>2. /\ TypeOK /\ TreesAgree /\ Behind(base) /\ Past(phaseIndex) /\ Counted
      /\ pc = "off" /\ Unset \notin SUBSET Phases
  BY DEF SessionInv, BranchBehind, PastOthers, ResumeStopped, ResumePending,
     Enter, Unset, Phases
<1>3. base \in Points /\ phaseIndex \in 0 .. N /\ 0 \in 0 .. N
  BY <1>1, <1>2, SessionAssumption DEF TypeOK, Phases
<1> DEFINE gated == [judge |-> TRUE, checkpoint |-> base, answer |-> 0]
           pended == [judge |-> FALSE, checkpoint |-> base, answer |-> 0]
<1>4. gated \in ArgsType /\ pended \in ArgsType
  BY <1>3 DEF ArgsType
<1>5. /\ Past(phaseIndex') /\ phaseIndex' = phaseIndex
      /\ phaseIndex' \in 1 .. N + 1
      /\ crashes' \in Nat /\ crashPhase' \in 1 .. N + 1
      /\ inRow' \in [phase : 1 .. N + 1, n : Nat] /\ Counted'
      /\ status' = "running" /\ reason' = "resume" /\ question' = question
      /\ UNCHANGED <<diskVars, snapVars, history>>
  <2>1. /\ phaseIndex' = phaseIndex /\ UNCHANGED <<crashVars, diskVars, lost, commits>>
        /\ status' = "running" /\ reason' = "resume" /\ question' = question
        /\ UNCHANGED <<diskVars, snapVars, history>>
    BY DEF ResumeStopped, ResumePending, Enter
  <2> QED
    BY <1>2, <2>1 DEF TypeOK, Counted, Past, Landed, diskVars
<1>6. CASE ResumeStopped
  <2>1. Enter(phaseIndex, gated, 0)
    BY <1>6 DEF ResumeStopped, BranchAhead
  <2>2. 0 <= phaseIndex /\ Behind(gated.checkpoint)
    BY <1>2, <1>3
  <2>3. base = commits /\ marks' = refMarks /\ plan' = base
    BY <1>6 DEF ResumeStopped, BranchAhead, Read
  <2>4. /\ marks' \subseteq Landed /\ commits \subseteq marks' \cup Astray
        /\ plan' \subseteq Landed /\ \A m \in commits : m \in plan' \cup Astray
        /\ phaseIndex \notin plan' \ Astray
    BY <1>1, <1>2, <2>3 DEF TreesAgree, Landed, TypeOK
  <2> HIDE DEF gated
  <2> QED
    BY <1>1, <1>2, <1>3, <1>4, <1>5, <2>1, <2>2, <2>4, EnterInv
<1>7. CASE ResumePending
  <2>1. Enter(phaseIndex, pended, phaseIndex)
    BY <1>7 DEF ResumePending
  <2>2. phaseIndex <= phaseIndex /\ Behind(pended.checkpoint)
    BY <1>2, <1>3
  <2>3. marks' = refMarks /\ plan' = refMarks /\ commits \subseteq refMarks \cup Astray
    BY <1>2, <1>7 DEF ResumePending, FromRef, Read, TreesAgree
  <2>4. /\ marks' \subseteq Landed /\ commits \subseteq marks' \cup Astray
        /\ plan' \subseteq Landed /\ \A m \in commits : m \in plan' \cup Astray
    BY <1>2, <2>3 DEF TreesAgree
  <2>5. phaseIndex \notin plan' \ Astray
    BY <1>1, <2>3, <2>4 DEF Landed, Astray
  <2> HIDE DEF pended
  <2> QED
    BY <1>1, <1>2, <1>3, <1>4, <1>5, <2>1, <2>2, <2>4, <2>5, EnterInv
<1> QED
  BY <1>6, <1>7

\* A restart that is refused is counted too.
LEMMA RefuseInv == ASSUME SessionInv, RefuseCrashLoop PROVE SessionInv'
<1> USE DEF RefuseCrashLoop, ownerVars, loopVars, branchVars, diskVars, snapVars,
            history
<1>0. /\ TypeOK /\ Counted /\ pc = "off" /\ TreesAgree
      /\ Landed' = Landed /\ Astray' = Astray
  BY DEF SessionInv, Dead, Landed, Astray
<1>1. /\ Count \in Nat /\ crashes' = Count + 1 /\ Count >= CrashLimit
      /\ Count = crashes /\ crashPhase = phaseIndex
  BY <1>0 DEF TypeOK, Count, CrashLoop, Bumped, CrashLimit
<1>2. TypeOK'
  <2>1. "crash_loop" \in Reasons
    BY DEF Reasons
  <2> QED
    BY <1>0, <1>1, <2>1 DEF TypeOK
<1>3. BranchBehind'
  BY <1>0 DEF SessionInv, BranchBehind, Behind, InPhase, Working
<1>4. PastOthers'
  BY <1>0 DEF SessionInv, PastOthers, Past
<1>5. AtWork' /\ LeftOnUndone'
  BY <1>0 DEF AtWork, InPhase, Working, LeftOnUndone, LeftInPhase, Resumable
<1>6. Counted'
  BY <1>0, <1>1 DEF TypeOK, Counted
<1>7. TreesAgree'
  BY <1>0 DEF TreesAgree
<1> QED
  BY <1>2, <1>3, <1>4, <1>5, <1>6, <1>7 DEF SessionInv

\* A question asked again belongs to the phase that died, which is undone.
LEMMA RestoreInv ==
    ASSUME SessionInv, Dead, NEW force \in BOOLEAN, CrashLoop => force,
           RestoreQuestion(force)
    PROVE  SessionInv'
<1> USE DEF RestoreQuestion, WaitAgain, WaitRunner, branchVars, diskVars, snapVars,
            history
<1>0. /\ TypeOK /\ TreesAgree /\ Behind(base)
      /\ Landed' = Landed /\ Astray' = Astray
      /\ phaseIndex \in Phases \ (marks \ Astray)
      /\ phaseIndex \notin commits \ Astray
  <2>1. phaseIndex \in Phases \ (marks \ Astray)
    BY DEF SessionInv, LeftOnUndone
  <2> QED
    BY <2>1 DEF SessionInv, BranchBehind, TreesAgree, Landed, Astray
<1>1. /\ crashes' \in Nat /\ crashPhase' \in 1 .. N + 1
      /\ inRow' \in [phase : 1 .. N + 1, n : Nat] /\ Counted'
  BY BumpCounted
<1>2. TypeOK'
  <2>1. /\ pc' \in PCs /\ index' \in 1 .. N + 1 /\ restored' = TRUE
        /\ judgeIndex' \in 0 .. N /\ phaseCfg' \in 0 .. N /\ baseCfg' \in 0 .. N
    BY <1>0, SessionAssumption DEF TypeOK, PCs
  <2>2. start' \in [judge : BOOLEAN, checkpoint : Points, answer : 0 .. N,
                    cfg : 0 .. N]
    BY <1>0, SessionAssumption DEF TypeOK
  <2>3. because' \in Reasons /\ reason' \in Reasons
    BY <1>0 DEF TypeOK, Reasons
  <2>4. firstArgs' \in ArgsType /\ pending' \in ArgsType
    BY NoArgsTyped
  <2>5. plan' \subseteq Phases
    BY <1>0 DEF TypeOK, Read
  <2> QED
    BY <1>0, <1>1, <2>1, <2>2, <2>3, <2>4, <2>5 DEF TypeOK
<1>3. BranchBehind'
  BY <1>0 DEF SessionInv, BranchBehind, Behind, InPhase, Working
<1>4. PastOthers'
  BY <1>0 DEF SessionInv, PastOthers, Past
<1>5. AtWork'
  BY <1>0, SessionAssumption DEF AtWork, AtThePhase, InPhase, Working, Dead, Phases
<1>6. LeftOnUndone'
  BY <1>0 DEF LeftOnUndone, LeftInPhase
<1>7. TreesAgree'
  <2>1. /\ marks' \subseteq Landed' /\ plan' \subseteq Landed'
        /\ \A n \in commits' : n \in plan' \cup Astray'
    BY <1>0 DEF TreesAgree, Read
  <2> QED
    BY <1>0, <2>1 DEF TreesAgree
<1> QED
  BY <1>1, <1>2, <1>3, <1>4, <1>5, <1>6, <1>7 DEF SessionInv

\* The commit of a phase that state.json does not know yet is in its past.
LEMMA CatchUpInv == ASSUME SessionInv, Dead, CatchUp PROVE SessionInv'
<1>0. /\ TypeOK /\ TreesAgree /\ pc = "off" /\ Past(phaseIndex)
      /\ phaseIndex \in commits /\ phaseIndex \in Phases
      /\ phaseIndex \in Landed
  BY DEF SessionInv, TypeOK, PastOthers, Dead, CatchUp, Shipped, Trailers, Landed
<1>3. UNCHANGED <<commits, lost, diskVars, snapVars, history>>
  BY DEF CatchUp, Enter
<1>l. Landed' = Landed /\ Astray' = Astray
  BY <1>3 DEF Landed, Astray, history
<1>1. /\ phaseIndex' = phaseIndex + 1 /\ phaseIndex' \in 1 .. N + 1
      /\ Past(phaseIndex')
  BY <1>0, SessionAssumption DEF CatchUp, Past, Phases
<1>2. /\ crashes' \in Nat /\ crashPhase' \in 1 .. N + 1
      /\ inRow' \in [phase : 1 .. N + 1, n : Nat] /\ Counted'
  BY <1>1 DEF CatchUp, Counted, CrashLimit
<1>4. CASE phaseIndex = N /\ Unmarked = {}
  <2>1. /\ UNCHANGED ownerVars /\ status' = "done" /\ reason' = "ship"
        /\ question' = "none" /\ marks' = commits
    BY <1>4 DEF CatchUp
  <2> USE DEF ownerVars, loopVars, diskVars, snapVars, history
  <2>2. TypeOK'
    BY <1>0, <1>1, <1>2, <1>3, <2>1 DEF TypeOK, Reasons
  <2>3. BranchBehind'
    BY <1>0, <1>3, <2>1 DEF SessionInv, BranchBehind, Behind, InPhase, Working
  <2>4. PastOthers'
    BY <1>1, <1>3, <1>l, <2>1 DEF SessionInv, PastOthers, Past
  <2>5. AtWork' /\ LeftOnUndone'
    BY <1>0, <2>1 DEF AtWork, InPhase, Working, LeftOnUndone, LeftInPhase
  <2>6. TreesAgree'
    BY <1>0, <1>3, <1>l, <2>1 DEF TreesAgree, Landed
  <2> QED
    BY <1>2, <2>2, <2>3, <2>4, <2>5, <2>6 DEF SessionInv
<1>5. CASE ~(phaseIndex = N /\ Unmarked = {})
  <2> DEFINE n == PhaseAt(phaseIndex + 1)
  <2>1. /\ Enter(n, NoArgs, 0) /\ status' = "running" /\ reason' = "resume"
        /\ question' \in {question, "none"} /\ FromHead
    BY <1>5 DEF CatchUp
  <2>2. Past(phaseIndex + 1)
    BY <1>0, SessionAssumption DEF Past, Phases
  <2>3. phaseIndex + 1 \in Phases \/ Unmarked # {}
    BY <1>0, <1>5, SessionAssumption DEF Phases
  <2>4. n \in Phases /\ Past(n)
    BY <1>0, <1>1, <2>2, <2>3, PhaseAtPast
  <2>5. /\ 0 <= n /\ 0 # n /\ 0 \in 0 .. N /\ ~NoArgs.judge
        /\ Behind(NoArgs.checkpoint)
    BY <2>4, SessionAssumption DEF NoArgs, Behind, Phases
  <2>6. /\ marks' \subseteq Landed /\ commits \subseteq marks' \cup Astray
        /\ plan' \subseteq Landed /\ \A m \in commits : m \in plan' \cup Astray
    BY <2>1, HeadTrees
  <2> HIDE DEF n
  <2> QED
    BY <1>1, <1>2, <1>3, <2>1, <2>4, <2>5, <2>6, NoArgsTyped, EnterInv
<1> QED
  BY <1>4, <1>5

\* The phase that died runs again from the head of the branch.
LEMMA RunAgainInv ==
    ASSUME SessionInv, Dead, NEW force \in BOOLEAN, CrashLoop => force,
           RunAgain(force)
    PROVE  SessionInv'
<1>0. TypeOK /\ Past(phaseIndex) /\ phaseIndex \in 1 .. N + 1
  BY DEF SessionInv, TypeOK, PastOthers
<1> DEFINE n == PhaseAt(phaseIndex)
           again == [judge |-> FALSE, checkpoint |-> commits,
                     answer |-> IF answerPhase = phaseIndex THEN answerPhase
                                                            ELSE 0]
<1>1. /\ Enter(n, again, 0) /\ status' = "running" /\ reason' = "resume"
      /\ question' \in {question, "none"} /\ phaseIndex' = phaseIndex
      /\ UNCHANGED <<commits, lost, diskVars, snapVars, history>> /\ FromHead
  BY DEF RunAgain, Enter
<1>l. Landed' = Landed
  BY <1>1 DEF Landed
<1>2. /\ crashes' \in Nat /\ crashPhase' \in 1 .. N + 1
      /\ inRow' \in [phase : 1 .. N + 1, n : Nat] /\ Counted'
  BY BumpCounted DEF RunAgain
<1>3. n \in Phases /\ Past(n)
  BY <1>0, PhaseAtPast DEF RunAgain
<1>4. again \in ArgsType
  BY <1>0, SessionAssumption DEF TypeOK, ArgsType, Points
<1>5. ~again.judge /\ Behind(again.checkpoint)
  BY DEF Behind
<1>6. 0 <= n /\ 0 # n /\ 0 \in 0 .. N
  BY <1>3, SessionAssumption DEF Phases
<1>7. phaseIndex' \in 1 .. N + 1 /\ Past(phaseIndex')
  BY <1>0, <1>1
<1>8. /\ marks' \subseteq Landed /\ commits \subseteq marks' \cup Astray
      /\ plan' \subseteq Landed /\ \A m \in commits : m \in plan' \cup Astray
  BY <1>1, HeadTrees
<1> HIDE DEF n, again
<1> QED
  BY <1>1, <1>2, <1>3, <1>4, <1>5, <1>6, <1>7, <1>8, EnterInv

----------------------------------------------------------------------------
\* Every step of a run keeps the invariant.
LEMMA NextInv == SessionInv /\ [Next]_vars => SessionInv'
<1> SUFFICES ASSUME SessionInv, [Next]_vars PROVE SessionInv'
  OBVIOUS
<1>1. CASE Finish \/ PassDone \/ BeginPhase
  BY <1>1, LoopInv
<1>2. CASE PhaseStep
  BY <1>2, PhaseStepInv
<1>3. CASE Answer
  BY <1>3, AnswerInv DEF Answer
<1>8. CASE CloseLanding \/ EndRun
  BY <1>8, CloseInv
<1>4. CASE Die
  BY <1>4, DieInv
<1>5. CASE ResumeDead
  <2>1. PICK force \in BOOLEAN :
           /\ CrashLoop => force
           /\ RestoreQuestion(force) \/ CatchUp \/ RunAgain(force)
    BY <1>5 DEF ResumeDead
  <2>2. Dead
    BY <1>5 DEF ResumeDead
  <2> QED
    BY <2>1, <2>2, RestoreInv, CatchUpInv, RunAgainInv
<1>6. CASE ResumeStopped \/ ResumePending \/ RefuseCrashLoop
  BY <1>6, ResumeInv, RefuseInv
<1>7. CASE UNCHANGED vars
  BY <1>7 DEF vars, ownerVars, loopVars, branchVars, crashVars, snapVars, diskVars,
     history, SessionInv, TypeOK, BranchBehind, Behind, TreesAgree, Landed,
     Astray, PastOthers, Past, AtWork, AtThePhase, JudgeFirst, InPhase,
     LeftOnUndone, LeftInPhase, Counted
<1> QED
  BY <1>1, <1>2, <1>3, <1>4, <1>5, <1>6, <1>7, <1>8 DEF Next, Resume, Over

\* The invariant holds in every state of every run.
THEOREM SessionCorrect == Spec => []SessionInv
<1>1. Init => SessionInv
  BY InitInv
<1>2. SessionInv /\ [Next]_vars => SessionInv'
  BY NextInv
<1> QED
  BY <1>1, <1>2, PTL DEF Spec

\* Every variable keeps its type.
THEOREM Typed == Spec => []TypeOK
<1>1. SessionInv => TypeOK
  BY DEF SessionInv
<1> QED
  BY <1>1, SessionCorrect, PTL

\* Whatever deaths and restarts lie between, a phase is worked on when each
\* earlier one was committed or put into debt.
THEOREM NoPhaseIsPassedOver == Spec => []PhasesInOrder
<1>1. SessionInv => PhasesInOrder
  BY DEF SessionInv, PastOthers, Past, PhasesInOrder, Landed
<1> QED
  BY <1>1, SessionCorrect, PTL

\* A phase whose commit is on the branch is not worked on again, unless the
\* owner died in `accept` between its commit and the closing of its question,
\* or the commit of the phase was lost before.
THEOREM NoPhaseIsDoneTwice == Spec => []CommittedOnce
<1>1. SessionInv => CommittedOnce
  BY DEF SessionInv, AtWork, Astray, CommittedOnce
<1> QED
  BY <1>1, SessionCorrect, PTL

\* A phase that dies at every start is restarted at most CrashLimit times.
THEOREM CrashLoopsEnd == Spec => []CrashLoopEnds
<1>1. SessionInv => CrashLoopEnds
  BY DEF SessionInv, Counted, CrashLoopEnds
<1> QED
  BY <1>1, SessionCorrect, PTL

----------------------------------------------------------------------------
(* Whose answer a start has.                                               *)

\* No owner died in `accept` and no commit was lost: up to then the trees
\* say what the branch says.
Clean == torn = {} /\ lost = {}

\* Every phase after this one was committed.
Beyond(a) == \A m \in Phases : m > a => m \in commits

\* The run went from the answered phase to where it is by commits only.
Since(a) ==
    /\ a <= phaseIndex /\ (pc # "off" => a <= index)
    /\ \A m \in Phases :
          a < m /\ (m < phaseIndex \/ (pc # "off" /\ m < index)) => m \in commits

\* The answer kept in state.json: a phase put into debt after it empties it.
KeptAnswer ==
    answerPhase # 0 =>
        /\ Beyond(answerPhase) \/ Since(answerPhase)
        /\ answerPhase = phaseIndex /\ answerPhase \in base => Beyond(answerPhase)

\* Texts are asked for by a judge, whose round has a snapshot.
AskedTexts ==
    /\ base = Unset \/ ~decisions => question # "user" /\ answerPhase = 0
    /\ pc = "asked" => question # "none"

\* The arguments of the next start are for the phase the loop is at, unless
\* every later one was committed.
OwnArgs(args) ==
    args.answer # 0 =>
        \/ args.answer = index /\ index \notin commits
        \/ args.answer <= index /\ Beyond(args.answer)

ArgInv ==
    /\ KeptAnswer
    /\ AskedTexts
    /\ pc = "top" => OwnArgs(firstArgs) /\ OwnArgs(pending)
    /\ InPhase => /\ start.answer \in {0, index}
                  /\ start.cfg \in {0, index, baseCfg}

LEMMA CleanFacts ==
    ASSUME SessionInv, Clean, InPhase
    PROVE  /\ index \in Phases /\ phaseIndex = index /\ index \notin commits
           /\ start.checkpoint \in SUBSET Phases
           /\ start.checkpoint \subseteq commits
           /\ firstArgs = NoArgs /\ pending = NoArgs /\ pc # "off"
<1>1. Astray = {}
  BY DEF Clean, Astray
<1> QED
  BY <1>1, PhaseFacts DEF AtThePhase

\* What went astray stays so, and a clean step takes no commit off the branch.
LEMMA CleanSteps ==
    ASSUME SessionInv, [Next]_vars, Clean'
    PROVE  Clean /\ commits \subseteq commits'
<1> USE DEF branchVars, history
<1>0. InPhase => start.checkpoint \subseteq commits
  BY DEF SessionInv, BranchBehind
<1>1. ASSUME RollBack PROVE lost \subseteq lost' /\ commits \ commits' \subseteq lost'
  BY <1>1 DEF RollBack
<1>2. ASSUME NEW r, Stop(r)
      PROVE  lost \subseteq lost' /\ torn' = torn /\ commits \ commits' \subseteq lost'
  BY <1>1, <1>2 DEF Stop
<1>3. CASE Finish \/ PassDone \/ BeginPhase \/ CloseLanding \/ EndRun
  BY <1>3 DEF Finish, PassDone, BeginPhase, CloseLanding, EndRun, Clean
<1>4. CASE PhaseStep
  <2>1. CASE Round \/ JudgeReturns \/ JudgePends \/ JudgeShips \/ Exception
    BY <2>1 DEF Round, JudgeReturns, JudgePends, JudgeShips, Exception, Commit, Clean
  <2>2. CASE RoundFails
    BY <1>1, <2>2 DEF RoundFails, Clean
  <2>3. CASE RoundHalts \/ JudgeHalts \/ UserStop
    BY <1>2, <2>3 DEF RoundHalts, JudgeHalts, UserStop, Ask, Clean
  <2> QED
    BY <1>4, <2>1, <2>2, <2>3 DEF PhaseStep
<1>5. CASE Answer
  <2>1. CASE AnswerText \/ AnswerMore \/ AnswerModel \/ AnswerJudge
    BY <2>1 DEF AnswerText, AnswerMore, AnswerModel, AnswerJudge, GoOn, SameTree, Clean
  <2>2. CASE AnswerAgain \/ AnswerSkip
    BY <1>1, <1>2, <2>2 DEF AnswerAgain, AnswerSkip, GoOn, Clean
  <2>3. CASE Land
    BY <2>3 DEF Land, Commit, Clean
  <2>4. CASE Stop(because)
    BY <1>2, <2>4 DEF Clean
  <2> QED
    BY <1>5, <2>1, <2>2, <2>3, <2>4 DEF Answer, AnswerShip, AnswerAccept
<1>6. CASE Die
  BY <1>1, <1>6 DEF Die, Clean
<1>7. CASE Resume
  BY <1>7 DEF Resume, ResumeStopped, ResumePending, RefuseCrashLoop, ResumeDead,
     RestoreQuestion, CatchUp, RunAgain, Enter, Clean
<1>8. CASE UNCHANGED vars
  BY <1>8 DEF vars, Clean
<1> QED
  BY <1>3, <1>4, <1>5, <1>6, <1>7, <1>8 DEF Next, Over

LEMMA InitArgs == Init => ArgInv
  BY DEF Init, ArgInv, KeptAnswer, AskedTexts, OwnArgs, NoArgs, InPhase, Working

\* A phase keeps the answer of state.json; the loop leaves it by a commit or
\* by a debt, which empties it.
LEMMA PhaseKeepsAnswer ==
    ASSUME SessionInv, Clean, ArgInv, InPhase,
           base' \in {base, start.checkpoint, commits},
           commits \subseteq commits',
           phaseIndex' = phaseIndex, decisions' = decisions,
           \/ answerPhase' = 0 /\ index' \in {index, index + 1}
           \/ answerPhase' = answerPhase /\ index' = index
           \/ /\ answerPhase' = answerPhase /\ index' = index + 1
              /\ index \in commits'
           \/ /\ answerPhase' = index /\ index' = index /\ base' = base
              /\ base # Unset /\ decisions,
           \/ question' = question /\ pc' # "asked"
           \/ question' = "none" /\ pc' # "asked"
           \/ question' \in Asked /\ decisions /\ base' # Unset
           \/ question' \in Asked \ {"user"} /\ decisions
    PROVE  KeptAnswer' /\ AskedTexts'
<1>0. /\ index \in Phases /\ phaseIndex = index /\ index \notin commits
      /\ start.checkpoint \subseteq commits /\ start.checkpoint \in SUBSET Phases
      /\ commits \in SUBSET Phases /\ Behind(base) /\ answerPhase \in 0 .. N
      /\ pc # "off"
  BY CleanFacts DEF SessionInv, TypeOK, BranchBehind
<1>1. index \notin base' /\ (base' = Unset => base = Unset)
  <2>1. 0 \notin Phases
    BY DEF Phases
  <2> QED
    BY <1>0, <2>1 DEF Behind, Unset
<1>2. AskedTexts'
  BY <1>1, AskedReasons DEF ArgInv, AskedTexts
<1>3. KeptAnswer'
  <2> SUFFICES ASSUME answerPhase' # 0 PROVE KeptAnswer'
    BY DEF KeptAnswer
  <2>1. answerPhase' = phaseIndex' => answerPhase' \notin base'
    BY <1>0, <1>1
  <2>2. CASE answerPhase' = answerPhase
    <3>1. Beyond(answerPhase) \/ Since(answerPhase)
      BY <2>2 DEF ArgInv, KeptAnswer
    <3>2. Beyond(answerPhase) => Beyond(answerPhase)'
      BY <2>2 DEF Beyond
    <3>3. CASE Since(answerPhase) /\ index' = index
      <4>1. Since(answerPhase)'
        BY <1>0, <2>2, <3>3 DEF Since
      <4> QED
        BY <2>1, <4>1 DEF KeptAnswer
    <3>4. CASE Since(answerPhase) /\ index' = index + 1 /\ index \in commits'
      <4>1. Since(answerPhase)'
        BY <1>0, <2>2, <3>4 DEF Since, Phases
      <4> QED
        BY <2>1, <4>1 DEF KeptAnswer
    <3> QED
      BY <2>1, <2>2, <3>1, <3>2, <3>3, <3>4 DEF KeptAnswer
  <2>3. CASE answerPhase' = index /\ index' = index
    <3>1. Since(answerPhase)'
      BY <1>0, <2>3 DEF Since, Phases
    <3> QED
      BY <2>1, <3>1 DEF KeptAnswer
  <2> QED
    BY <2>2, <2>3
<1> QED
  BY <1>2, <1>3

\* Every step of a phase.
LEMMA PhaseStepArgs ==
    ASSUME SessionInv, Clean, Clean', ArgInv, PhaseStep
    PROVE  ArgInv'
<1>c. [Next]_vars
  BY DEF Next
<1>d. commits \subseteq commits'
  BY <1>c, CleanSteps
<1>0. ASSUME NEW r \in Reasons, InPhase, Stop(r) PROVE ArgInv'
  <2> USE <1>0 DEF Stop, RollBack, Snapshot, NoSnapshot, snapVars, branchVars,
                   loopVars, diskVars, crashVars, history
  <2>1. KeptAnswer' /\ AskedTexts'
    BY <1>d, PhaseKeepsAnswer
  <2> QED
    BY <2>1 DEF ArgInv, InPhase, Working
<1>1. ASSUME NEW r \in Asked, pc \in Working, Ask(r),
             Snapshot \/ (NoSnapshot /\ r # "user")
      PROVE  ArgInv'
  <2>0. InPhase /\ start.checkpoint # Unset
    <3>1. InPhase
      BY <1>1 DEF InPhase
    <3>2. start.checkpoint \in SUBSET Phases /\ 0 \notin Phases
      BY <3>1, CleanFacts DEF Phases
    <3> QED
      BY <3>1, <3>2 DEF Unset
  <2> USE <1>1 DEF Ask, Snapshot, NoSnapshot, snapVars, loopVars, crashVars
  <2>1. KeptAnswer' /\ AskedTexts'
    BY <1>d, <2>0, PhaseKeepsAnswer
  <2> QED
    BY <2>0, <2>1 DEF ArgInv, InPhase
<1>2. CASE Round \/ JudgeReturns \/ JudgePends \/ RoundFails \/ Exception
  <2>0. InPhase /\ phaseIndex = index /\ pc' # "asked"
    BY <1>2, CleanFacts DEF Round, JudgeReturns, JudgePends, RoundFails, Exception,
       InPhase, Working
  <2>1. /\ UNCHANGED <<index, start, loopVars, diskVars>>
        /\ base' \in {base, start.checkpoint, commits}
        /\ phaseIndex' = index /\ question' \in {question, "none"}
        /\ pc' \in Working \cup {"off"}
    <3> USE DEF RollBack, Snapshot, NoSnapshot, snapVars, history
    <3>1. CASE Round \/ JudgePends
      BY <2>0, <3>1 DEF Round, JudgePends
    <3>2. CASE JudgeReturns
      BY <2>0, <3>2 DEF JudgeReturns, Working
    <3>3. CASE RoundFails
      BY <2>0, <3>3 DEF RoundFails
    <3>4. CASE Exception
      BY <2>0, <3>4 DEF Exception
    <3> QED
      BY <1>2, <3>1, <3>2, <3>3, <3>4
  <2>2. KeptAnswer' /\ AskedTexts'
    BY <1>d, <2>0, <2>1, PhaseKeepsAnswer DEF diskVars
  <2> QED
    BY <2>0, <2>1, <2>2 DEF ArgInv, InPhase, Working, loopVars
<1>3. CASE JudgeShips
  <2>0. InPhase /\ firstArgs = NoArgs /\ pending = NoArgs
    BY <1>3, CleanFacts DEF JudgeShips, InPhase, Working
  <2> USE <1>3 DEF JudgeShips, Commit, Snapshot, loopVars, diskVars
  <2>1. KeptAnswer' /\ AskedTexts'
    BY <1>d, <2>0, PhaseKeepsAnswer
  <2> QED
    BY <2>0, <2>1 DEF ArgInv, InPhase, Working, OwnArgs, NoArgs
<1>4. CASE RoundHalts
  <2>1. PICK r \in {"provider", "fuse"} : (Ask(r) /\ NoSnapshot) \/ Stop(r)
    BY <1>4 DEF RoundHalts
  <2>2. r \in Asked /\ r \in Reasons /\ r # "user"
    BY AskedReasons DEF Reasons
  <2>3. pc \in Working /\ InPhase
    BY <1>4 DEF RoundHalts, InPhase, Working
  <2> QED
    BY <1>0, <1>1, <2>1, <2>2, <2>3
<1>5. CASE JudgeHalts
  <2>1. PICK r \in Asked : (Ask(r) /\ Snapshot) \/ Stop(r)
    BY <1>5 DEF JudgeHalts
  <2>2. r \in Reasons
    BY DEF Reasons
  <2>3. pc \in Working /\ InPhase
    BY <1>5 DEF JudgeHalts, InPhase, Working
  <2> QED
    BY <1>0, <1>1, <2>1, <2>2, <2>3
<1>6. CASE UserStop
  <2>1. InPhase /\ "user_stop" \in Reasons
    BY <1>6 DEF UserStop, InPhase, Reasons
  <2> QED
    BY <1>0, <1>6, <2>1 DEF UserStop
<1> QED
  BY <1>2, <1>3, <1>4, <1>5, <1>6 DEF PhaseStep

\* The loop: a start uses the arguments up.
LEMMA LoopArgs ==
    ASSUME SessionInv, Clean, ArgInv, Finish \/ PassDone \/ BeginPhase
    PROVE  ArgInv'
<1>0. /\ TypeOK /\ pc = "top" /\ TreesAgree /\ Landed = commits /\ Astray = {}
      /\ OwnArgs(firstArgs) /\ OwnArgs(pending)
      /\ index \in 1 .. N + 1 /\ phaseIndex \in 1 .. N + 1
      /\ answerPhase \in 0 .. N
      /\ firstArgs.answer \in 0 .. N /\ pending.answer \in 0 .. N
  BY DEF SessionInv, TypeOK, Finish, PassDone, BeginPhase, ArgInv, ArgsType, Clean,
     Landed, Astray
<1>1. CASE Finish
  BY <1>0, <1>1 DEF Finish, ArgInv, KeptAnswer, AskedTexts, Beyond, Since,
     InPhase, Working, loopVars, branchVars, diskVars, snapVars, history
<1>2. CASE PassDone
  <2>0. /\ index \in commits /\ index' = index + 1 /\ pc' = "top"
        /\ UNCHANGED <<firstArgs, pending, commits, phaseIndex, base,
                       question, answerPhase, decisions>>
    BY <1>0, <1>2 DEF PassDone, TreesAgree, loopVars, branchVars, diskVars,
       snapVars, history
  <2>1. ASSUME NEW args \in {firstArgs, pending}
        PROVE  /\ args.answer \in 0 .. N
               /\ args.answer # 0 =>
                     args.answer <= index' /\ Beyond(args.answer)
    BY <1>0, <2>0, <2>1 DEF OwnArgs
  <2>2. OwnArgs(firstArgs)' /\ OwnArgs(pending)'
    BY <2>0, <2>1 DEF OwnArgs, Beyond
  <2>3. KeptAnswer'
    BY <1>0, <2>0 DEF ArgInv, KeptAnswer, Beyond, Since, Phases
  <2>4. AskedTexts'
    BY <2>0 DEF ArgInv, AskedTexts
  <2> QED
    BY <2>0, <2>2, <2>3, <2>4 DEF ArgInv, InPhase, Working
<1>3. CASE BeginPhase
  <2>0. /\ index \in Phases /\ index \notin commits
        /\ start' = StartArgs /\ pc' \in Working
        /\ phaseIndex' \in {index, phaseIndex}
        /\ UNCHANGED <<index, commits, base, question, answerPhase, decisions,
                       baseCfg>>
    BY <1>0, <1>3 DEF BeginPhase, Undone, Working, TreesAgree, branchVars, diskVars,
       snapVars, history
  <2>1. phaseIndex' = index
    <3>1. SessionInv'
      BY <1>3, LoopInv
    <3>2. Astray' = {}
      BY <1>0, <1>3 DEF BeginPhase, Astray, branchVars, history
    <3> QED
      BY <2>0, <3>1, <3>2 DEF SessionInv, AtWork, AtThePhase, InPhase
  <2>2. start'.answer \in {0, index}
    <3>1. start'.answer \in {firstArgs.answer, pending.answer}
      BY <2>0 DEF StartArgs
    <3>2. ASSUME NEW args \in {firstArgs, pending}
          PROVE  args.answer \in {0, index}
      BY <1>0, <2>0, <3>2 DEF OwnArgs, Beyond, Phases
    <3> QED
      BY <3>1, <3>2
  <2>3. start'.cfg \in {0, index, baseCfg}
    BY <2>0 DEF StartArgs
  <2>4. KeptAnswer'
    <3>1. index \notin base
      BY <2>0 DEF SessionInv, BranchBehind, Behind, Unset, Phases
    <3> QED
      BY <1>0, <2>0, <2>1, <3>1 DEF ArgInv, KeptAnswer, Beyond, Since, Phases,
         Working
  <2>5. AskedTexts'
    BY <2>0 DEF ArgInv, AskedTexts, Working
  <2> QED
    BY <2>0, <2>2, <2>3, <2>4, <2>5 DEF ArgInv, Working
<1> QED
  BY <1>1, <1>2, <1>3

\* An answer is for the phase that asked.
LEMMA AnswerArgs ==
    ASSUME SessionInv, Clean, Clean', ArgInv, Answer
    PROVE  ArgInv'
<1>c. [Next]_vars
  BY DEF Next
<1>d. commits \subseteq commits'
  BY <1>c, CleanSteps
<1>0. /\ pc = "asked" /\ InPhase /\ because \in Reasons
      /\ phaseIndex = index /\ index \in Phases /\ index \notin commits
      /\ start.checkpoint \subseteq commits
      /\ firstArgs = NoArgs /\ pending = NoArgs
      /\ question \in Asked
  BY AskedFacts, CleanFacts DEF Answer, TypeOK, ArgInv, AskedTexts
<1>1. ASSUME Stop(because) PROVE ArgInv'
  <2>1. KeptAnswer' /\ AskedTexts'
    BY <1>0, <1>1, <1>d, PhaseKeepsAnswer DEF Stop, RollBack, Snapshot, NoSnapshot,
       snapVars, loopVars, diskVars, crashVars, history
  <2> QED
    BY <1>1, <2>1 DEF Stop, ArgInv, InPhase, Working
<1>2. ASSUME NEW judge \in BOOLEAN, NEW point \in Points, GoOn(judge, point),
             SameTree \/ RollBack,
             \/ answerPhase' = answerPhase
             \/ answerPhase' = index /\ SameTree /\ question = "user"
      PROVE  ArgInv'
  <2>1. /\ pc' = "top" /\ question' = "none"
        /\ UNCHANGED <<index, phaseIndex, decisions>>
        /\ base' \in {base, start.checkpoint} /\ commits' \subseteq commits
    BY <1>0, <1>2 DEF GoOn, Closed, SameTree, RollBack, Snapshot, snapVars,
       branchVars, history
  <2>2. question = "user" => base # Unset /\ decisions
    BY DEF ArgInv, AskedTexts
  <2>3. KeptAnswer' /\ AskedTexts'
    BY <1>0, <1>2, <1>d, <2>1, <2>2, PhaseKeepsAnswer DEF SameTree, snapVars
  <2>4. OwnArgs(firstArgs)' /\ OwnArgs(pending)'
    <3> DEFINE args == [judge |-> judge, checkpoint |-> point, answer |-> index]
               again == [judge |-> judge, checkpoint |-> base, answer |-> index]
    <3>1. {firstArgs', pending'} \subseteq {args, again, NoArgs}
      BY <1>0, <1>2 DEF GoOn
    <3>2. \A a \in {args, again, NoArgs} : a.answer \in {0, index}
      BY DEF NoArgs
    <3> HIDE DEF args, again
    <3>3. firstArgs'.answer \in {0, index} /\ pending'.answer \in {0, index}
      BY <3>1, <3>2
    <3> QED
      BY <1>0, <2>1, <3>3 DEF OwnArgs
  <2> QED
    BY <2>1, <2>3, <2>4 DEF ArgInv, InPhase, Working
<1>3. Unset \in Points /\ start.checkpoint \in Points
  BY AskedFacts, <1>0 DEF TypeOK, Points
<1>4. ASSUME NEW a \in Actions[question], a = "answer", AnswerText
      PROVE  ArgInv'
  <2>1. question = "user"
    BY <1>0, <1>4, AskedReasons DEF Actions
  <2> QED
    BY <1>2, <1>3, <1>4, <2>1 DEF AnswerText
<1>5. CASE AnswerMore \/ AnswerModel
  BY <1>2, <1>3, <1>5 DEF AnswerMore, AnswerModel
<1>6. CASE AnswerJudge
  BY <1>2, <1>3, <1>6 DEF AnswerJudge
<1>7. CASE AnswerAgain
  BY <1>1, <1>2, <1>3, <1>7 DEF AnswerAgain
<1>8. CASE AnswerSkip /\ ~Stop(because)
  <2> USE <1>8 DEF AnswerSkip, Closed, RollBack, Snapshot, loopVars, crashVars,
                   history
  <2>1. KeptAnswer' /\ AskedTexts'
    BY <1>0, <1>d, PhaseKeepsAnswer
  <2> QED
    BY <1>0, <2>1 DEF ArgInv, InPhase, Working, OwnArgs, NoArgs
<1>9. CASE Land
  <2> USE <1>9 DEF Land, Commit, loopVars, diskVars, snapVars
  <2>1. KeptAnswer' /\ AskedTexts'
    BY <1>0, <1>d, PhaseKeepsAnswer
  <2> QED
    BY <1>0, <2>1 DEF ArgInv, InPhase, Working, OwnArgs, NoArgs
<1> QED
  BY <1>1, <1>4, <1>5, <1>6, <1>7, <1>8, <1>9 DEF Answer, AnswerShip, AnswerAccept

\* The end of a commit carries the loop past its phase, with no arguments.
LEMMA CloseArgs ==
    ASSUME SessionInv, Clean, ArgInv, CloseLanding \/ EndRun
    PROVE  ArgInv'
<1>0. /\ UNCHANGED <<commits, firstArgs, pending, phaseIndex, base, answerPhase,
                     decisions>>
      /\ question' \in {question, "none"} /\ pc # "off"
      /\ pc' \in {"top", "ending", "off"}
  BY DEF CloseLanding, EndRun, Closed, loopVars, branchVars, diskVars, snapVars
<1>1. \/ pc' # "top" /\ index' = index
      \/ /\ index' = index + 1 /\ index \in commits /\ index \in Nat
         /\ firstArgs = NoArgs /\ pending = NoArgs
  BY DEF CloseLanding, EndRun, SessionInv, AtWork, TypeOK
<1>2. KeptAnswer'
  <2>1. answerPhase \in Nat /\ index \in Nat /\ Phases \subseteq Nat
    BY DEF SessionInv, TypeOK, Phases
  <2>2. /\ answerPhase' = answerPhase /\ (Beyond(answerPhase)' <=> Beyond(answerPhase))
        /\ phaseIndex' = phaseIndex /\ base' = base
    BY <1>0 DEF Beyond
  <2>3. Since(answerPhase) => Since(answerPhase)'
    <3> SUFFICES ASSUME Since(answerPhase) PROVE Since(answerPhase)'
      OBVIOUS
    <3>1. answerPhase <= index'
      BY <1>0, <1>1, <2>1 DEF Since
    <3>2. \A m \in Phases :
             answerPhase < m /\ (m < phaseIndex \/ m < index') => m \in commits
      BY <1>0, <1>1, <2>1 DEF Since
    <3> QED
      BY <1>0, <2>2, <3>1, <3>2 DEF Since
  <2> QED
    BY <2>2, <2>3 DEF ArgInv, KeptAnswer
<1>3. AskedTexts'
  BY <1>0 DEF ArgInv, AskedTexts
<1>4. pc' = "top" => OwnArgs(firstArgs)' /\ OwnArgs(pending)'
  BY <1>0, <1>1 DEF OwnArgs, NoArgs
<1> QED
  BY <1>0, <1>2, <1>3, <1>4 DEF ArgInv, InPhase, Working

\* A death, and a restart that is refused, change no argument.
LEMMA DieArgs ==
    ASSUME SessionInv, Clean, Clean', ArgInv, Die \/ RefuseCrashLoop
    PROVE  ArgInv'
<1>1. CASE UNCHANGED <<commits, base>>
  <2>1. /\ pc' = "off"
        /\ UNCHANGED <<index, commits, phaseIndex, base, question, answerPhase,
                       decisions>>
    BY <1>1 DEF Die, RefuseCrashLoop, Dead, ownerVars, diskVars
  <2> QED
    BY <2>1 DEF ArgInv, KeptAnswer, AskedTexts, Beyond, Since, InPhase, Working
<1>2. CASE Die /\ InPhase /\ RollBack
  <2>1. [Next]_vars
    BY <1>2 DEF Next
  <2>2. commits \subseteq commits'
    BY <2>1, CleanSteps
  <2>3. /\ pc' = "off" /\ base' = start.checkpoint
        /\ UNCHANGED <<index, phaseIndex, question, answerPhase, decisions>>
    BY <1>2 DEF Die, RollBack, Snapshot, diskVars
  <2>4. KeptAnswer' /\ AskedTexts'
    BY <1>2, <2>2, <2>3, PhaseKeepsAnswer
  <2> QED
    BY <2>3, <2>4 DEF ArgInv, InPhase, Working
<1> QED
  BY <1>1, <1>2 DEF Die, RefuseCrashLoop, branchVars, snapVars

\* A process that enters has the answer of the phase it enters at, or none.
LEMMA EnterArgs ==
    ASSUME SessionInv, ArgInv, NEW n \in Phases, NEW args \in ArgsType,
           NEW judge \in 0 .. N, Enter(n, args, judge),
           args.answer # 0 => /\ args.answer = n
                              /\ n \notin commits \/ Beyond(n),
           KeptAnswer', question' \in {question, "none"},
           UNCHANGED <<commits, base, answerPhase, decisions>>
    PROVE  ArgInv'
<1>1. /\ pc' = "top" /\ index' = n /\ firstArgs' = args /\ pending' = NoArgs
      /\ n \in Nat
  BY DEF Enter, Phases
<1>2. OwnArgs(firstArgs)' /\ OwnArgs(pending)'
  BY <1>1 DEF OwnArgs, NoArgs, Beyond
<1>3. AskedTexts'
  BY <1>1 DEF ArgInv, AskedTexts
<1> QED
  BY <1>1, <1>2, <1>3 DEF ArgInv, InPhase, Working

\* What the entry of a process makes of the answer that state.json keeps.
LEMMA EnterKept ==
    ASSUME SessionInv, ArgInv, NEW n \in Phases, pc' = "top", index' = n,
           phaseIndex' = phaseIndex \/ (phaseIndex' = phaseIndex + 1
                                        /\ phaseIndex \in commits),
           n = phaseIndex' \/ phaseIndex' = N + 1,
           phaseIndex' \in 1 .. N + 1,
           UNCHANGED <<commits, base, answerPhase>>
    PROVE  KeptAnswer'
<1> SUFFICES ASSUME answerPhase # 0 PROVE KeptAnswer'
  BY DEF KeptAnswer
<1>0. /\ answerPhase \in Phases /\ phaseIndex \in 1 .. N + 1 /\ N \in Nat
      /\ Beyond(answerPhase) \/ Since(answerPhase)
      /\ answerPhase = phaseIndex /\ answerPhase \in base => Beyond(answerPhase)
  BY SessionAssumption DEF SessionInv, TypeOK, Phases, ArgInv, KeptAnswer
<1>1. Beyond(answerPhase)' <=> Beyond(answerPhase)
  BY DEF Beyond
<1>2. CASE Beyond(answerPhase)
  BY <1>1, <1>2 DEF KeptAnswer
<1>3. CASE Since(answerPhase) /\ ~Beyond(answerPhase)
  <2>1. /\ answerPhase <= phaseIndex
        /\ \A m \in Phases : answerPhase < m /\ m < phaseIndex => m \in commits
    BY <1>3 DEF Since
  <2>2. \A m \in Phases : answerPhase < m /\ m < phaseIndex' => m \in commits
    BY <1>0, <2>1 DEF Phases
  <2>3. phaseIndex' # N + 1
    BY <1>0, <1>3, <2>2 DEF Beyond, Phases
  <2>4. Since(answerPhase)'
    BY <1>0, <2>1, <2>2, <2>3 DEF Since, Phases
  <2>5. answerPhase = phaseIndex' => phaseIndex' = phaseIndex
    BY <1>0, <2>1, <2>2 DEF Phases
  <2> QED
    BY <1>0, <1>1, <2>4, <2>5 DEF KeptAnswer
<1> QED
  BY <1>0, <1>2, <1>3

\* `tero resume`.
LEMMA ResumeArgs ==
    ASSUME SessionInv, ArgInv, ResumeStopped \/ ResumePending
    PROVE  ArgInv'
<1>0. LeftInPhase
  BY DEF ResumeStopped, BranchAhead, ResumePending, Resumable, LeftInPhase, Enter
<1>1. /\ phaseIndex \in Phases /\ phaseIndex \in 0 .. N /\ 0 \in 0 .. N
      /\ base \in Points /\ phaseIndex \in 1 .. N + 1
  BY <1>0, SessionAssumption DEF SessionInv, LeftOnUndone, TypeOK, Phases
<1> DEFINE gated == [judge |-> TRUE, checkpoint |-> base, answer |-> 0]
           pended == [judge |-> FALSE, checkpoint |-> base, answer |-> 0]
<1>2. /\ gated \in ArgsType /\ pended \in ArgsType
      /\ gated.answer = 0 /\ pended.answer = 0
  BY <1>1 DEF ArgsType
<1>3. /\ UNCHANGED <<commits, base, answerPhase, decisions, phaseIndex, question>>
      /\ Enter(phaseIndex, gated, 0) \/ Enter(phaseIndex, pended, phaseIndex)
  BY DEF ResumeStopped, ResumePending, Enter, diskVars, snapVars
<1> HIDE DEF gated, pended
<1>4. pc' = "top" /\ index' = phaseIndex
  BY <1>3 DEF Enter
<1>5. KeptAnswer'
  BY <1>1, <1>3, <1>4, EnterKept
<1> QED
  BY <1>1, <1>2, <1>3, <1>5, EnterArgs

LEMMA ResumeDeadArgs ==
    ASSUME SessionInv, Clean, ArgInv, ResumeDead
    PROVE  ArgInv'
<1>0. PICK force \in BOOLEAN : RestoreQuestion(force) \/ CatchUp \/ RunAgain(force)
  BY DEF ResumeDead
<1>1. /\ pc = "off" /\ TypeOK /\ N \in Nat
      /\ phaseIndex \in 1 .. N + 1
  BY SessionAssumption DEF ResumeDead, Dead, SessionInv, TypeOK
<1>2. CASE RestoreQuestion(force)
  <2>1. /\ pc' = "asked" /\ index' = phaseIndex
        /\ start'.answer = 0 /\ start'.cfg = 0 /\ question # "none"
        /\ UNCHANGED <<commits, base, answerPhase, decisions, phaseIndex, question>>
    BY <1>2 DEF RestoreQuestion, WaitAgain, WaitRunner, branchVars, diskVars, snapVars
  <2>2. KeptAnswer'
    BY <1>1, <2>1 DEF ArgInv, KeptAnswer, Beyond, Since, Phases
  <2>3. AskedTexts'
    BY <2>1 DEF ArgInv, AskedTexts
  <2> QED
    BY <2>1, <2>2, <2>3 DEF ArgInv
<1>3. CASE CatchUp
  <2>0. /\ phaseIndex \in commits /\ phaseIndex \in Phases
        /\ phaseIndex' = phaseIndex + 1 /\ question' = "none"
        /\ phaseIndex' \in 1 .. N + 1
        /\ UNCHANGED <<commits, base, answerPhase, decisions>>
    BY <1>1, <1>3 DEF CatchUp, Shipped, Trailers, TypeOK, Enter, diskVars, snapVars,
       Phases
  <2>1. CASE phaseIndex = N /\ Unmarked = {}
    <3>1. pc' = "off" /\ index' = index
      BY <1>1, <1>3, <2>1 DEF CatchUp, ownerVars
    <3>2. KeptAnswer'
      <4>1. \A m \in Phases : m \in commits
        BY <1>1, <2>1 DEF Unmarked, Read
      <4> QED
        BY <2>0, <4>1 DEF KeptAnswer, Beyond
    <3> QED
      BY <2>0, <3>1, <3>2 DEF ArgInv, AskedTexts, InPhase, Working
  <2>2. CASE ~(phaseIndex = N /\ Unmarked = {})
    <3> DEFINE n == PhaseAt(phaseIndex + 1)
    <3>1. Enter(n, NoArgs, 0)
      BY <1>3, <2>2 DEF CatchUp
    <3>2. n \in Phases
      <4>1. Past(phaseIndex + 1)
        BY <1>1, <2>0 DEF SessionInv, PastOthers, Past, Landed, Phases
      <4>2. phaseIndex + 1 \in Phases \/ Unmarked # {}
        BY <1>1, <2>0, <2>2 DEF Phases
      <4> QED
        BY <2>0, <4>1, <4>2, PhaseAtPast
    <3>3. n = phaseIndex' \/ phaseIndex' = N + 1
      BY <1>1, <2>0 DEF PhaseAt, Phases
    <3> HIDE DEF n
    <3>4. pc' = "top" /\ index' = n
      BY <3>1 DEF Enter
    <3>5. KeptAnswer'
      BY <2>0, <3>2, <3>3, <3>4, EnterKept
    <3>6. 0 \in 0 .. N /\ NoArgs.answer = 0
      BY <1>1 DEF NoArgs
    <3> QED
      BY <2>0, <3>1, <3>2, <3>5, <3>6, NoArgsTyped, EnterArgs
  <2> QED
    BY <2>1, <2>2
<1>4. CASE RunAgain(force)
  <2> DEFINE n == PhaseAt(phaseIndex)
             a == IF answerPhase = phaseIndex THEN answerPhase ELSE 0
             args == [judge |-> FALSE, checkpoint |-> commits, answer |-> a]
  <2>0. /\ question' = "none" /\ Enter(n, args, 0) /\ ~Shipped
        /\ UNCHANGED <<commits, base, answerPhase, decisions, phaseIndex>>
    BY <1>4 DEF RunAgain, Enter, diskVars, snapVars
  <2>1. n \in Phases
    BY <1>1, <1>4, PhaseAtPast DEF RunAgain, SessionInv, PastOthers
  <2>2. n = phaseIndex \/ phaseIndex = N + 1
    BY <1>1 DEF PhaseAt, Phases
  <2>3. a # 0 => a = n /\ (n \notin commits \/ Beyond(n))
    <3>1. SUFFICES ASSUME answerPhase = phaseIndex, answerPhase # 0
                   PROVE  /\ answerPhase = n
                          /\ n \notin commits \/ Beyond(n)
      OBVIOUS
    <3>2. answerPhase = n
      BY <1>1, <2>2, <3>1 DEF TypeOK
    <3>3. base # Unset /\ decisions
      BY <3>1 DEF ArgInv, AskedTexts
    <3>4. n \notin commits \/ n \in base
      <4>1. ~Shipped
        BY <2>0
      <4> HIDE DEF n
      <4> QED
        BY <3>1, <3>2, <3>3, <4>1 DEF Shipped, Trailers
    <3>5. answerPhase \in base => Beyond(answerPhase)
      BY <3>1 DEF ArgInv, KeptAnswer
    <3> HIDE DEF n
    <3> QED
      BY <3>2, <3>4, <3>5
  <2>4. args \in ArgsType /\ args.answer = a /\ 0 \in 0 .. N
    BY <1>1 DEF TypeOK, ArgsType, Points
  <2> HIDE DEF n, a, args
  <2>5. pc' = "top" /\ index' = n
    BY <2>0 DEF Enter
  <2>6. KeptAnswer'
    BY <1>1, <2>0, <2>1, <2>2, <2>5, EnterKept
  <2> QED
    BY <2>0, <2>1, <2>3, <2>4, <2>6, EnterArgs
<1> QED
  BY <1>0, <1>2, <1>3, <1>4

LEMMA NextArgs ==
    SessionInv /\ (Clean => ArgInv) /\ [Next]_vars => (Clean => ArgInv)'
<1> SUFFICES ASSUME SessionInv, Clean => ArgInv, [Next]_vars, Clean' PROVE ArgInv'
  OBVIOUS
<1>0. Clean /\ ArgInv
  BY CleanSteps
<1>1. CASE Finish \/ PassDone \/ BeginPhase
  BY <1>0, <1>1, LoopArgs
<1>2. CASE PhaseStep \/ Answer
  BY <1>0, <1>2, PhaseStepArgs, AnswerArgs
<1>3. CASE Die \/ RefuseCrashLoop
  BY <1>0, <1>3, DieArgs
<1>4. CASE ResumeStopped \/ ResumePending \/ ResumeDead
  BY <1>0, <1>4, ResumeArgs, ResumeDeadArgs
<1>5. CASE CloseLanding \/ EndRun
  BY <1>0, <1>5, CloseArgs
<1>6. CASE UNCHANGED vars
  BY <1>0, <1>6 DEF vars, ownerVars, loopVars, branchVars, diskVars, snapVars,
     history, ArgInv, KeptAnswer, AskedTexts, Beyond, Since, OwnArgs, InPhase
<1> QED
  BY <1>1, <1>2, <1>3, <1>4, <1>5, <1>6 DEF Next, Resume, Over

\* While no commit is lost and no owner died in `accept` behind its commit, the
\* answer and the role a person gives for one phase reach no other one,
\* whatever questions, deaths and restarts there are.
THEOREM AnswersStayWithTheirPhase == Spec => []ArgsAreOwn
<1>1. (Clean => ArgInv) => ArgsAreOwn
  BY DEF ArgsAreOwn, CommitsStay, Clean, ArgInv
<1>2. Init => (Clean => ArgInv)
  BY InitArgs
<1>3. SessionInv /\ (Clean => ArgInv) /\ [Next]_vars => (Clean => ArgInv)'
  BY NextArgs
<1> QED
  BY <1>1, <1>2, <1>3, SessionCorrect, PTL DEF Spec

=============================================================================
