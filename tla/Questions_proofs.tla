--------------------------- MODULE Questions_proofs ---------------------------
(***************************************************************************)
(* Proofs about Questions, for any number of phases, questions, answers,   *)
(* deaths and agents on duty, any offers and any budget: one answer to a   *)
(* question is carried out, an answer that was accepted is, the budget of  *)
(* a phase holds, and a wait pays for its pauses.                          *)
(***************************************************************************)
EXTENDS Questions, FiniteSetTheorems, TLAPS

\* The open question is the last one of the phase that is run, and what the
\* owner is about to carry out is an answer to it.
Asking == {"wait", "take", "look", "auto", "autoTake", "apply"}
AskInv ==
    /\ question # NoQuestion => question.id = <<phase, seq[phase]>>
    /\ pc \in Asking => question # NoQuestion
    /\ pc \in {"phase", "pause", "ended"} => question = NoQuestion
    /\ pc = "asked" /\ question = NoQuestion =>
          limitWait.phase = phase /\ limitWait.waits < LimitWaits
    /\ pc = "autoTake" => /\ hand.uuid = AutopilotUuid(question.id)
                          /\ hand # NoAnswer /\ hand.who = Autopilot
    /\ pc = "apply" => /\ hand # NoAnswer /\ QuestionOf(hand.uuid) = question.id
                       /\ hand.who # Autopilot =>
                             hand.uuid \in applied /\ told[hand.uuid] # "refused"

\* Answers have numbers of their own, the autopilot's is 0; a row and a file
\* are never the same answer, and only the author of a file is told.
MailInv ==
    /\ \A a \in files \cup rows \cup cache : a.uuid[3] <= sent[QuestionOf(a.uuid)]
    /\ \A a \in rows \cup cache : a.uuid[3] >= 1
    /\ \A a \in files, b \in rows \cup cache : a.uuid # b.uuid
    /\ \A u \in Uuids : told[u] # "none" => u \in UuidsOf(files)

\* What was carried out answered a question that is closed, each its own.
DoneInv ==
    /\ \A e \in executed : /\ e.uuid[2] <= seq[e.uuid[1]]
                           /\ question # NoQuestion => QuestionOf(e.uuid) # question.id
                           /\ e.who # Autopilot =>
                                 e.uuid \in applied /\ told[e.uuid] # "refused"
    /\ \A e, f \in executed : QuestionOf(e.uuid) = QuestionOf(f.uuid) => e.uuid = f.uuid

\* What was accepted is carried out, or is about to be.
AcceptInv ==
    \A u \in Uuids : told[u] = "accepted" =>
        \/ crashes > 0 \/ chainStop
        \/ pc = "apply" /\ hand.uuid = u
        \/ \E e \in executed : e.uuid = u

\* What the journal says agents and the autopilot spent was taken from the
\* budget.
Spent(n) == {j \in journal : /\ j.uuid[1] = n /\ j.who # Human
                             /\ j.action \in Budgeted}
BudgetInv ==
    /\ IsFiniteSet(journal)
    /\ \A n \in Numbers : Cardinality(Spent(n)) <= budget[n]

\* A chain of pauses is paid for by the wait that began it.
Waits(n) == {e \in executed : e.uuid[1] = n /\ e.action = "wait"}
Unused(n) == IF limitWait.phase = n THEN LimitWaits - limitWait.waits ELSE 0
PauseInv ==
    /\ IsFiniteSet(executed)
    /\ \A n \in Numbers :
          pauses[n] + Unused(n) <= LimitWaits * Cardinality(Waits(n))

QInv == TypeOK /\ AskInv /\ MailInv /\ DoneInv /\ AcceptInv /\ BudgetInv /\ PauseInv

USE CountsAssumption

----------------------------------------------------------------------------
(* Types.                                                                  *)

Whos == {Human, Agent, Autopilot}
Entries == [uuid : Uuids, who : Whos, action : Actions]

LEMMA AnswerHasItsQuestion ==
    /\ \A a \in AnswerType : /\ a.uuid \in Uuids /\ a.who \in Whos
                             /\ a.action \in Actions
                             /\ a # NoAnswer /\ QuestionOf(a.uuid) \in QuestionIds
                             /\ [uuid |-> a.uuid, who |-> a.who,
                                 action |-> a.action] \in Entries
    /\ \A u \in Uuids : QuestionOf(u) \in QuestionIds /\ u[3] \in 0 .. Answers
    /\ \A id \in QuestionIds : /\ id[1] \in Numbers /\ id[2] \in 1 .. Seqs
                               /\ AutopilotUuid(id) \in Uuids
                               /\ QuestionOf(AutopilotUuid(id)) = id
                               /\ AutopilotUuid(id)[3] = 0
<1>1. \A u \in Uuids : /\ QuestionOf(u) \in QuestionIds /\ u[3] \in 0 .. Answers
                       /\ u # <<0, 0, 0>>
  BY DEF Uuids, QuestionOf, QuestionIds, Numbers
<1>2. \A id \in QuestionIds : /\ id[1] \in Numbers /\ id[2] \in 1 .. Seqs
                              /\ AutopilotUuid(id) \in Uuids
                              /\ QuestionOf(AutopilotUuid(id)) = id
                              /\ AutopilotUuid(id)[3] = 0
  BY DEF Uuids, QuestionOf, AutopilotUuid, QuestionIds
<1>3. \A a \in AnswerType : /\ a.uuid \in Uuids /\ a.who \in Whos
                            /\ a.action \in Actions
  BY DEF AnswerType, Whos
<1>4. NoAnswer.uuid = <<0, 0, 0>>
  BY DEF NoAnswer
<1> QED BY <1>1, <1>2, <1>3, <1>4 DEF Entries

\* What a journal entry does to the journal.
LEMMA RecordTypes ==
    ASSUME TypeOK, NEW a \in AnswerType, Record(a), ~Refused(a)
    PROVE  /\ applied' \subseteq Uuids /\ journal' \subseteq Entries
           /\ budget' \in [Numbers -> 0 .. Budget]
<1>1. /\ phase \in Numbers /\ budget \in [Numbers -> 0 .. Budget]
      /\ applied \subseteq Uuids /\ journal \subseteq Entries
  BY DEF TypeOK, Entries, Whos
<1>2. SpendsBudget(a.who, a.action) => budget[phase] < Budget
  <2>1. budget[phase] \in 0 .. Budget
    BY <1>1
  <2> QED BY <2>1 DEF Refused
<1>3. budget' \in [Numbers -> 0 .. Budget]
  BY <1>1, <1>2 DEF Record
<1> QED BY <1>1, <1>3, AnswerHasItsQuestion DEF Record

\* What the authors of answers are told.
ToldMoves(u) ==
    \/ told'[u] = told[u]
    \/ /\ told[u] = "none" /\ told'[u] = "refused" /\ u \in UuidsOf(files)
       /\ QuestionOf(u) = question.id \/ u \notin applied
    \/ told'[u] = "accepted" /\ u \in UuidsOf(files)

LEMMA TellRefusedMoves ==
    ASSUME TypeOK, NEW T \in SUBSET files,
           \A a \in T : QuestionOf(a.uuid) = question.id \/ a.uuid \notin applied
    PROVE  LET now == TellRefused(told, T)
           IN  /\ now \in [Uuids -> Verdicts]
               /\ \A u \in Uuids :
                     \/ now[u] = told[u]
                     \/ /\ told[u] = "none" /\ now[u] = "refused"
                        /\ u \in UuidsOf(T)
                        /\ u \in UuidsOf(files)
                        /\ QuestionOf(u) = question.id \/ u \notin applied
BY DEF TypeOK, TellRefused, UuidsOf, Verdicts

LEMMA TakeNoneMoves ==
    ASSUME TypeOK, TakeNone
    PROVE  /\ rows' \subseteq rows /\ cache' \subseteq cache
           /\ told' \in [Uuids -> Verdicts]
           /\ \A u \in Uuids : ToldMoves(u) /\ (told'[u] = "accepted" => told[u] = "accepted")
           /\ UNCHANGED journalVars
<1>1. CASE TakeRefusedRelay
  BY <1>1 DEF TakeRefusedRelay, ToldMoves, TypeOK
<1>2. CASE TakeNothing
  <2>1. Unread \in SUBSET files /\ \A a \in Unread : a.uuid \notin applied
    BY DEF Unread
  <2>2. told' = TellRefused(told, Unread) /\ UNCHANGED <<rows, cache, journalVars>>
    BY <1>2 DEF TakeNothing
  <2> QED BY <2>1, <2>2, TellRefusedMoves DEF ToldMoves
<1> QED BY <1>1, <1>2 DEF TakeNone

LEMMA TakeOneMoves ==
    ASSUME TypeOK, MailInv, NEW a \in cache \cup files, TakeOne(a)
    PROVE  /\ a \in AnswerType /\ QuestionOf(a.uuid) = question.id
           /\ ~Refused(a) /\ Record(a) /\ told'[a.uuid] # "refused"
           /\ rows' \subseteq rows /\ cache' \subseteq cache
           /\ told' \in [Uuids -> Verdicts]
           /\ \A u \in Uuids : /\ ToldMoves(u)
                               /\ told'[u] = "accepted" =>
                                     told[u] = "accepted" \/ u = a.uuid
<1>0. a \in AnswerType /\ a.uuid \in Uuids
  BY AnswerHasItsQuestion DEF TypeOK
<1>1. Ours(files) \in SUBSET files /\ \A b \in Ours(files) : QuestionOf(b.uuid) = question.id
  BY DEF Ours
<1>2. CASE TakeRelay(a)
  <2>1. /\ a \in cache /\ QuestionOf(a.uuid) = question.id /\ ~Refused(a) /\ Record(a)
        /\ rows' \subseteq rows /\ cache' \subseteq cache
        /\ told' = TellRefused(told, Ours(files))
    BY <1>2 DEF TakeRelay, Shown, Ours
  <2>2. a.uuid \notin UuidsOf(files)
    BY <2>1 DEF MailInv, UuidsOf
  <2>3. told[a.uuid] = "none"
    BY <1>0, <2>2 DEF MailInv
  <2> QED BY <1>0, <1>1, <2>1, <2>2, <2>3, TellRefusedMoves DEF ToldMoves
<1>3. CASE TakeFile(a)
  <2>1. PICK seen \in SUBSET (Unread \ Candidates) :
           told' = [TellRefused(told, seen \cup Ours(files)) EXCEPT ![a.uuid] = "accepted"]
    BY <1>3 DEF TakeFile
  <2>2. /\ a \in files /\ QuestionOf(a.uuid) = question.id /\ ~Refused(a) /\ Record(a)
        /\ UNCHANGED <<rows, cache>>
    BY <1>3 DEF TakeFile, Candidates, Ours, Unread
  <2> DEFINE T == seen \cup Ours(files)
             now == TellRefused(told, T)
  <2>3. T \in SUBSET files /\ \A b \in T : QuestionOf(b.uuid) = question.id \/ b.uuid \notin applied
    BY <1>1 DEF Unread
  <2> HIDE DEF T
  <2>4. /\ now \in [Uuids -> Verdicts]
        /\ \A u \in Uuids :
              \/ now[u] = told[u]
              \/ /\ told[u] = "none" /\ now[u] = "refused"
                 /\ u \in UuidsOf(files)
                 /\ QuestionOf(u) = question.id \/ u \notin applied
    BY <2>3, TellRefusedMoves
  <2>5. told' = [now EXCEPT ![a.uuid] = "accepted"]
    BY <2>1 DEF T
  <2> HIDE DEF now
  <2>6. /\ told' \in [Uuids -> Verdicts] /\ told'[a.uuid] = "accepted"
        /\ \A u \in Uuids \ {a.uuid} : told'[u] = now[u]
    BY <1>0, <2>4, <2>5 DEF Verdicts
  <2>7. a.uuid \in UuidsOf(files)
    BY <2>2 DEF UuidsOf
  <2> QED BY <1>0, <2>2, <2>4, <2>6, <2>7 DEF ToldMoves
<1> QED BY <1>2, <1>3 DEF TakeOne

\* The types of a question and of an answer.
LEMMA OfferTypes ==
    ASSUME NEW o \in Offers, NEW u \in Uuids
    PROVE  [uuid |-> u, who |-> o.who, action |-> o.action,
            woken |-> o.woken, fit |-> o.fit] \in AnswerType
BY OffersAssumption DEF OfferType, AnswerType

LEMMA ActionsAreKnown ==
    /\ \A reason \in AskedReasons : AllActions(reason) \subseteq Actions
    /\ \A reason \in AskedReasons : OfferedActions(reason) \subseteq Actions
<1>1. ASSUME NEW reason \in AskedReasons PROVE AllActions(reason) \subseteq Actions
  BY DEF AllActions, Actions, AskedReasons, ProviderReasons
<1>2. ASSUME NEW reason \in AskedReasons PROVE OfferedActions(reason) \subseteq Actions
  <2>1. {"retry", "skip", "stop"} \subseteq Actions
    BY DEF Actions
  <2> QED BY <1>1, <2>1 DEF OfferedActions
<1> QED BY <1>1, <1>2

LEMMA PhaseTypes ==
    ASSUME TypeOK, AskInv,
           PhaseShips \/ PhaseStops \/ (\E r \in Reasons : PhaseHalts(r)) \/ EndPause
    PROVE  TypeOK'
<1> USE DEF PCs, Statuses, ownerVars, relayVars, journalVars, saved, askVars,
            envVars, history
<1>1. CASE PhaseShips
  <2>1. CASE phase = Phases
    BY <1>1, <2>1 DEF PhaseShips, NextPhase, TypeOK
  <2>2. CASE phase # Phases
    <3>1. phase + 1 \in Numbers
      BY <2>2 DEF TypeOK, Numbers
    <3> QED BY <1>1, <2>2, <3>1 DEF PhaseShips, NextPhase, TypeOK
  <2> QED BY <2>1, <2>2
<1>2. CASE PhaseStops \/ EndPause
  BY <1>2 DEF PhaseStops, EndPause, EndRun, TypeOK
<1>3. ASSUME NEW r \in Reasons, PhaseHalts(r) PROVE TypeOK'
  <2>1. r \in AskedReasons
    BY ReasonsAssumption
  <2>2. CASE AutoWaits(r)
    BY <1>3, <2>1, <2>2 DEF PhaseHalts, TypeOK
  <2>3. CASE ~AutoWaits(r)
    <3>1. phase \in Numbers /\ seq \in [Numbers -> 0 .. Seqs] /\ seq[phase] < Seqs
      BY <1>3, <2>3 DEF PhaseHalts, TypeOK
    <3>2. seq' = [seq EXCEPT ![phase] = @ + 1]
      BY <1>3, <2>3 DEF PhaseHalts
    <3>3. seq' \in [Numbers -> 0 .. Seqs] /\ seq'[phase] \in 1 .. Seqs
      BY <3>1, <3>2
    <3>4. question' = [id |-> <<phase, seq'[phase]>>, reason |-> r,
                       actions |-> OfferedActions(r)]
      BY <1>3, <2>3 DEF PhaseHalts
    <3>5. question' \in QuestionType
      BY <2>1, <3>1, <3>3, <3>4, ActionsAreKnown DEF QuestionType, QuestionIds
    <3>6. NoLimitWait \in [phase : 0 .. Phases, waits : 0 .. LimitWaits]
      BY DEF NoLimitWait
    <3> QED BY <1>3, <2>1, <2>3, <3>1, <3>3, <3>5, <3>6 DEF PhaseHalts, TypeOK, Timers
  <2> QED BY <2>2, <2>3
<1> QED BY <1>1, <1>2, <1>3

\* An agent comes on duty, or does not.
LEMMA DutyTypes ==
    ASSUME TypeOK,
           \/ UNCHANGED <<leased, duties>>
           \/ leased' = FALSE /\ UNCHANGED duties
           \/ duties < Duties /\ leased' = TRUE /\ duties' = duties + 1
    PROVE  leased' \in BOOLEAN /\ duties' \in 0 .. Duties
<1>1. leased \in BOOLEAN /\ duties \in 0 .. Duties
  BY DEF TypeOK
<1>2. duties' \in 0 .. Duties
  BY <1>1
<1>3. leased' = leased \/ leased' = FALSE \/ leased' = TRUE
  OBVIOUS
<1> QED BY <1>1, <1>2, <1>3

LEMMA WaitTypes ==
    ASSUME TypeOK, AskInv, MailInv, WaitStep
    PROVE  TypeOK'
<1> USE DEF PCs, Statuses, ownerVars, relayVars, journalVars, saved, askVars,
            envVars, history
<1>1. CASE Resolve
  <2>1. CASE limitWait' = limitWait /\ pauses' = pauses
    BY <1>1, <2>1 DEF Resolve, EndRun, Pause, TypeOK
  <2>2. CASE question = NoQuestion /\ Pause(limitWait.waits + 1) /\ UNCHANGED cache
    <3>1. /\ phase \in Numbers /\ limitWait.waits < LimitWaits
          /\ limitWait.waits \in 0 .. LimitWaits
      BY <1>1, <2>2 DEF Resolve, AskInv, TypeOK
    <3>2. limitWait' \in [phase : 0 .. Phases, waits : 0 .. LimitWaits]
      BY <2>2, <3>1 DEF Pause, Numbers
    <3>3. pauses' \in [Numbers -> Nat]
      BY <2>2, <3>1 DEF Pause, TypeOK
    <3> QED BY <1>1, <2>2, <3>2, <3>3 DEF Resolve, Pause, TypeOK
  <2> QED BY <1>1, <2>1, <2>2 DEF Resolve
<1>2. CASE WaitTop
  BY <1>2 DEF WaitTop, StopAsAnswer, EndRun, TypeOK
<1>3. CASE Take
  <2>1. CASE TakeNone /\ pc' = "look" /\ UNCHANGED hand
    BY <1>3, <2>1, TakeNoneMoves DEF Take, TypeOK
  <2>2. ASSUME NEW a \in cache \cup files, TakeOne(a), hand' = a, pc' = "apply"
        PROVE  TypeOK'
    <3>1. /\ a \in AnswerType /\ rows' \subseteq rows /\ cache' \subseteq cache
          /\ told' \in [Uuids -> Verdicts]
          /\ applied' \subseteq Uuids /\ journal' \subseteq Entries
          /\ budget' \in [Numbers -> 0 .. Budget]
      BY <2>2, TakeOneMoves, RecordTypes
    <3> QED BY <1>3, <2>2, <3>1 DEF Take, TypeOK, Entries, Whos
  <2> QED BY <1>3, <2>1, <2>2 DEF Take
<1>4. CASE Look
  <2>1. status' \in Statuses /\ savedReason' \in AskedReasons \cup {"none", "resume"}
    BY <1>4 DEF Look, TypeOK
  <2>2. leased' \in BOOLEAN /\ duties' \in 0 .. Duties
    <3>1. \/ UNCHANGED <<leased, duties>>
          \/ duties < Duties /\ leased' = TRUE /\ duties' = duties + 1
      BY <1>4 DEF Look
    <3> QED BY <3>1, DutyTypes
  <2>3. pc' \in PCs /\ warned' \in BOOLEAN /\ over' \subseteq Timers
    BY <1>4 DEF Look, TypeOK
  <2> QED BY <1>4, <2>1, <2>2, <2>3 DEF Look, TypeOK
<1>5. CASE Choose
  <2>1. /\ question.id \in QuestionIds
        /\ Choice \in Actions
    BY <1>5 DEF Choose, Choice, Actions, AskInv, Asking, TypeOK, QuestionType
  <2>2. hand' \in AnswerType
    <3>1. AutopilotUuid(question.id) \in Uuids
      BY <2>1, AnswerHasItsQuestion
    <3> QED BY <1>5, <2>1, <3>1 DEF Choose, AnswerType
  <2>3. files' \subseteq AnswerType
    BY <1>5, <2>2 DEF Choose, TypeOK
  <2> QED BY <1>5, <2>2, <2>3 DEF Choose, TypeOK
<1>6. CASE AutoTake
  <2>0. hand \in AnswerType /\ hand # NoAnswer
    BY <1>6 DEF AutoTake, AskInv, TypeOK
  <2>1. PICK a \in cache \cup files \cup {NoAnswer} :
           /\ IF a = NoAnswer THEN TakeNone ELSE TakeOne(a)
           /\ IF hand.action = "stop"
                 THEN /\ pc' = "ended" /\ status' = "stopped"
                      /\ question' = NoQuestion
                      /\ chainStop' = TRUE
                      /\ Execute(hand)
                      /\ UNCHANGED hand
                 ELSE /\ hand' = Final(a)
                      /\ pc' = "apply"
                      /\ UNCHANGED <<status, question, chainStop, executed>>
    BY <1>6 DEF AutoTake
  <2>2. /\ rows' \subseteq rows /\ cache' \subseteq cache
        /\ told' \in [Uuids -> Verdicts]
        /\ applied' \subseteq Uuids /\ journal' \subseteq Entries
        /\ budget' \in [Numbers -> 0 .. Budget]
        /\ Final(a) \in AnswerType
    <3>1. CASE a = NoAnswer
      BY <2>0, <2>1, <3>1, TakeNoneMoves DEF TypeOK, Final, Entries, Whos
    <3>2. CASE a # NoAnswer
      BY <2>1, <3>2, TakeOneMoves, RecordTypes DEF Final
    <3> QED BY <3>1, <3>2
  <2>3. executed' \subseteq Entries
    BY <2>0, <2>1, AnswerHasItsQuestion DEF Execute, TypeOK, Entries, Whos
  <2>4. /\ pc' \in PCs /\ status' \in Statuses /\ chainStop' \in BOOLEAN
        /\ question' \in QuestionType \cup {NoQuestion}
        /\ hand' \in AnswerType \cup {NoAnswer}
    BY <2>1, <2>2 DEF TypeOK
  <2> QED BY <1>6, <2>2, <2>3, <2>4 DEF AutoTake, TypeOK, Entries, Whos
<1> QED BY <1>1, <1>2, <1>3, <1>4, <1>5, <1>6 DEF WaitStep

LEMMA ApplyTypes ==
    ASSUME TypeOK, AskInv, Apply
    PROVE  TypeOK'
<1> USE DEF PCs, Statuses, ownerVars, relayVars, journalVars, saved, askVars,
            envVars, history
<1>1. hand \in AnswerType /\ phase \in Numbers
  BY DEF Apply, AskInv, TypeOK
<1>2. executed' \subseteq Entries
  BY <1>1, AnswerHasItsQuestion DEF Apply, Execute, TypeOK, Entries, Whos
<1>3. /\ pc' \in PCs /\ status' \in Statuses /\ phase' \in Numbers
      /\ question' \in QuestionType \cup {NoQuestion} /\ cache' \subseteq AnswerType
  <2>1. phase # Phases => phase + 1 \in Numbers
    BY <1>1 DEF Numbers
  <2> QED BY <1>1, <2>1 DEF Apply, EndRun, NextPhase, Commits, Pause, GoOn, TypeOK
<1>4. /\ limitWait' \in [phase : 0 .. Phases, waits : 0 .. LimitWaits]
      /\ pauses' \in [Numbers -> Nat]
  <2>1. CASE UNCHANGED <<limitWait, pauses>>
    BY <2>1 DEF TypeOK
  <2>2. CASE Pause(1)
    <3>1. limitWait' = [phase |-> phase, waits |-> 1]
          /\ pauses' = [pauses EXCEPT ![phase] = @ + 1]
      BY <2>2 DEF Pause
    <3>2. phase \in 0 .. Phases /\ 1 \in 0 .. LimitWaits
      BY <1>1 DEF Numbers
    <3>3. pauses' \in [Numbers -> Nat]
      BY <3>1 DEF TypeOK
    <3> QED BY <3>1, <3>2, <3>3
  <2> QED BY <2>1, <2>2 DEF Apply
<1>5. hand' = NoAnswer /\ because' = "none"
      /\ UNCHANGED <<warned, over, restored, rows, told, saved, journalVars,
                     files, envVars, chainStop, crashes>>
  BY DEF Apply
<1> QED BY <1>2, <1>3, <1>4, <1>5 DEF TypeOK, Entries, Whos

LEMMA OtherTypes ==
    ASSUME TypeOK, AskInv, Crash \/ Restart \/ Environment
    PROVE  TypeOK'
<1> USE DEF PCs, Statuses, ownerVars, relayVars, journalVars, saved, askVars,
            envVars, history
<1>1. CASE Crash
  <2>1. crashes' \in 0 .. Crashes
    BY <1>1 DEF Crash, TypeOK
  <2> QED BY <1>1, <2>1 DEF Crash, TypeOK
<1>2. CASE RestoreWait
  BY <1>2 DEF RestoreWait, TypeOK
<1>3. CASE RunAgain
  BY <1>3 DEF RunAgain, TypeOK
<1>4. ASSUME NEW o \in Offers, NEW id \in QuestionIds, Send(o, id)
      PROVE  TypeOK'
  <2>1. sent[id] \in 0 .. Answers /\ sent[id] < Answers
    BY <1>4 DEF Send, TypeOK
  <2>2. sent' \in [QuestionIds -> 0 .. Answers] /\ sent'[id] \in 0 .. Answers
    BY <1>4, <2>1 DEF Send, TypeOK
  <2> DEFINE u == <<id[1], id[2], sent'[id]>>
             a == [uuid |-> u, who |-> o.who, action |-> o.action,
                   woken |-> o.woken, fit |-> o.fit]
  <2>3. u \in Uuids
    BY <2>2 DEF Uuids, QuestionIds
  <2> HIDE DEF u
  <2>4. a \in AnswerType
    BY <2>3, OfferTypes
  <2>5. IF o.relay THEN rows' = rows \cup {a} /\ UNCHANGED files
                   ELSE files' = files \cup {a} /\ UNCHANGED rows
    BY <1>4 DEF Send, u
  <2> HIDE DEF a
  <2>6. rows' \subseteq AnswerType /\ files' \subseteq AnswerType
    BY <2>4, <2>5 DEF TypeOK
  <2> QED BY <1>4, <2>2, <2>6 DEF Send, TypeOK
<1>5. CASE Poll
  BY <1>5 DEF Poll, Ours, TypeOK
<1>6. ASSUME NEW t \in Timers, Elapse(t) PROVE TypeOK'
  BY <1>6 DEF Elapse, TypeOK
<1>7. CASE LeaseTaken \/ LeaseEnds \/ RaiseStop
  <2>1. leased' \in BOOLEAN /\ duties' \in 0 .. Duties /\ stopFlag' \in BOOLEAN
    <3>1. \/ UNCHANGED <<leased, duties>>
          \/ leased' = FALSE /\ UNCHANGED duties
          \/ duties < Duties /\ leased' = TRUE /\ duties' = duties + 1
      BY <1>7 DEF LeaseTaken, LeaseEnds, RaiseStop
    <3>2. stopFlag' \in BOOLEAN
      BY <1>7 DEF LeaseTaken, LeaseEnds, RaiseStop, TypeOK
    <3> QED BY <3>1, <3>2, DutyTypes
  <2> QED BY <1>7, <2>1 DEF LeaseTaken, LeaseEnds, RaiseStop, TypeOK
<1> QED BY <1>1, <1>2, <1>3, <1>4, <1>5, <1>6, <1>7 DEF Restart, Environment

\* Every step keeps the types.
LEMMA NextTypes ==
    ASSUME TypeOK, AskInv, MailInv, Next
    PROVE  TypeOK'
<1>1. CASE Ended
  BY <1>1 DEF Ended, vars, ownerVars, relayVars, journalVars, saved, askVars,
              envVars, history, TypeOK
<1> QED BY <1>1, PhaseTypes, WaitTypes, ApplyTypes, OtherTypes
        DEF Next, OwnerStep, PhaseStep

----------------------------------------------------------------------------
(* The open question.                                                      *)

LEMMA ClosedAsk ==
    ASSUME question' = NoQuestion, pc' \in {"phase", "pause", "ended"}
    PROVE  AskInv'
BY DEF AskInv, Asking

LEMMA KeptAsk ==
    ASSUME AskInv, UNCHANGED <<pc, phase, question, seq, limitWait, hand, told,
                               applied>>
    PROVE  AskInv'
BY DEF AskInv

\* The owner goes on to another step of the same question.
LEMMA SameAsk ==
    ASSUME AskInv, pc \in Asking, UNCHANGED <<phase, question, seq>>,
           pc' \in {"wait", "take", "look", "auto"}
    PROVE  AskInv'
BY DEF AskInv, Asking

LEMMA HaltAsk ==
    ASSUME TypeOK, AskInv, NEW r \in Reasons, PhaseHalts(r)
    PROVE  AskInv'
<1>1. question = NoQuestion /\ pc' = "asked" /\ UNCHANGED phase
  BY DEF PhaseHalts, AskInv
<1>2. CASE AutoWaits(r)
  <2>1. UNCHANGED <<question, seq, limitWait>>
    BY <1>2 DEF PhaseHalts, askVars, saved
  <2> QED BY <1>1, <1>2, <2>1 DEF AutoWaits, AskInv, Asking
<1>3. CASE ~AutoWaits(r)
  <2>1. question' = [id |-> <<phase, seq'[phase]>>, reason |-> r,
                     actions |-> OfferedActions(r)]
    BY <1>3 DEF PhaseHalts
  <2>2. question'.id = <<phase, seq'[phase]>> /\ phase # 0
    BY <2>1 DEF TypeOK, Numbers
  <2>3. NoQuestion.id = <<0, 0>>
    BY DEF NoQuestion
  <2> QED BY <1>1, <2>2, <2>3 DEF AskInv, Asking
<1> QED BY <1>2, <1>3

\* The owner has taken an answer.
LEMMA TakenAsk ==
    ASSUME TypeOK, AskInv, MailInv, NEW a \in cache \cup files, TakeOne(a),
           pc \in Asking, hand' = a, pc' = "apply", UNCHANGED <<phase, question, seq>>
    PROVE  AskInv'
<1>1. /\ a \in AnswerType /\ QuestionOf(a.uuid) = question.id
      /\ a.uuid \in applied' /\ told'[a.uuid] # "refused"
  BY TakeOneMoves DEF Record
<1>2. a # NoAnswer
  BY <1>1, AnswerHasItsQuestion
<1> QED BY <1>1, <1>2 DEF AskInv, Asking

LEMMA NextAsk ==
    ASSUME TypeOK, AskInv, MailInv, Next
    PROVE  AskInv'
<1> USE DEF saved, askVars
<1>1. CASE PhaseShips \/ PhaseStops
  <2>1. question' = NoQuestion /\ pc' \in {"phase", "pause", "ended"}
    BY <1>1 DEF PhaseShips, PhaseStops, NextPhase, EndRun
  <2> QED BY <2>1, ClosedAsk
<1>2. ASSUME NEW r \in Reasons, PhaseHalts(r) PROVE AskInv'
  BY <1>2, HaltAsk
<1>3. CASE Resolve
  <2>1. CASE question' = NoQuestion /\ pc' \in {"phase", "pause", "ended"}
    BY <2>1, ClosedAsk
  <2>2. CASE question # NoQuestion /\ pc' = "wait" /\ UNCHANGED question
    BY <1>3, <2>2 DEF Resolve, AskInv, Asking
  <2> QED BY <1>3, <2>1, <2>2 DEF Resolve, EndRun, Pause
<1>4. CASE WaitTop
  <2>1. CASE question' = NoQuestion /\ pc' \in {"phase", "pause", "ended"}
    BY <2>1, ClosedAsk
  <2>2. CASE pc' = "take" /\ UNCHANGED question
    BY <1>4, <2>2, SameAsk DEF WaitTop, Asking
  <2> QED BY <1>4, <2>1, <2>2 DEF WaitTop, StopAsAnswer, EndRun
<1>5. CASE Take
  <2>1. pc = "take" /\ UNCHANGED <<phase, question, seq>>
    BY <1>5 DEF Take
  <2>2. CASE pc' = "look"
    BY <2>1, <2>2, SameAsk DEF Asking
  <2>3. ASSUME NEW a \in cache \cup files, TakeOne(a), hand' = a, pc' = "apply"
        PROVE  AskInv'
    BY <2>1, <2>3, TakenAsk DEF Asking
  <2> QED BY <1>5, <2>2, <2>3 DEF Take
<1>6. CASE Look
  <2>1. pc = "look" /\ UNCHANGED <<phase, question, seq>> /\ pc' \in {"auto", "wait"}
    BY <1>6 DEF Look
  <2> QED BY <2>1, SameAsk DEF Asking
<1>7. CASE Choose
  <2>1. /\ pc = "auto" /\ pc' = "autoTake" /\ UNCHANGED <<phase, question, seq>>
        /\ hand'.uuid = AutopilotUuid(question.id) /\ hand'.who = Autopilot
    BY <1>7 DEF Choose
  <2>2. question # NoQuestion /\ question.id \in QuestionIds
    BY <2>1 DEF AskInv, Asking, TypeOK, QuestionType
  <2>3. hand' # NoAnswer
    BY <2>1 DEF NoAnswer, Autopilot
  <2> QED BY <2>1, <2>2, <2>3 DEF AskInv, Asking
<1>8. CASE AutoTake
  <2>0. /\ pc = "autoTake" /\ UNCHANGED <<phase, seq>>
        /\ question.id \in QuestionIds
    BY <1>8 DEF AutoTake, AskInv, Asking, TypeOK, QuestionType
  <2>1. PICK a \in cache \cup files \cup {NoAnswer} :
           /\ IF a = NoAnswer THEN TakeNone ELSE TakeOne(a)
           /\ \/ question' = NoQuestion /\ pc' = "ended"
              \/ /\ hand' = Final(a) /\ pc' = "apply"
                 /\ UNCHANGED question
    BY <1>8 DEF AutoTake
  <2>2. CASE question' = NoQuestion /\ pc' = "ended"
    BY <2>2, ClosedAsk
  <2>3. CASE a # NoAnswer /\ hand' = Final(a) /\ pc' = "apply" /\ UNCHANGED question
    BY <2>0, <2>1, <2>3, TakenAsk DEF Final, Asking
  <2>4. CASE a = NoAnswer /\ hand' = Final(a) /\ pc' = "apply" /\ UNCHANGED question
    <3>1. /\ hand' # NoAnswer /\ hand'.who = Autopilot
          /\ hand'.uuid = AutopilotUuid(question.id)
      BY <2>0, <2>4 DEF Final, AskInv
    <3>2. QuestionOf(hand'.uuid) = question.id
      BY <2>0, <3>1, AnswerHasItsQuestion
    <3> QED BY <2>0, <2>4, <3>1, <3>2 DEF AskInv, Asking
  <2> QED BY <2>1, <2>2, <2>3, <2>4
<1>9. CASE Apply
  <2>1. question' = NoQuestion /\ pc' \in {"phase", "pause", "ended"}
    BY <1>9 DEF Apply, EndRun, NextPhase, Commits, Pause, GoOn
  <2> QED BY <2>1, ClosedAsk
<1>10. CASE EndPause
  <2>1. question' = NoQuestion /\ pc' = "phase"
    BY <1>10 DEF EndPause, AskInv
  <2> QED BY <2>1, ClosedAsk
<1>11. CASE Crash \/ RestoreWait
  <2>1. /\ UNCHANGED <<phase, question, seq>>
        /\ pc' = "dead" \/ (pc' = "asked" /\ question # NoQuestion)
    BY <1>11 DEF Crash, RestoreWait
  <2> QED BY <2>1 DEF AskInv, Asking
<1>12. CASE RunAgain
  BY <1>12, ClosedAsk DEF RunAgain
<1>13. CASE Environment \/ Ended
  <2>1. UNCHANGED <<pc, phase, question, seq, limitWait, hand, told, applied>>
    BY <1>13 DEF Environment, Send, Poll, Elapse, LeaseTaken, LeaseEnds, RaiseStop,
                 Ended, vars, ownerVars, relayVars, journalVars
  <2> QED BY <2>1, KeptAsk
<1> QED BY <1>1, <1>2, <1>3, <1>4, <1>5, <1>6, <1>7, <1>8, <1>9, <1>10, <1>11,
           <1>12, <1>13
        DEF Next, OwnerStep, PhaseStep, WaitStep, Restart

----------------------------------------------------------------------------
(* The answers that are on their way.                                      *)

\* What a step takes away, reads or tells.
LEMMA FewerMail ==
    ASSUME MailInv, UNCHANGED <<files, sent>>, rows' \subseteq rows,
           cache' \subseteq rows \cup cache,
           \A u \in Uuids : told'[u] # "none" => told[u] # "none" \/ u \in UuidsOf(files)
    PROVE  MailInv'
BY DEF MailInv, UuidsOf

\* An answer that is sent has a number nobody had.
LEMMA SentMail ==
    ASSUME TypeOK, MailInv, NEW o \in Offers, NEW id \in QuestionIds, Send(o, id)
    PROVE  MailInv'
<1> DEFINE u == <<id[1], id[2], sent'[id]>>
           a == [uuid |-> u, who |-> o.who, action |-> o.action,
                 woken |-> o.woken, fit |-> o.fit]
<1>1. /\ sent[id] \in Nat /\ sent' = [sent EXCEPT ![id] = @ + 1]
      /\ sent \in [QuestionIds -> 0 .. Answers]
      /\ UNCHANGED <<cache, told>>
  BY DEF Send, TypeOK
<1>2. IF o.relay THEN rows' = rows \cup {a} /\ UNCHANGED files
                 ELSE files' = files \cup {a} /\ UNCHANGED rows
  BY DEF Send
<1>3. a.uuid = u /\ u[3] = sent[id] + 1 /\ QuestionOf(u) = id
  BY <1>1 DEF QuestionOf, QuestionIds
<1>4. ASSUME NEW b \in files \cup rows \cup cache
      PROVE  QuestionOf(b.uuid) \in QuestionIds /\ b.uuid[3] \in Nat
  <2>1. b \in AnswerType
    BY DEF TypeOK
  <2>2. b.uuid \in Uuids
    BY <2>1, AnswerHasItsQuestion
  <2>3. b.uuid[3] \in 0 .. Answers /\ QuestionOf(b.uuid) \in QuestionIds
    BY <2>2, AnswerHasItsQuestion
  <2> QED BY <2>3
<1> HIDE DEF a, u
<1>5. \A b \in files \cup rows \cup cache : b.uuid # a.uuid
  BY <1>1, <1>3 DEF MailInv
<1>6. sent'[id] = sent[id] + 1 /\ \A q \in QuestionIds \ {id} : sent'[q] = sent[q]
  BY <1>1
<1>7. \A b \in files' \cup rows' \cup cache' : b.uuid[3] <= sent'[QuestionOf(b.uuid)]
  <2> SUFFICES ASSUME NEW b \in files' \cup rows' \cup cache'
               PROVE  b.uuid[3] <= sent'[QuestionOf(b.uuid)]
    OBVIOUS
  <2>1. CASE b = a
    BY <1>1, <1>3, <1>6, <2>1
  <2>2. CASE b \in files \cup rows \cup cache
    <3>1. /\ b.uuid[3] <= sent[QuestionOf(b.uuid)] /\ QuestionOf(b.uuid) \in QuestionIds
          /\ b.uuid[3] \in Nat
      BY <1>4, <2>2 DEF MailInv
    <3>2. \A q \in QuestionIds : sent[q] \in Nat /\ sent'[q] \in Nat /\ sent[q] <= sent'[q]
      BY <1>1, <1>6
    <3> QED BY <3>1, <3>2
  <2> QED BY <1>1, <1>2, <2>1, <2>2
<1>8. a.uuid[3] >= 1
  BY <1>1, <1>3
<1>9. \A b \in files', c \in rows' \cup cache' : b.uuid # c.uuid
  BY <1>1, <1>2, <1>5 DEF MailInv
<1>10. \A q \in Uuids : told'[q] # "none" => q \in UuidsOf(files')
  BY <1>1, <1>2 DEF MailInv, UuidsOf
<1>11. \A b \in rows' \cup cache' : b.uuid[3] >= 1
  BY <1>1, <1>2, <1>8 DEF MailInv
<1> QED BY <1>7, <1>9, <1>10, <1>11 DEF MailInv

\* The autopilot's file replaces the one of its number.
LEMMA ChosenMail ==
    ASSUME TypeOK, AskInv, MailInv, Choose
    PROVE  MailInv'
<1>1. /\ UNCHANGED <<rows, cache, told, sent>>
      /\ hand'.uuid = AutopilotUuid(question.id)
      /\ files' = {f \in files : f.uuid # hand'.uuid} \cup {hand'}
      /\ question.id \in QuestionIds
  BY DEF Choose, relayVars, envVars, AskInv, Asking, TypeOK, QuestionType
<1>2. hand'.uuid[3] = 0 /\ QuestionOf(hand'.uuid) = question.id
  BY <1>1, AnswerHasItsQuestion
<1>3. sent[question.id] >= 0
  BY <1>1 DEF TypeOK
<1>4. \A b \in rows \cup cache : b.uuid # hand'.uuid
  BY <1>2 DEF MailInv
<1>5. UuidsOf(files) \subseteq UuidsOf(files')
  BY <1>1 DEF UuidsOf
<1> QED BY <1>1, <1>2, <1>3, <1>4, <1>5 DEF MailInv

LEMMA NextMail ==
    ASSUME TypeOK, AskInv, MailInv, Next
    PROVE  MailInv'
<1> USE DEF envVars, relayVars, ownerVars
<1>1. CASE Take
  <2>1. UNCHANGED <<files, sent>>
    BY <1>1 DEF Take
  <2>2. CASE TakeNone
    BY <2>1, <2>2, TakeNoneMoves, FewerMail DEF ToldMoves
  <2>3. ASSUME NEW a \in cache \cup files, TakeOne(a) PROVE MailInv'
    BY <2>1, <2>3, TakeOneMoves, FewerMail DEF ToldMoves
  <2> QED BY <1>1, <2>2, <2>3 DEF Take
<1>2. CASE AutoTake
  <2>1. UNCHANGED <<files, sent>>
    BY <1>2 DEF AutoTake
  <2>2. CASE TakeNone
    BY <2>1, <2>2, TakeNoneMoves, FewerMail DEF ToldMoves
  <2>3. ASSUME NEW a \in cache \cup files, TakeOne(a) PROVE MailInv'
    BY <2>1, <2>3, TakeOneMoves, FewerMail DEF ToldMoves
  <2> QED BY <1>2, <2>2, <2>3 DEF AutoTake
<1>3. CASE Choose
  BY <1>3, ChosenMail
<1>4. ASSUME NEW o \in Offers, NEW id \in QuestionIds, Send(o, id) PROVE MailInv'
  BY <1>4, SentMail
<1>5. CASE Poll
  <2>1. /\ UNCHANGED <<files, sent, told>> /\ rows' \subseteq rows
        /\ cache' \subseteq rows
    BY <1>5 DEF Poll, Ours
  <2> QED BY <2>1, FewerMail
<1>6. CASE /\ UNCHANGED <<files, sent, told, rows>>
           /\ cache' = cache \/ cache' = {}
  BY <1>6, FewerMail
<1>7. CASE \/ PhaseShips \/ PhaseStops \/ (\E r \in Reasons : PhaseHalts(r))
           \/ Resolve \/ WaitTop \/ Look
  <2>1. UNCHANGED <<files, sent, told, rows>>
    BY <1>7 DEF PhaseShips, PhaseStops, PhaseHalts, Resolve, WaitTop, Look
  <2>2. cache' = cache \/ cache' = {}
    BY <1>7 DEF PhaseShips, PhaseStops, PhaseHalts, Resolve, WaitTop, Look, EndRun,
                NextPhase, StopAsAnswer
  <2> QED BY <1>6, <2>1, <2>2
<1>8. CASE Apply \/ EndPause \/ Crash \/ RestoreWait \/ RunAgain
  <2>1. UNCHANGED <<files, sent, told, rows>>
    BY <1>8 DEF Apply, EndPause, Crash, RestoreWait, RunAgain
  <2>2. cache' = cache \/ cache' = {}
    BY <1>8 DEF Apply, EndPause, Crash, RestoreWait, RunAgain, EndRun, NextPhase,
                Commits, GoOn
  <2> QED BY <1>6, <2>1, <2>2
<1>9. CASE (\E t \in Timers : Elapse(t)) \/ LeaseTaken \/ LeaseEnds \/ RaiseStop \/ Ended
  <2>1. UNCHANGED <<files, sent, told, rows, cache>>
    BY <1>9 DEF Elapse, LeaseTaken, LeaseEnds, RaiseStop, Ended, vars
  <2> QED BY <1>6, <2>1
<1> QED BY <1>1, <1>2, <1>3, <1>4, <1>5, <1>7, <1>8, <1>9
        DEF Next, OwnerStep, PhaseStep, WaitStep, Restart, Environment

----------------------------------------------------------------------------
(* What was carried out.                                                   *)

LEMMA KeptDone ==
    ASSUME TypeOK, DoneInv, UNCHANGED <<executed, seq>>,
           question' = question \/ question' = NoQuestion,
           applied \subseteq applied',
           UNCHANGED told \/ (question # NoQuestion /\ \A u \in Uuids : ToldMoves(u))
    PROVE  DoneInv'
<1>1. \A e \in executed : e.uuid \in Uuids
  BY DEF TypeOK
<1>2. ASSUME NEW e \in executed, e.who # Autopilot
      PROVE  e.uuid \in applied' /\ told'[e.uuid] # "refused"
  <2>1. e.uuid \in applied /\ told[e.uuid] # "refused"
    BY <1>2 DEF DoneInv
  <2>2. question # NoQuestion => QuestionOf(e.uuid) # question.id
    BY DEF DoneInv
  <2> QED BY <1>1, <2>1, <2>2 DEF ToldMoves
<1> QED BY <1>2 DEF DoneInv

\* A question that is new has not been answered.
LEMMA HaltDone ==
    ASSUME TypeOK, AskInv, DoneInv, NEW r \in Reasons, PhaseHalts(r)
    PROVE  DoneInv'
<1>0. UNCHANGED <<executed, applied, told>>
  BY DEF PhaseHalts, history, journalVars, relayVars
<1>1. CASE AutoWaits(r)
  BY <1>0, <1>1, KeptDone DEF PhaseHalts, askVars, saved
<1>2. CASE ~AutoWaits(r)
  <2>1. /\ seq' = [seq EXCEPT ![phase] = @ + 1]
        /\ question'.id = <<phase, seq'[phase]>>
    BY <1>2 DEF PhaseHalts
  <2>2. phase \in Numbers /\ seq \in [Numbers -> 0 .. Seqs]
    BY DEF TypeOK
  <2>3. ASSUME NEW e \in executed
        PROVE  /\ e.uuid[2] <= seq'[e.uuid[1]]
               /\ QuestionOf(e.uuid) # question'.id
    <3>1. /\ e.uuid[1] \in Numbers /\ e.uuid[2] \in Nat
          /\ e.uuid[2] <= seq[e.uuid[1]]
      BY DEF TypeOK, DoneInv, Uuids
    <3>2. CASE e.uuid[1] = phase
      BY <2>1, <2>2, <3>1, <3>2 DEF QuestionOf
    <3>3. CASE e.uuid[1] # phase
      BY <2>1, <2>2, <3>1, <3>3 DEF QuestionOf
    <3> QED BY <3>2, <3>3
  <2> QED BY <1>0, <2>3 DEF DoneInv
<1> QED BY <1>1, <1>2

\* The answer that closes its question is the first one to it.
LEMMA MoreDone ==
    ASSUME TypeOK, AskInv, DoneInv, UNCHANGED seq,
           question # NoQuestion, question' = NoQuestion,
           hand \in AnswerType, QuestionOf(hand.uuid) = question.id, Execute(hand),
           applied \subseteq applied', \A u \in Uuids : ToldMoves(u),
           hand.who # Autopilot => hand.uuid \in applied' /\ told'[hand.uuid] # "refused"
    PROVE  DoneInv'
<1> DEFINE x == [uuid |-> hand.uuid, who |-> hand.who, action |-> hand.action]
<1>1. executed' = executed \cup {x} /\ x.uuid = hand.uuid /\ x.who = hand.who
  BY DEF Execute
<1> HIDE DEF x
<1>2. hand.uuid[2] <= seq[hand.uuid[1]]
  <2>1. question.id = <<phase, seq[phase]>>
    BY DEF AskInv
  <2>2. hand.uuid[1] = phase /\ hand.uuid[2] = seq[phase]
    BY <2>1 DEF QuestionOf
  <2>3. seq[phase] \in 0 .. Seqs
    BY DEF TypeOK
  <2> QED BY <2>2, <2>3
<1>3. \A e \in executed : e.uuid \in Uuids
  BY DEF TypeOK
<1>4. ASSUME NEW e \in executed
      PROVE  /\ e.uuid[2] <= seq[e.uuid[1]]
             /\ QuestionOf(e.uuid) # question.id
             /\ e.who # Autopilot => e.uuid \in applied' /\ told'[e.uuid] # "refused"
  <2>1. /\ e.uuid[2] <= seq[e.uuid[1]]
        /\ QuestionOf(e.uuid) # question.id
        /\ e.who # Autopilot => e.uuid \in applied /\ told[e.uuid] # "refused"
    BY DEF DoneInv
  <2> QED BY <1>3, <2>1 DEF ToldMoves
<1>5. \A e, f \in executed' : QuestionOf(e.uuid) = QuestionOf(f.uuid) => e.uuid = f.uuid
  BY <1>1, <1>4 DEF DoneInv
<1>6. \A e \in executed' : /\ e.uuid[2] <= seq'[e.uuid[1]]
                           /\ e.who # Autopilot =>
                                 e.uuid \in applied' /\ told'[e.uuid] # "refused"
  BY <1>1, <1>2, <1>4
<1> QED BY <1>5, <1>6 DEF DoneInv

LEMMA NextDone ==
    ASSUME TypeOK, AskInv, MailInv, DoneInv, Next
    PROVE  DoneInv'
<1> USE DEF history, journalVars, relayVars, ownerVars, askVars, saved
<1>1. CASE /\ UNCHANGED <<executed, seq, applied, told>>
           /\ question' = question \/ question' = NoQuestion
  BY <1>1, KeptDone
<1>2. ASSUME NEW r \in Reasons, PhaseHalts(r) PROVE DoneInv'
  BY <1>2, HaltDone
<1>3. CASE PhaseShips \/ PhaseStops \/ Resolve \/ WaitTop \/ Look \/ Choose
  <2>1. UNCHANGED <<executed, seq, applied, told>>
    BY <1>3 DEF PhaseShips, PhaseStops, Resolve, WaitTop, Look, Choose
  <2>2. question' = question \/ question' = NoQuestion
    BY <1>3 DEF PhaseShips, PhaseStops, Resolve, WaitTop, Look, Choose, NextPhase,
                EndRun, Pause, StopAsAnswer
  <2> QED BY <1>1, <2>1, <2>2
<1>4. CASE EndPause \/ Crash \/ RestoreWait \/ RunAgain
  <2>1. UNCHANGED <<executed, seq, applied, told>>
    BY <1>4 DEF EndPause, Crash, RestoreWait, RunAgain
  <2>2. question' = question \/ question' = NoQuestion
    BY <1>4 DEF EndPause, Crash, RestoreWait, RunAgain
  <2> QED BY <1>1, <2>1, <2>2
<1>5. CASE Environment \/ Ended
  <2>1. UNCHANGED <<executed, seq, applied, told, question>>
    BY <1>5 DEF Environment, Send, Poll, Elapse, LeaseTaken, LeaseEnds, RaiseStop,
                Ended, vars
  <2> QED BY <1>1, <2>1
<1>6. CASE Take
  <2>1. /\ pc = "take" /\ question # NoQuestion
        /\ UNCHANGED <<executed, seq, question>>
    BY <1>6 DEF Take, AskInv, Asking
  <2>2. CASE TakeNone
    BY <2>1, <2>2, TakeNoneMoves, KeptDone
  <2>3. ASSUME NEW a \in cache \cup files, TakeOne(a) PROVE DoneInv'
    <3>1. applied \subseteq applied' /\ \A u \in Uuids : ToldMoves(u)
      BY <2>3, TakeOneMoves DEF Record
    <3> QED BY <2>1, <3>1, KeptDone
  <2> QED BY <1>6, <2>2, <2>3 DEF Take
<1>7. CASE AutoTake
  <2>1. /\ pc = "autoTake" /\ question # NoQuestion /\ UNCHANGED seq
        /\ hand \in AnswerType /\ hand.who = Autopilot
        /\ hand.uuid = AutopilotUuid(question.id) /\ question.id \in QuestionIds
    BY <1>7 DEF AutoTake, AskInv, Asking, TypeOK, QuestionType
  <2>2. QuestionOf(hand.uuid) = question.id
    BY <2>1, AnswerHasItsQuestion
  <2>3. applied \subseteq applied' /\ \A u \in Uuids : ToldMoves(u)
    <3>1. TakeNone \/ \E a \in cache \cup files : TakeOne(a)
      BY <1>7 DEF AutoTake
    <3> QED BY <3>1, TakeNoneMoves, TakeOneMoves DEF Record
  <2>4. CASE Execute(hand) /\ question' = NoQuestion
    BY <2>1, <2>2, <2>3, <2>4, MoreDone
  <2>5. CASE UNCHANGED <<question, executed>>
    BY <2>1, <2>3, <2>5, KeptDone
  <2> QED BY <1>7, <2>4, <2>5 DEF AutoTake
<1>8. CASE Apply
  <2>1. /\ question # NoQuestion /\ UNCHANGED <<seq, applied, told>>
        /\ hand \in AnswerType /\ QuestionOf(hand.uuid) = question.id
        /\ hand.who # Autopilot => hand.uuid \in applied /\ told[hand.uuid] # "refused"
        /\ Execute(hand)
    BY <1>8 DEF Apply, AskInv, Asking, TypeOK
  <2>2. question' = NoQuestion
    BY <1>8 DEF Apply, EndRun, NextPhase, Commits, Pause, GoOn
  <2>3. \A u \in Uuids : ToldMoves(u)
    BY <2>1 DEF ToldMoves
  <2> QED BY <2>1, <2>2, <2>3, MoreDone
<1> QED BY <1>2, <1>3, <1>4, <1>5, <1>6, <1>7, <1>8
        DEF Next, OwnerStep, PhaseStep, WaitStep, Restart

----------------------------------------------------------------------------
(* What was accepted.                                                      *)

LEMMA AcceptMoves ==
    ASSUME AcceptInv, executed \subseteq executed',
           \/ crashes' > 0 \/ chainStop'
           \/ /\ crashes' = crashes /\ chainStop' = chainStop
              /\ pc = "apply" => \/ pc' = "apply" /\ hand'.uuid = hand.uuid
                                 \/ \E e \in executed' : e.uuid = hand.uuid
              /\ \A u \in Uuids : told'[u] = "accepted" =>
                    told[u] = "accepted" \/ (pc' = "apply" /\ hand'.uuid = u)
    PROVE  AcceptInv'
BY DEF AcceptInv

LEMMA NextAccept ==
    ASSUME TypeOK, AskInv, MailInv, AcceptInv, Next
    PROVE  AcceptInv'
<1> USE DEF history, relayVars, ownerVars
<1>1. CASE /\ UNCHANGED <<executed, crashes, chainStop, told>>
           /\ pc # "apply" \/ UNCHANGED <<pc, hand>>
  BY <1>1, AcceptMoves
<1>2. CASE OwnerStep /\ ~Take /\ ~AutoTake /\ ~Apply
  <2>1. CASE PhaseStep
    BY <1>1, <2>1 DEF PhaseStep, PhaseShips, PhaseStops, PhaseHalts
  <2>2. CASE Resolve \/ WaitTop \/ Look \/ Choose \/ EndPause
    BY <1>1, <2>2 DEF Resolve, WaitTop, Look, Choose, EndPause
  <2> QED BY <1>2, <2>1, <2>2 DEF OwnerStep, WaitStep
<1>3. CASE Restart
  BY <1>1, <1>3 DEF Restart, RestoreWait, RunAgain
<1>4. CASE Environment \/ Ended
  <2>1. UNCHANGED <<executed, crashes, chainStop, told, pc, hand>>
    BY <1>4 DEF Environment, Send, Poll, Elapse, LeaseTaken, LeaseEnds, RaiseStop,
                Ended, vars
  <2> QED BY <1>1, <2>1
<1>5. CASE Crash
  <2>1. crashes' > 0 /\ UNCHANGED executed
    BY <1>5 DEF Crash, TypeOK
  <2> QED BY <2>1, AcceptMoves
<1>6. CASE Take
  <2>1. pc = "take" /\ UNCHANGED <<executed, crashes, chainStop>>
    BY <1>6 DEF Take
  <2>2. CASE TakeNone
    BY <2>1, <2>2, TakeNoneMoves, AcceptMoves
  <2>3. ASSUME NEW a \in cache \cup files, TakeOne(a), hand' = a, pc' = "apply"
        PROVE  AcceptInv'
    BY <2>1, <2>3, TakeOneMoves, AcceptMoves
  <2> QED BY <1>6, <2>2, <2>3 DEF Take
<1>7. CASE AutoTake
  <2>1. pc = "autoTake" /\ UNCHANGED crashes /\ executed \subseteq executed'
    BY <1>7 DEF AutoTake, Execute
  <2>2. CASE chainStop' = TRUE
    BY <2>1, <2>2, AcceptMoves
  <2>3. ASSUME NEW a \in cache \cup files \cup {NoAnswer},
               IF a = NoAnswer THEN TakeNone ELSE TakeOne(a),
               hand' = Final(a), pc' = "apply", UNCHANGED chainStop
        PROVE  AcceptInv'
    <3>1. CASE a = NoAnswer
      BY <2>1, <2>3, <3>1, TakeNoneMoves, AcceptMoves
    <3>2. CASE a # NoAnswer
      <4>1. hand' = a /\ a \in cache \cup files
        BY <2>3, <3>2 DEF Final
      <4> QED BY <2>1, <2>3, <3>2, <4>1, TakeOneMoves, AcceptMoves
    <3> QED BY <3>1, <3>2
  <2> QED BY <1>7, <2>2, <2>3 DEF AutoTake
<1>8. CASE Apply
  <2>1. /\ UNCHANGED <<crashes, chainStop, told>>
        /\ Execute(hand)
    BY <1>8 DEF Apply
  <2> DEFINE x == [uuid |-> hand.uuid, who |-> hand.who, action |-> hand.action]
  <2>2. executed' = executed \cup {x} /\ x.uuid = hand.uuid
    BY <2>1 DEF Execute
  <2> HIDE DEF x
  <2>3. executed \subseteq executed' /\ \E e \in executed' : e.uuid = hand.uuid
    BY <2>2
  <2> QED BY <2>1, <2>3, AcceptMoves
<1> QED BY <1>2, <1>3, <1>4, <1>5, <1>6, <1>7, <1>8 DEF Next

----------------------------------------------------------------------------
(* The budget of a phase.                                                  *)

\* A journal entry that spends is paid for when it is written.
LEMMA RecordBudget ==
    ASSUME TypeOK, AskInv, BudgetInv, question # NoQuestion,
           NEW a \in AnswerType, QuestionOf(a.uuid) = question.id,
           ~Refused(a), Record(a)
    PROVE  BudgetInv'
<1> DEFINE j == [uuid |-> a.uuid, who |-> a.who, action |-> a.action]
<1>1. /\ journal' = journal \cup {j}
      /\ j.uuid = a.uuid /\ j.who = a.who /\ j.action = a.action
  BY DEF Record
<1> HIDE DEF j
<1>2. a.uuid[1] = phase /\ phase \in Numbers
  BY DEF AskInv, QuestionOf, TypeOK
<1>3. budget \in [Numbers -> 0 .. Budget]
  BY DEF TypeOK
<1>4. /\ SpendsBudget(a.who, a.action) => budget'[phase] = budget[phase] + 1
      /\ \A n \in Numbers : budget'[n] \in Nat /\ budget[n] \in Nat /\ budget[n] <= budget'[n]
  BY <1>2, <1>3 DEF Record
<1>5. IsFiniteSet(journal')
  BY <1>1, FS_AddElement DEF BudgetInv
<1>6. ASSUME NEW n \in Numbers PROVE Cardinality(Spent(n)') <= budget'[n]
  <2>1. IsFiniteSet(Spent(n)) /\ Cardinality(Spent(n)) <= budget[n]
    BY FS_Subset DEF BudgetInv, Spent
  <2>2. Cardinality(Spent(n)) \in Nat
    BY <2>1, FS_CardinalityType
  <2>3. CASE n = phase /\ SpendsBudget(a.who, a.action)
    <3>1. Spent(n)' = Spent(n) \cup {j}
      BY <1>1, <1>2, <2>3 DEF Spent, SpendsBudget
    <3>2. Cardinality(Spent(n) \cup {j}) =
             IF j \in Spent(n) THEN Cardinality(Spent(n)) ELSE Cardinality(Spent(n)) + 1
      BY <2>1, FS_AddElement
    <3>3. \/ Cardinality(Spent(n)') = Cardinality(Spent(n))
          \/ Cardinality(Spent(n)') = Cardinality(Spent(n)) + 1
      BY <3>1, <3>2
    <3> QED BY <1>4, <2>1, <2>2, <2>3, <3>3
  <2>4. CASE ~(n = phase /\ SpendsBudget(a.who, a.action))
    <3>1. Spent(n)' = Spent(n)
      BY <1>1, <1>2, <2>4 DEF Spent, SpendsBudget
    <3> QED BY <1>4, <2>1, <2>2, <3>1
  <2> QED BY <2>3, <2>4
<1> QED BY <1>5, <1>6 DEF BudgetInv

LEMMA NextBudget ==
    ASSUME TypeOK, AskInv, MailInv, BudgetInv, Next
    PROVE  BudgetInv'
<1>1. CASE UNCHANGED journalVars
  BY <1>1 DEF BudgetInv, Spent, journalVars
<1>2. ASSUME NEW a \in cache \cup files, TakeOne(a), question # NoQuestion
      PROVE  BudgetInv'
  BY <1>2, TakeOneMoves, RecordBudget
<1>3. CASE Take
  <2>1. question # NoQuestion
    BY <1>3 DEF Take, AskInv, Asking
  <2>2. CASE TakeNone
    BY <1>1, <2>2, TakeNoneMoves
  <2> QED BY <1>2, <1>3, <2>1, <2>2 DEF Take
<1>4. CASE AutoTake
  <2>1. question # NoQuestion
    BY <1>4 DEF AutoTake, AskInv, Asking
  <2>2. CASE TakeNone
    BY <1>1, <2>2, TakeNoneMoves
  <2>3. TakeNone \/ \E a \in cache \cup files : TakeOne(a)
    BY <1>4 DEF AutoTake
  <2> QED BY <1>2, <2>1, <2>2, <2>3
<1>5. CASE PhaseStep \/ Resolve \/ WaitTop \/ Look \/ Choose \/ Apply \/ EndPause
  BY <1>1, <1>5 DEF PhaseStep, PhaseShips, PhaseStops, PhaseHalts, Resolve, WaitTop,
                    Look, Choose, Apply, EndPause
<1>6. CASE Crash \/ Restart
  BY <1>1, <1>6 DEF Crash, Restart, RestoreWait, RunAgain
<1>7. CASE Environment \/ Ended
  BY <1>1, <1>7 DEF Environment, Send, Poll, Elapse, LeaseTaken, LeaseEnds, RaiseStop,
                    Ended, vars
<1> QED BY <1>3, <1>4, <1>5, <1>6, <1>7 DEF Next, OwnerStep, WaitStep

----------------------------------------------------------------------------
(* The pauses of a wait.                                                   *)

\* One more wait buys LimitWaits more pauses.
LEMMA OneWaitMore ==
    ASSUME NEW w \in Nat
    PROVE  LimitWaits * (w + 1) = LimitWaits * w + LimitWaits
OBVIOUS

\* A chain never has more pauses than it is long.
LEMMA UnusedIsKnown ==
    ASSUME TypeOK, NEW n \in Numbers
    PROVE  Unused(n) \in 0 .. LimitWaits
BY DEF TypeOK, Unused

\* What a step does that neither pauses nor begins or ends a chain.
LEMMA KeptPauses ==
    ASSUME TypeOK, PauseInv, UNCHANGED pauses, executed \subseteq executed',
           IsFiniteSet(executed'),
           UNCHANGED limitWait \/ limitWait' = NoLimitWait
    PROVE  PauseInv'
<1>1. ASSUME NEW n \in Numbers
      PROVE  pauses'[n] + Unused(n)' <= LimitWaits * Cardinality(Waits(n)')
  <2>1. /\ pauses[n] \in Nat /\ Unused(n) \in Nat
        /\ pauses[n] + Unused(n) <= LimitWaits * Cardinality(Waits(n))
    BY UnusedIsKnown DEF TypeOK, PauseInv
  <2>2. /\ IsFiniteSet(Waits(n)) /\ IsFiniteSet(Waits(n)')
        /\ Cardinality(Waits(n)) <= Cardinality(Waits(n)')
    <3>1. Waits(n) \subseteq Waits(n)' /\ Waits(n)' \subseteq executed'
      BY DEF Waits
    <3>2. IsFiniteSet(Waits(n)')
      BY <3>1, FS_Subset
    <3> QED BY <3>1, <3>2, FS_Subset
  <2>3. Cardinality(Waits(n)) \in Nat /\ Cardinality(Waits(n)') \in Nat
    BY <2>2, FS_CardinalityType
  <2>4. LimitWaits * Cardinality(Waits(n)) <= LimitWaits * Cardinality(Waits(n)')
    BY <2>2, <2>3
  <2>5. Unused(n)' = Unused(n) \/ Unused(n)' = 0
    BY DEF Unused, NoLimitWait, Numbers
  <2> QED BY <2>1, <2>3, <2>4, <2>5
<1> QED BY <1>1 DEF PauseInv

\* The next pause of a chain takes one of those it has left.
LEMMA ChainPauses ==
    ASSUME TypeOK, PauseInv, UNCHANGED executed,
           limitWait.phase = phase, limitWait.waits < LimitWaits,
           Pause(limitWait.waits + 1)
    PROVE  PauseInv'
<1>1. /\ phase \in Numbers /\ pauses \in [Numbers -> Nat]
      /\ limitWait.waits \in Nat
  BY DEF TypeOK
<1>2. /\ limitWait' = [phase |-> phase, waits |-> limitWait.waits + 1]
      /\ pauses' = [pauses EXCEPT ![phase] = @ + 1]
  BY DEF Pause
<1>3. ASSUME NEW n \in Numbers
      PROVE  pauses'[n] + Unused(n)' = pauses[n] + Unused(n)
  <2>1. CASE n = phase
    BY <1>1, <1>2, <2>1 DEF Unused
  <2>2. CASE n # phase
    BY <1>1, <1>2, <2>2 DEF Unused
  <2> QED BY <2>1, <2>2
<1>4. \A n \in Numbers : Waits(n)' = Waits(n)
  BY DEF Waits
<1> QED BY <1>3, <1>4 DEF PauseInv

\* A wait that is carried out buys a chain, and its first pause uses one.
LEMMA WaitPauses ==
    ASSUME TypeOK, AskInv, DoneInv, PauseInv, hand \in AnswerType,
           question # NoQuestion, QuestionOf(hand.uuid) = question.id,
           hand.action = "wait", Execute(hand), Pause(1)
    PROVE  PauseInv'
<1> DEFINE x == [uuid |-> hand.uuid, who |-> hand.who, action |-> hand.action]
<1>1. /\ executed' = executed \cup {x} /\ x.uuid = hand.uuid
      /\ x.action = "wait"
  BY DEF Execute
<1> HIDE DEF x
<1>2. /\ phase \in Numbers /\ pauses \in [Numbers -> Nat]
      /\ hand.uuid[1] = phase
  BY DEF TypeOK, AskInv, QuestionOf
<1>3. x \notin executed
  BY <1>1 DEF DoneInv
<1>4. /\ limitWait' = [phase |-> phase, waits |-> 1]
      /\ pauses' = [pauses EXCEPT ![phase] = @ + 1]
  BY DEF Pause
<1>5. IsFiniteSet(executed')
  BY <1>1, FS_AddElement DEF PauseInv
<1>6. ASSUME NEW n \in Numbers
      PROVE  pauses'[n] + Unused(n)' <= LimitWaits * Cardinality(Waits(n)')
  <2>1. /\ pauses[n] \in Nat /\ Unused(n) \in Nat
        /\ pauses[n] + Unused(n) <= LimitWaits * Cardinality(Waits(n))
    BY UnusedIsKnown DEF TypeOK, PauseInv
  <2>2. IsFiniteSet(Waits(n))
    BY FS_Subset DEF PauseInv, Waits
  <2>3. Cardinality(Waits(n)) \in Nat
    BY <2>2, FS_CardinalityType
  <2>4. CASE n = phase
    <3>1. Waits(n)' = Waits(n) \cup {x} /\ x \notin Waits(n)
      BY <1>1, <1>2, <1>3, <2>4 DEF Waits
    <3>2. Cardinality(Waits(n) \cup {x}) = Cardinality(Waits(n)) + 1
      BY <2>2, <3>1, FS_AddElement
    <3>3. LimitWaits * Cardinality(Waits(n)') = LimitWaits * Cardinality(Waits(n)) + LimitWaits
      BY <2>3, <3>1, <3>2, OneWaitMore
    <3>4. pauses'[n] = pauses[n] + 1 /\ Unused(n)' = LimitWaits - 1
      BY <1>2, <1>4, <2>4 DEF Unused
    <3>5. LimitWaits * Cardinality(Waits(n)) \in Nat
      BY <2>3
    <3> HIDE DEF Unused, Waits
    <3> QED BY <2>1, <3>3, <3>4, <3>5
  <2>5. CASE n # phase
    <3>1. Waits(n)' = Waits(n)
      BY <1>1, <1>2, <2>5 DEF Waits
    <3>2. pauses'[n] = pauses[n] /\ Unused(n)' = 0
      BY <1>2, <1>4, <2>5 DEF Unused
    <3> QED BY <2>1, <2>3, <3>1, <3>2
  <2> QED BY <2>4, <2>5
<1> QED BY <1>5, <1>6 DEF PauseInv

LEMMA NextPauses ==
    ASSUME TypeOK, AskInv, DoneInv, PauseInv, Next
    PROVE  PauseInv'
<1> USE DEF history, askVars
<1>0. IsFiniteSet(executed)
  BY DEF PauseInv
<1>1. CASE /\ UNCHANGED <<executed, pauses>>
           /\ UNCHANGED limitWait \/ limitWait' = NoLimitWait
  BY <1>0, <1>1, KeptPauses
<1>2. CASE PhaseStep
  BY <1>1, <1>2 DEF PhaseStep, PhaseShips, PhaseStops, PhaseHalts
<1>3. CASE Resolve
  <2>1. UNCHANGED executed
    BY <1>3 DEF Resolve
  <2>2. CASE UNCHANGED <<limitWait, pauses>>
    BY <1>1, <2>1, <2>2
  <2>3. CASE question = NoQuestion /\ Pause(limitWait.waits + 1)
    <3>1. limitWait.phase = phase /\ limitWait.waits < LimitWaits
      BY <1>3, <2>3 DEF Resolve, AskInv
    <3> QED BY <2>1, <2>3, <3>1, ChainPauses
  <2> QED BY <1>3, <2>2, <2>3 DEF Resolve
<1>4. CASE WaitTop \/ Take \/ Look \/ Choose \/ EndPause
  BY <1>1, <1>4 DEF WaitTop, Take, Look, Choose, EndPause
<1>5. CASE AutoTake
  <2>1. UNCHANGED <<limitWait, pauses>>
    BY <1>5 DEF AutoTake
  <2>2. executed' = executed \/ Execute(hand)
    BY <1>5 DEF AutoTake
  <2>3. executed \subseteq executed' /\ IsFiniteSet(executed')
    BY <1>0, <2>2, FS_AddElement DEF Execute
  <2> QED BY <2>1, <2>3, KeptPauses
<1>6. CASE Apply
  <2>1. /\ Execute(hand) /\ hand \in AnswerType
        /\ question # NoQuestion /\ QuestionOf(hand.uuid) = question.id
    BY <1>6 DEF Apply, AskInv, Asking, TypeOK
  <2>2. CASE hand.action = "wait" /\ Pause(1)
    BY <2>1, <2>2, WaitPauses
  <2>3. CASE UNCHANGED <<limitWait, pauses>>
    <3>1. executed \subseteq executed' /\ IsFiniteSet(executed')
      BY <1>0, <2>1, FS_AddElement DEF Execute
    <3> QED BY <2>3, <3>1, KeptPauses
  <2> QED BY <1>6, <2>2, <2>3 DEF Apply
<1>7. CASE Crash \/ Restart
  BY <1>1, <1>7 DEF Crash, Restart, RestoreWait, RunAgain
<1>8. CASE Environment \/ Ended
  BY <1>1, <1>8 DEF Environment, Send, Poll, Elapse, LeaseTaken, LeaseEnds, RaiseStop,
                    Ended, vars
<1> QED BY <1>2, <1>3, <1>4, <1>5, <1>6, <1>7, <1>8 DEF Next, OwnerStep, WaitStep

----------------------------------------------------------------------------
(* The invariant of a run.                                                 *)

LEMMA InitQInv == Init => QInv
<1> SUFFICES ASSUME Init PROVE QInv
  OBVIOUS
<1> USE DEF Init
<1>1. TypeOK
  <2>1. 1 \in Numbers /\ 0 \in 0 .. Phases
    BY DEF Numbers
  <2>2. NoLimitWait \in [phase : 0 .. Phases, waits : 0 .. LimitWaits]
    BY DEF NoLimitWait
  <2>3. /\ seq \in [Numbers -> 0 .. Seqs] /\ budget \in [Numbers -> 0 .. Budget]
        /\ told \in [Uuids -> Verdicts] /\ sent \in [QuestionIds -> 0 .. Answers]
        /\ pauses \in [Numbers -> Nat]
    BY DEF Verdicts
  <2>4. /\ limitWait \in [phase : 0 .. Phases, waits : 0 .. LimitWaits]
        /\ duties \in 0 .. Duties /\ crashes \in 0 .. Crashes
    BY <2>2
  <2>5. /\ pc \in PCs /\ status \in Statuses /\ phase \in Numbers
        /\ over \subseteq Timers /\ \A S \in {files, rows, cache} : S \subseteq AnswerType
        /\ applied \subseteq Uuids /\ journal \subseteq Entries /\ executed \subseteq Entries
    BY <2>1 DEF PCs, Statuses
  <2> QED BY <2>3, <2>4, <2>5 DEF TypeOK, Entries, Whos
<1>2. AskInv
  BY DEF AskInv, Asking
<1>3. MailInv /\ DoneInv /\ AcceptInv
  BY DEF MailInv, DoneInv, AcceptInv
<1>4. BudgetInv
  <2>1. \A n \in Numbers : Spent(n) = {}
    BY DEF Spent
  <2>2. \A n \in Numbers : Cardinality(Spent(n)) = 0 /\ budget[n] = 0
    BY <2>1, FS_EmptySet
  <2> QED BY <2>2, FS_EmptySet DEF BudgetInv
<1>5. PauseInv
  <2>1. \A n \in Numbers : Waits(n) = {}
    BY DEF Waits
  <2>2. \A n \in Numbers : pauses[n] = 0 /\ Unused(n) = 0
    BY DEF Unused, NoLimitWait, Numbers
  <2>3. \A n \in Numbers : Cardinality(Waits(n)) = 0
    BY <2>1, FS_EmptySet
  <2> QED BY <2>2, <2>3, FS_EmptySet DEF PauseInv
<1> QED BY <1>1, <1>2, <1>3, <1>4, <1>5 DEF QInv

LEMMA NextQInv == QInv /\ [Next]_vars => QInv'
<1> SUFFICES ASSUME QInv, [Next]_vars PROVE QInv'
  OBVIOUS
<1>0. /\ TypeOK /\ AskInv /\ MailInv /\ DoneInv
      /\ AcceptInv /\ BudgetInv /\ PauseInv
  BY DEF QInv
<1>1. CASE Next
  <2>1. TypeOK' /\ AskInv' /\ MailInv'
    BY <1>0, <1>1, NextTypes, NextAsk, NextMail
  <2>2. DoneInv' /\ AcceptInv' /\ BudgetInv' /\ PauseInv'
    BY <1>0, <1>1, NextDone, NextAccept, NextBudget, NextPauses
  <2> QED BY <2>1, <2>2 DEF QInv
<1>2. CASE UNCHANGED vars
  <2> USE <1>2 DEF vars, ownerVars, relayVars, askVars, saved, journalVars, envVars, history
  <2>1. TypeOK'
    BY <1>0 DEF TypeOK
  <2>2. AskInv' /\ MailInv'
    BY <1>0 DEF AskInv, MailInv
  <2>3. DoneInv' /\ AcceptInv'
    BY <1>0 DEF DoneInv, AcceptInv
  <2>4. BudgetInv' /\ PauseInv'
    BY <1>0 DEF BudgetInv, PauseInv, Spent, Waits, Unused
  <2> QED BY <2>1, <2>2, <2>3, <2>4 DEF QInv
<1> QED BY <1>1, <1>2

LEMMA QInvariant == Spec => []QInv
BY InitQInv, NextQInv, PTL DEF Spec

\* What of QInv each property of the runs is.
LEMMA QProperties ==
    ASSUME QInv
    PROVE  /\ TypeOK /\ OneAnswerPerQuestion /\ AcceptedIsExecuted
           /\ BudgetHolds /\ PausesAreAnswered
<1>0. /\ TypeOK /\ AskInv /\ DoneInv /\ AcceptInv /\ BudgetInv /\ PauseInv
  BY DEF QInv
<1>1. OneAnswerPerQuestion
  BY <1>0 DEF DoneInv, OneAnswerPerQuestion
<1>2. AcceptedIsExecuted
  <2>1. pc = "apply" => QuestionOf(hand.uuid) = question.id
    BY <1>0 DEF AskInv
  <2> QED BY <1>0, <2>1 DEF AcceptInv, AcceptedIsExecuted
<1>3. BudgetHolds
  <2> SUFFICES ASSUME NEW n \in Numbers
               PROVE  Cardinality({e \in executed \cap journal :
                          e.uuid[1] = n /\ e.who # Human /\ e.action \in Budgeted}) <= Budget
    BY DEF BudgetHolds
  <2> DEFINE D == {e \in executed \cap journal :
                      e.uuid[1] = n /\ e.who # Human /\ e.action \in Budgeted}
  <2>1. D \subseteq Spent(n) /\ Spent(n) \subseteq journal
    BY DEF Spent
  <2>2. IsFiniteSet(Spent(n)) /\ Cardinality(Spent(n)) <= budget[n]
    BY <1>0, <2>1, FS_Subset DEF BudgetInv
  <2>3. IsFiniteSet(D) /\ Cardinality(D) <= Cardinality(Spent(n))
    BY <2>1, <2>2, FS_Subset
  <2>4. Cardinality(D) \in Nat /\ Cardinality(Spent(n)) \in Nat
    BY <2>2, <2>3, FS_CardinalityType
  <2>5. budget[n] \in 0 .. Budget
    BY <1>0 DEF TypeOK
  <2> HIDE DEF D
  <2>6. Cardinality(D) <= Budget
    BY <2>2, <2>3, <2>4, <2>5
  <2> QED BY <2>6 DEF D
<1>4. PausesAreAnswered
  <2> SUFFICES ASSUME NEW n \in Numbers
               PROVE  pauses[n] <= LimitWaits * Cardinality(Waits(n))
    BY DEF PausesAreAnswered, Waits
  <2>1. pauses[n] \in Nat /\ Unused(n) \in Nat
    BY <1>0, UnusedIsKnown DEF TypeOK
  <2>2. pauses[n] + Unused(n) <= LimitWaits * Cardinality(Waits(n))
    BY <1>0 DEF PauseInv
  <2>3. LimitWaits * Cardinality(Waits(n)) \in Nat
    <3>1. IsFiniteSet(Waits(n))
      BY <1>0, FS_Subset DEF PauseInv, Waits
    <3>2. Cardinality(Waits(n)) \in Nat
      BY <3>1, FS_CardinalityType
    <3> QED BY <3>2
  <2> QED BY <2>1, <2>2, <2>3
<1> QED BY <1>0, <1>1, <1>2, <1>3, <1>4

----------------------------------------------------------------------------
(* A raised stop flag ends the run in a bounded number of steps.           *)

\* Where a step of the owner can lead while the flag is up.
StopArrow ==
    \/ pc' = "ended"
    \/ /\ pc = "phase" /\ pc' = "phase" /\ phase' = phase + 1
    \/ /\ phase' = phase
       /\ \/ pc = "take" /\ pc' \in {"look", "apply"}
          \/ pc = "look" /\ pc' \in {"auto", "wait"}
          \/ pc = "auto" /\ pc' = "autoTake"
          \/ pc = "autoTake" /\ pc' = "apply"
          \/ pc = "apply" /\ pc' \in {"phase", "pause"}
          \/ pc = "pause" /\ pc' = "phase"
    \/ pc = "apply" /\ pc' = "phase" /\ phase' = phase + 1

LEMMA StopArrows ==
    ASSUME stopFlag, OwnerStep
    PROVE  StopArrow /\ Alive /\ stopFlag'
<1>1. CASE PhaseStep
  <2>1. ~(\E r \in Reasons : PhaseHalts(r))
    BY DEF PhaseHalts
  <2> QED
    BY <1>1, <2>1 DEF PhaseStep, PhaseShips, PhaseStops, NextPhase, EndRun,
       StopArrow, Alive, envVars
<1>2. CASE Resolve \/ WaitTop
  BY <1>2 DEF Resolve, WaitTop, StopAsAnswer, EndRun, StopArrow, Alive, envVars
<1>3. CASE Take
  BY <1>3 DEF Take, StopArrow, Alive, envVars
<1>4. CASE Look
  <2>1. pc = "look" /\ pc' \in {"auto", "wait"} /\ UNCHANGED <<phase, stopFlag>>
    BY <1>4, Zenon DEF Look
  <2> QED
    BY <2>1 DEF StopArrow, Alive
<1>5. CASE Choose
  BY <1>5 DEF Choose, StopArrow, Alive, envVars
<1>6. CASE AutoTake
  BY <1>6 DEF AutoTake, StopArrow, Alive, envVars
<1>7. CASE Apply
  BY <1>7 DEF Apply, EndRun, NextPhase, Commits, Pause, GoOn, StopArrow, Alive,
     envVars
<1>8. CASE EndPause
  BY <1>8 DEF EndPause, StopArrow, Alive, envVars
<1> QED
  BY <1>1, <1>2, <1>3, <1>4, <1>5, <1>6, <1>7, <1>8 DEF OwnerStep, WaitStep

\* Every arrow takes something of the measure away.
LEMMA StopFalls ==
    ASSUME TypeOK, TypeOK', Alive, StopArrow
    PROVE  StopLeft' < StopLeft
<1>1. /\ phase \in 1 .. Phases /\ phase' \in 1 .. Phases
      /\ pc \in PCs /\ pc' \in PCs
  BY DEF TypeOK, Numbers
<1>2. Place \in 1 .. 8 /\ StopLeft = (Phases - phase) * 8 + Place
  BY <1>1 DEF Place, StopLeft, Alive, PCs
<1>3. CASE pc' = "ended"
  <2>1. StopLeft' = 0
    BY <1>3 DEF StopLeft, Alive
  <2> QED
    BY <1>1, <1>2, <2>1
<1>4. CASE pc' = "phase" /\ phase' = phase + 1
  <2>1. StopLeft' = (Phases - (phase + 1)) * 8 + 2
    BY <1>4 DEF StopLeft, Alive, Place
  <2> QED
    BY <1>1, <1>2, <2>1
<1>5. CASE /\ phase' = phase
           /\ \/ pc = "take" /\ pc' \in {"look", "apply"}
              \/ pc = "look" /\ pc' \in {"auto", "wait"}
              \/ pc = "auto" /\ pc' = "autoTake"
              \/ pc = "autoTake" /\ pc' = "apply"
              \/ pc = "apply" /\ pc' \in {"phase", "pause"}
              \/ pc = "pause" /\ pc' = "phase"
  <2>1. Place' < Place /\ Place' \in 1 .. 8
    BY <1>5 DEF Place
  <2>2. StopLeft' = (Phases - phase) * 8 + Place'
    BY <1>5 DEF StopLeft, Alive
  <2> DEFINE k == (Phases - phase) * 8
             now == Place
             then == Place'
  <2>3. k \in Nat /\ now \in 1 .. 8 /\ then \in 1 .. 8 /\ then < now
    BY <1>1, <1>2, <2>1
  <2>4. StopLeft = k + now /\ StopLeft' = k + then
    BY <1>2, <2>2
  <2> HIDE DEF k, now, then
  <2> QED
    BY <2>3, <2>4
<1> QED
  BY <1>3, <1>4, <1>5 DEF StopArrow

\* Nobody else moves the owner on, but a death and a restart.
LEMMA OthersWait ==
    ASSUME TypeOK, stopFlag, Environment \/ Ended \/ UNCHANGED vars
    PROVE  stopFlag' /\ StopLeft' = StopLeft
<1>1. UNCHANGED <<pc, phase, stopFlag>>
  BY DEF Environment, Send, Poll, Elapse, LeaseTaken, LeaseEnds, RaiseStop,
     Ended, vars, envVars
<1> QED
  BY <1>1 DEF StopLeft, Alive, Place

LEMMA StopStep ==
    ASSUME TypeOK, TypeOK', [Next]_vars, stopFlag
    PROVE  /\ stopFlag'
           /\ OwnerStep => StopLeft' < StopLeft
           /\ ~Restart => StopLeft' <= StopLeft
<1>1. StopLeft \in Nat /\ StopLeft' \in Int
  <2>1. /\ phase \in 1 .. Phases /\ phase' \in 1 .. Phases
        /\ pc \in PCs /\ pc' \in PCs
    BY DEF TypeOK, Numbers
  <2>2. Place \in 0 .. 8 /\ Place' \in 0 .. 8
    BY <2>1 DEF Place
  <2> QED
    BY <2>1, <2>2 DEF StopLeft
<1>2. OwnerStep => stopFlag' /\ StopLeft' < StopLeft
  BY StopArrows, StopFalls
<1>3. CASE OwnerStep
  BY <1>1, <1>2, <1>3
<1>4. CASE ~OwnerStep /\ Crash
  <2>1. StopLeft' = 0 /\ stopFlag'
    BY <1>4 DEF Crash, envVars, StopLeft, Alive
  <2> QED
    BY <1>1, <1>4, <2>1
<1>5. CASE ~OwnerStep /\ Restart
  BY <1>5 DEF Restart, RestoreWait, RunAgain, envVars
<1>6. CASE ~OwnerStep /\ (Environment \/ Ended \/ UNCHANGED vars)
  BY <1>1, <1>6, OthersWait
<1> QED
  BY <1>3, <1>4, <1>5, <1>6 DEF Next

----------------------------------------------------------------------------
(* Theorems.                                                               *)

\* What the owner writes to state.json, puts into the inbox and holds in its
\* hand stays of its type through every step, death and restart: the budget of
\* a phase is never above BUDGET_PER_PHASE, a chain of pauses never longer than
\* LIMIT_WAITS_S (inbox.py _apply, decision/actions.py).
THEOREM QuestionsTyped == Spec => []TypeOK
BY QInvariant, QProperties, PTL

\* However the phone, the files and the autopilot race, one answer to a question
\* is carried out, and its author was not told that it was refused
\* (inbox.take, autopilot_answer).
THEOREM OneAnswerIsCarriedOut == Spec => []OneAnswerPerQuestion
BY QInvariant, QProperties, PTL

\* An answer whose author was told "accepted" is carried out when its question
\* is closed, unless the owner dies or the autopilot stops a second skip in a
\* row (inbox.take, resolve_step).
THEOREM TheAcceptedIsCarriedOut == Spec => []AcceptedIsExecuted
BY QInvariant, QProperties, PTL

\* Agents and the autopilot continue a phase at most Budget times by answers the
\* journal knows, however often its owner dies (inbox._apply, refuse_budget).
THEOREM TheBudgetIsKept == Spec => []BudgetHolds
BY QInvariant, QProperties, PTL

\* A wait that was answered pays for LimitWaits pauses of its phase and no more,
\* whatever fails, crashes or is asked in between (limit_chain, wait_limit).
THEOREM AWaitPaysForItsPauses == Spec => []PausesAreAnswered
BY QInvariant, QProperties, PTL

\* A run that was asked to stop has a bounded number of steps left, and each
\* of its owner's takes one of them away (stop flag, wait_answer, resolve_step).
THEOREM AStopComesNearer == Spec => StopComesNearer
<1>1. TypeOK /\ TypeOK' /\ [Next]_vars
        => [stopFlag =>
              /\ stopFlag'
              /\ OwnerStep => StopLeft' < StopLeft
              /\ ~Restart => StopLeft' <= StopLeft]_vars
  BY StopStep
<1> QED
  BY <1>1, QuestionsTyped, PTL DEF Spec, StopComesNearer

=============================================================================
