----------------------------- MODULE Questions -----------------------------
(***************************************************************************)
(* Questions of a run and the answers to them: a phase halts with a        *)
(* question (decision/step.py), the owner waits for an answer from the     *)
(* phone, from an agent's or a person's file, or from the autopilot        *)
(* (autopilot.py, autopilot_answer.py), the inbox accepts one of them      *)
(* (inbox.py) and the owner executes it (decision/resolve.py,              *)
(* decision/actions.py).  The owner can die at any moment and be started   *)
(* again (resume/crash.py, resume/recover.py).                             *)
(*                                                                         *)
(* Abstractions:                                                           *)
(*  - what a phase does between two questions is one step: it ships, it    *)
(*    stops or it halts with one of Reasons (PhaseLoop has the inside);    *)
(*  - an answer is who, by which way, which action, whether its author was *)
(*    woken by the run and whether its text is acceptable;                 *)
(*  - a uuid is <<phase, question, i>>, i = 0 for the autopilot's own;     *)
(*    uuids are random, so the files are looked at in any order;           *)
(*  - a timeout is an event: over holds the windows that have passed;      *)
(*  - state.json is written at once; the `situational` skip is left out.   *)
(***************************************************************************)
EXTENDS Integers, FiniteSets

CONSTANTS
    Phases,     \* number of phases of the plan
    Seqs,       \* bound: questions asked in one phase
    Answers,    \* bound: answers sent to one question
    Crashes,    \* bound: deaths of the owner
    Duties,     \* bound: times an agent comes on duty
    Reasons,    \* the reasons phases halt with
    Offers,     \* the answers people and agents send (see OfferType)
    HasRelay,   \* a relay is configured (not NoopRelay)
    LossyAcks,  \* an acknowledgement to the relay may fail
    Budget,     \* BUDGET_PER_PHASE (3)
    LimitWaits  \* len(LIMIT_WAITS_S) (3)

ProviderReasons == {"provider_unavailable", "provider_auth", "provider_quota"}
Budgeted == {"more", "retry", "wait", "model"}

\* ACTIONS_BY_REASON
AllActions(reason) ==
    CASE reason = "user" -> {"answer", "skip", "stop"}
      [] reason = "stuck" -> {"more", "model", "skip", "stop"}
      [] reason = "fuse" -> {"more", "model", "skip", "stop", "ship"}
      [] reason \in ProviderReasons -> {"retry", "wait", "model", "stop"}
      [] reason = "secrets" -> {"allow", "retry", "skip", "stop"}
      [] reason = "judge_pending" ->
            {"retry", "skip", "stop", "accept", "reject"}
AskedReasons == ProviderReasons
                  \cup {"user", "stuck", "fuse", "secrets", "judge_pending"}
Actions == {"answer", "skip", "stop", "more", "model", "ship", "retry",
            "wait", "allow", "accept", "reject"}

Human == "human"
Agent == "agent"
Autopilot == "autopilot"

OfferType ==
    [who : {Human, Agent}, relay : BOOLEAN, action : Actions,
     woken : BOOLEAN,   \* its author is a session the run woke
     fit : BOOLEAN]     \* its text names a model, or text is allowed

ASSUME CountsAssumption ==
    /\ Phases \in Nat \ {0} /\ Seqs \in Nat \ {0}
    /\ Answers \in Nat /\ Crashes \in Nat /\ Duties \in Nat
    /\ Budget \in Nat \ {0} /\ LimitWaits \in Nat \ {0}
ASSUME ReasonsAssumption == Reasons \subseteq AskedReasons
ASSUME OffersAssumption ==
    /\ Offers \subseteq OfferType
    /\ \A o \in Offers : o.relay => HasRelay /\ o.who = Human /\ ~o.woken
    /\ \A o \in Offers : o.woken => o.who = Agent
ASSUME SwitchesAssumption == {HasRelay, LossyAcks} \subseteq BOOLEAN

Numbers == 1 .. Phases
QuestionIds == Numbers \X (1 .. Seqs)
Uuids == Numbers \X (1 .. Seqs) \X (0 .. Answers)
AutopilotUuid(id) == <<id[1], id[2], 0>>
QuestionOf(uuid) == <<uuid[1], uuid[2]>>

QuestionType ==
    [id : QuestionIds, reason : AskedReasons, actions : SUBSET Actions]
NoQuestion == [id |-> <<0, 0>>, reason |-> "none", actions |-> {}]

AnswerType ==
    [uuid : Uuids, who : {Human, Agent, Autopilot}, action : Actions,
     woken : BOOLEAN, fit : BOOLEAN]
NoAnswer ==
    [uuid |-> <<0, 0, 0>>, who |-> "none", action |-> "none",
     woken |-> FALSE, fit |-> FALSE]

Timers == {"human", "noRelay", "grace"}
Verdicts == {"none", "accepted", "refused"}
Statuses == {"running", "waiting_human", "waiting_agent", "waiting_limit",
             "judge_pending", "stopped", "done"}
PCs == {"phase", "asked", "wait", "take", "look", "auto", "autoTake",
        "apply", "pause", "ended", "dead"}

VARIABLES
    pc,         \* where the owner is
    phase,      \* the phase being run
    hand,       \* the answer the owner holds, or the autopilot's choice
    warned,     \* wait_answer: "no agent, I will decide myself" was sent
    over,       \* the windows that have passed for the open question
    restored,   \* the wait was taken up again after a crash
    because,    \* DecisionStep._reason: why the owner asks
    cache       \* the poller's copy of the rows for the open question

\* On disk or on the relay: what a crash leaves.
VARIABLES
    status,     \* state.json: status
    question,   \* state.json: the open question
    seq,        \* state.json: decision_seq
    savedReason,  \* state.json: reason, while a question is open
    applied,    \* state.json: applied_uuids
    journal,    \* state.json: decisions
    budget,     \* state.json: budget
    limitWait,  \* state.json: limit_wait, [phase, waits]
    files,      \* inbox/<uuid>.json
    rows,       \* answers the relay still delivers
    told,       \* inbox/<uuid>.result
    sent,       \* answers sent to each question
    leased,     \* an agent is on duty
    duties,     \* times an agent came on duty
    stopFlag    \* inbox/stop.json

\* History, for the properties only.
VARIABLES
    executed,   \* the answers that were carried out
    pauses,     \* pauses of waiting_limit in each phase
    chainStop,  \* the autopilot stopped the run: two phases in a row
    crashes     \* deaths of the owner

ownerVars == <<hand, warned, over, restored, because>>
relayVars == <<cache, rows, told>>
journalVars == <<applied, journal, budget>>
saved == <<seq, savedReason>>
askVars == <<status, question, saved, limitWait>>
envVars == <<sent, leased, duties, stopFlag>>
history == <<executed, pauses, chainStop, crashes>>
vars == <<pc, phase, ownerVars, relayVars, askVars, journalVars, files,
          envVars, history>>

NoLimitWait == [phase |-> 0, waits |-> 0]

Init ==
    /\ pc = "phase" /\ phase = 1
    /\ hand = NoAnswer /\ warned = FALSE /\ over = {} /\ restored = FALSE
    /\ because = "none" /\ savedReason = "none"
    /\ status = "running" /\ question = NoQuestion
    /\ seq = [n \in Numbers |-> 0] /\ limitWait = NoLimitWait
    /\ applied = {} /\ journal = {} /\ budget = [n \in Numbers |-> 0]
    /\ files = {} /\ rows = {} /\ cache = {}
    /\ told = [u \in Uuids |-> "none"]
    /\ sent = [id \in QuestionIds |-> 0]
    /\ leased = FALSE /\ duties = 0 /\ stopFlag = FALSE
    /\ executed = {} /\ pauses = [n \in Numbers |-> 0]
    /\ chainStop = FALSE /\ crashes = 0

----------------------------------------------------------------------------
(* Helpers.                                                                *)

\* question_actions: what the question offers once the budget is looked at.
OfferedActions(reason) ==
    LET full == IF reason = "judge_pending"
                   THEN {"retry", "skip", "stop"} ELSE AllActions(reason)
    IN  IF budget[phase] >= Budget
           THEN full \cap {"skip", "stop", "ship"} ELSE full

SpendsBudget(who, action) == who # Human /\ action \in Budgeted

\* Inbox._refuse and refuse_budget; for the phone also "text is switched
\* off", which is the same flag of the answer.
Refused(a) ==
    \/ /\ a.action \notin question.actions
       /\ a.who = Human => a.action \notin AllActions(question.reason)
    \/ a.action = "model" /\ ~a.fit
    \/ a.action \in {"allow", "accept", "reject"} /\ a.who # Human
    \/ a.woken /\ a.action \notin {"retry", "skip", "stop"}
    \/ SpendsBudget(a.who, a.action) /\ budget[phase] >= Budget

UuidsOf(answers) == {a.uuid : a \in answers}

\* _reject: the first result of an answer stays.
TellRefused(T, answers) ==
    [u \in Uuids |->
        IF T[u] = "none" /\ u \in UuidsOf(answers) THEN "refused" ELSE T[u]]

\* The single write of _apply: decisions, applied_uuids, budget.
Record(a) ==
    /\ applied' = applied \cup {a.uuid}
    /\ journal' = journal \cup {[uuid |-> a.uuid, who |-> a.who,
                                 action |-> a.action]}
    /\ budget' = IF SpendsBudget(a.who, a.action)
                    THEN [budget EXCEPT ![phase] = @ + 1] ELSE budget

\* Acknowledgements: the ones in got arrive and take their rows away.
Acked(answers, got) ==
    got \subseteq answers /\ (~LossyAcks => got = answers)

\* Answers to the open question.  Mutated form: the question is not compared.
Ours_Any(answers) == answers
Ours(answers) == {a \in answers : QuestionOf(a.uuid) = question.id}
Unread == {a \in files : a.uuid \notin applied}
Candidates == {a \in Ours(Unread) : ~Refused(a)}
\* What cached() shows.
Shown == {a \in Ours(cache) : a.uuid \notin applied}

\* write_stopped, and everything that ends a run.
EndRun(st) ==
    /\ pc' = "ended"
    /\ status' = st
    /\ question' = NoQuestion
    /\ cache' = {}

NextPhase ==
    /\ question' = NoQuestion
    /\ IF phase = Phases
          THEN pc' = "ended" /\ status' = "done" /\ cache' = {}
               /\ UNCHANGED phase
          ELSE pc' = "phase" /\ status' = "running" /\ phase' = phase + 1
               /\ UNCHANGED cache

----------------------------------------------------------------------------
(* Inbox.take: one read of state.json, one look at the cache and the files. *)
(* Each operator below is one of its ends; the answer it returns is a.      *)

\* The phone goes first.  The files of the question are rejected, all its
\* rows are acknowledged.
TakeRelay(a) ==
    /\ a \in Shown
    /\ ~Refused(a) /\ a.fit
    /\ Record(a)
    /\ \E got \in SUBSET Shown :
          /\ Acked(Shown, got)
          /\ rows' = rows \ got
          /\ cache' = cache \ got
    /\ told' = TellRefused(told, Ours(files))

\* A refused row ends the turn: the files are not looked at.
TakeRefusedRelay ==
    /\ \E a \in Shown :
          /\ Refused(a) \/ ~a.fit
          /\ \E got \in SUBSET {a} :
                /\ Acked({a}, got)
                /\ rows' = rows \ got
                /\ cache' = cache \ got
    /\ UNCHANGED <<journalVars, told>>

\* The first file that is not refused; the ones seen before it are rejected,
\* and so is every other answer to the question.
TakeFile(a) ==
    /\ Shown = {}
    /\ a \in Candidates
    /\ Record(a)
    /\ \E seen \in SUBSET (Unread \ Candidates) :
          told' = [TellRefused(told, seen \cup Ours(files))
                     EXCEPT ![a.uuid] = "accepted"]
    /\ UNCHANGED <<rows, cache>>

TakeNothing ==
    /\ Shown = {} /\ Candidates = {}
    /\ told' = TellRefused(told, Unread)
    /\ UNCHANGED <<rows, cache, journalVars>>

TakeNone == TakeRefusedRelay \/ TakeNothing
TakeOne(a) == TakeRelay(a) \/ TakeFile(a)

----------------------------------------------------------------------------
(* The phase between two questions.                                        *)

PhaseShips ==
    /\ pc = "phase"
    /\ NextPhase
    /\ UNCHANGED <<ownerVars, rows, told, saved, limitWait, journalVars, files,
                   envVars, history>>

\* A raised stop flag, a failed snapshot, a question that cannot be opened.
PhaseStops ==
    /\ pc = "phase"
    /\ EndRun("stopped")
    /\ UNCHANGED <<phase, ownerVars, rows, told, saved, limitWait, journalVars,
                   files, envVars, history>>

\* A provider failed again in a chain of waits: the next pause, no question.
\* Mutated form: one pause too many.
AutoWaits_OneMore(reason) ==
    /\ reason \in ProviderReasons
    /\ limitWait.phase = phase
    /\ limitWait.waits <= LimitWaits
AutoWaits(reason) ==
    /\ reason \in ProviderReasons
    /\ limitWait.phase = phase
    /\ limitWait.waits < LimitWaits

\* DecisionStep.halt.
PhaseHalts(reason) ==
    /\ pc = "phase"
    /\ ~stopFlag
    /\ pc' = "asked"
    /\ IF AutoWaits(reason)
          THEN UNCHANGED <<askVars, warned, over>>
          ELSE /\ seq[phase] < Seqs
               /\ seq' = [seq EXCEPT ![phase] = @ + 1]
               /\ question' = [id |-> <<phase, seq'[phase]>>,
                               reason |-> reason,
                               actions |-> OfferedActions(reason)]
               /\ status' = IF reason = "judge_pending"
                               THEN "judge_pending" ELSE "waiting_human"
               /\ savedReason' = reason
               /\ limitWait' = NoLimitWait
               /\ warned' = FALSE /\ over' = {}
    /\ restored' = FALSE /\ because' = reason
    /\ UNCHANGED <<phase, hand, relayVars, journalVars, files, envVars,
                   history>>

----------------------------------------------------------------------------
(* resolve_step up to the answer.                                          *)

\* A pause of waiting_limit; the phase is played again after it.
Pause(waits) ==
    /\ pc' = "pause"
    /\ status' = "waiting_limit"
    /\ question' = NoQuestion
    /\ limitWait' = [phase |-> phase, waits |-> waits]
    /\ pauses' = [pauses EXCEPT ![phase] = @ + 1]

Resolve ==
    /\ pc = "asked"
    /\ \/ /\ stopFlag
          /\ EndRun("stopped")
          /\ UNCHANGED <<limitWait, pauses>>
       \/ /\ ~stopFlag /\ question = NoQuestion
          /\ Pause(limitWait.waits + 1)
          /\ UNCHANGED cache
       \/ /\ ~stopFlag /\ question # NoQuestion
          /\ pc' = "wait"
          /\ UNCHANGED <<status, question, limitWait, pauses, cache>>
    /\ UNCHANGED <<phase, ownerVars, rows, told, saved, journalVars, files,
                   envVars, executed, chainStop, crashes>>

EndPause ==
    /\ pc = "pause"
    /\ pc' = "phase"
    /\ status' = "running"
    /\ UNCHANGED <<phase, ownerVars, relayVars, question, saved, limitWait,
                   journalVars, files, envVars, history>>

\* The top of the loop of wait_answer.
\* stop.json ends the run as a stop that was answered.
StopAsAnswer == EndRun("stopped")

WaitTop ==
    /\ pc = "wait"
    /\ IF stopFlag THEN StopAsAnswer
                   ELSE pc' = "take" /\ UNCHANGED <<status, question, cache>>
    /\ UNCHANGED <<phase, ownerVars, rows, told, saved, limitWait, journalVars,
                   files, envVars, history>>

Take ==
    /\ pc = "take"
    /\ \/ TakeNone /\ pc' = "look" /\ UNCHANGED hand
       \/ \E a \in cache \cup files :
             TakeOne(a) /\ hand' = a /\ pc' = "apply"
    /\ UNCHANGED <<phase, warned, over, restored, because, askVars, files,
                   envVars, history>>

\* Without a relay after NO_RELAY_GRACE_S, else after the warning's grace.
\* Mutated form: the grace is measured only without a relay.
AutopilotTurn_NoRelay(forAgent) == ~HasRelay /\ "noRelay" \in over
AutopilotTurn(forAgent) ==
    \/ ~HasRelay /\ "noRelay" \in over
    \/ forAgent /\ warned /\ "grace" \in over

\* Whom the question waits for now, and whether the autopilot's turn came.
Look ==
    /\ pc = "look"
    /\ LET forAgent == status = "waiting_agent" \/ "human" \in over IN
       /\ IF forAgent /\ status # "waiting_agent"      \* _to_agent
             THEN status' = "waiting_agent" /\ savedReason' = because
             ELSE UNCHANGED <<status, savedReason>>
       /\ \/ UNCHANGED <<leased, duties>>
          \/ /\ forAgent /\ ~leased /\ duties < Duties     \* wake()
             /\ leased' = TRUE /\ duties' = duties + 1
       /\ CASE ~leased' /\ AutopilotTurn(forAgent) ->
                   pc' = "auto" /\ UNCHANGED <<warned, over>>
            [] leased' \/ (~forAgent /\ ~AutopilotTurn(forAgent)) ->
                   pc' = "wait" /\ warned' = FALSE /\ over' = over \ {"grace"}
            [] OTHER ->
                   pc' = "wait" /\ warned' = TRUE /\ UNCHANGED over
    /\ UNCHANGED <<phase, hand, restored, because, relayVars, question, seq,
                   limitWait, journalVars, files, sent, stopFlag, history>>

----------------------------------------------------------------------------
(* The autopilot.                                                          *)

\* _last_autopilot_skip: the last skip in the journal is the phase before.
SkippedPhases ==
    {j.uuid[1] : j \in {d \in journal : d.who = Autopilot
                                         /\ d.action = "skip"}}
Chained ==
    phase - 1 \in SkippedPhases /\ phase \notin SkippedPhases

Choice ==
    LET spent == budget[phase] >= Budget IN
    CASE Chained -> "stop"
      [] because = "judge_pending" -> IF spent THEN "skip" ELSE "retry"
      [] because \in ProviderReasons -> IF spent THEN "skip" ELSE "wait"
      [] OTHER -> "skip"

\* choose(), and its answer put into the inbox like anybody's.
Choose ==
    /\ pc = "auto"
    /\ hand' = [uuid |-> AutopilotUuid(question.id), who |-> Autopilot,
                action |-> Choice, woken |-> FALSE, fit |-> TRUE]
    /\ files' = {f \in files : f.uuid # hand'.uuid} \cup {hand'}
    /\ pc' = "autoTake"
    /\ UNCHANGED <<phase, warned, over, restored, because, relayVars, askVars,
                   journalVars, envVars, history>>

Execute(a) ==
    executed' = executed \cup {[uuid |-> a.uuid, who |-> a.who,
                                action |-> a.action]}

\* `take(...) or ans`.  Mutated form: always the choice.
Final_Choice(a) == hand
Final(a) == IF a = NoAnswer THEN hand ELSE a

\* take() once more: what it accepts is executed, the choice when it accepts
\* nothing.  A chain of skips ends the run whatever it accepts.
AutoTake ==
    /\ pc = "autoTake"
    /\ \E a \in cache \cup files \cup {NoAnswer} :
          /\ IF a = NoAnswer THEN TakeNone ELSE TakeOne(a)
          /\ IF hand.action = "stop"
                THEN /\ pc' = "ended" /\ status' = "stopped"
                     /\ question' = NoQuestion
                     /\ chainStop' = TRUE
                     /\ Execute(hand)
                     /\ UNCHANGED hand
                ELSE /\ hand' = Final(a)
                     /\ pc' = "apply"
                     /\ UNCHANGED <<status, question, chainStop, executed>>
    /\ UNCHANGED <<phase, warned, over, restored, because, saved, limitWait,
                   files, envVars, pauses, crashes>>

----------------------------------------------------------------------------
(* Carrying out the answer.                                                *)

\* The phase is played again with what the answer brought.
GoOn ==
    /\ pc' = "phase" /\ status' = "running" /\ question' = NoQuestion
    /\ UNCHANGED <<phase, cache>>

\* A commit by accept or ship.  After a restored wait it ends the run.
Commits ==
    IF restored THEN EndRun("done") /\ UNCHANGED phase ELSE NextPhase

\* Actions that touch git and may fail: the run stops then.
MayFail ==
    \/ hand.action \in {"skip", "accept", "ship"}
    \/ hand.action = "retry" /\ because = "secrets"

\* judge_pending_action and _ship: actions that exist for one reason only.
Known ==
    /\ hand.action = "ship" => because = "fuse"
    /\ hand.action \in {"accept", "reject"} => because = "judge_pending"

Apply ==
    /\ pc = "apply"
    /\ Execute(hand)
    /\ \/ /\ hand.action = "stop" \/ MayFail \/ ~Known
          /\ EndRun("stopped")
          /\ UNCHANGED <<phase, limitWait, pauses>>
       \/ /\ hand.action = "skip"
          /\ NextPhase
          /\ UNCHANGED <<limitWait, pauses>>
       \/ /\ hand.action \in {"accept", "ship"} /\ Known
          /\ Commits
          /\ UNCHANGED <<limitWait, pauses>>
       \/ /\ hand.action = "wait"
          /\ Pause(1)
          /\ UNCHANGED <<phase, cache>>
       \/ /\ hand.action \in {"answer", "more", "model", "retry", "allow",
                              "reject"}
          /\ Known
          /\ GoOn
          /\ UNCHANGED <<limitWait, pauses>>
    /\ hand' = NoAnswer /\ because' = "none"
    /\ UNCHANGED <<warned, over, restored, rows, told, saved, journalVars,
                   files, envVars, chainStop, crashes>>

----------------------------------------------------------------------------
(* Death and restart of the owner.                                         *)

Crash ==
    /\ pc \notin {"ended", "dead"}
    /\ crashes < Crashes
    /\ crashes' = crashes + 1
    /\ pc' = "dead"
    /\ hand' = NoAnswer /\ warned' = FALSE /\ over' = {} /\ restored' = FALSE
    /\ because' = "none"
    /\ cache' = {}
    /\ UNCHANGED <<phase, rows, told, askVars, journalVars, files, envVars,
                   executed, pauses, chainStop>>

\* `tero resume`: the question is taken up again when the tree is still the
\* one it was asked about; else the phase is run again.
RestoreWait ==
    /\ pc = "dead"
    /\ status \in {"waiting_human", "waiting_agent"}
    /\ question # NoQuestion
    /\ pc' = "asked"
    /\ restored' = TRUE
    /\ because' = savedReason
    /\ savedReason' = "resume"
    /\ UNCHANGED <<phase, hand, warned, over, relayVars, status, question, seq,
                   limitWait, journalVars, files, envVars, history>>

\* Mutated form: the run starts with a full budget.
RunAgain_FullBudget ==
    /\ pc = "dead"
    /\ pc' = "phase"
    /\ status' = "running"
    /\ question' = NoQuestion
    /\ budget' = [n \in Numbers |-> 0]
    /\ UNCHANGED <<phase, ownerVars, relayVars, saved, limitWait, applied,
                   journal, files, envVars, history>>
RunAgain ==
    /\ pc = "dead"
    /\ pc' = "phase"
    /\ status' = "running"
    /\ question' = NoQuestion
    /\ UNCHANGED <<phase, ownerVars, relayVars, saved, limitWait, journalVars,
                   files, envVars, history>>

----------------------------------------------------------------------------
(* The environment: senders, the relay's poller, time, leases, the flag.   *)

Running == pc # "ended"
Alive == pc \notin {"ended", "dead"}

\* An answer to a question that was saved, maybe one that is closed by now.
Send(o, id) ==
    /\ Running
    /\ id[2] <= seq[id[1]]
    /\ sent[id] < Answers
    /\ sent' = [sent EXCEPT ![id] = @ + 1]
    /\ LET a == [uuid |-> <<id[1], id[2], sent'[id]>>, who |-> o.who,
                 action |-> o.action, woken |-> o.woken, fit |-> o.fit] IN
       IF o.relay THEN rows' = rows \cup {a} /\ UNCHANGED files
                  ELSE files' = files \cup {a} /\ UNCHANGED rows
    /\ UNCHANGED <<pc, phase, ownerVars, cache, told, askVars, journalVars,
                   leased, duties, stopFlag, history>>

\* Poller._poll: rows of another question and applied ones are acknowledged
\* (the relay deletes a row whatever the reason), the rest take() will see.
StaleRows == rows \ Ours(rows)
Poll ==
    /\ Alive /\ HasRelay
    /\ LET again == {a \in Ours(rows) : a.uuid \in applied} IN
       /\ \E got \in SUBSET (StaleRows \cup again) :
             /\ Acked(StaleRows \cup again, got)
             /\ rows' = rows \ got
       /\ cache' = Ours(rows) \ again
    /\ UNCHANGED <<pc, phase, ownerVars, told, askVars, journalVars, files,
                   envVars, history>>

Elapse(t) ==
    /\ pc \in {"wait", "take", "look"}
    /\ t \notin over
    /\ t = "grace" => warned
    /\ t = "noRelay" => ~HasRelay
    /\ over' = over \cup {t}
    /\ UNCHANGED <<pc, phase, hand, warned, restored, because, relayVars,
                   askVars, journalVars, files, envVars, history>>

LeaseTaken ==
    /\ Running
    /\ ~leased /\ duties < Duties
    /\ leased' = TRUE /\ duties' = duties + 1
    /\ UNCHANGED <<pc, phase, ownerVars, relayVars, askVars, journalVars,
                   files, sent, stopFlag, history>>

LeaseEnds ==
    /\ Running
    /\ leased /\ leased' = FALSE
    /\ UNCHANGED <<pc, phase, ownerVars, relayVars, askVars, journalVars,
                   files, sent, duties, stopFlag, history>>

RaiseStop ==
    /\ Alive
    /\ ~stopFlag /\ stopFlag' = TRUE
    /\ UNCHANGED <<pc, phase, ownerVars, relayVars, askVars, journalVars,
                   files, sent, leased, duties, history>>

----------------------------------------------------------------------------
PhaseStep == PhaseShips \/ PhaseStops \/ \E r \in Reasons : PhaseHalts(r)
WaitStep == Resolve \/ WaitTop \/ Take \/ Look \/ Choose \/ AutoTake
OwnerStep == PhaseStep \/ WaitStep \/ Apply \/ EndPause
Restart == RestoreWait \/ RunAgain
Environment ==
    \/ \E o \in Offers, id \in QuestionIds : Send(o, id)
    \/ Poll
    \/ \E t \in Timers : Elapse(t)
    \/ LeaseTaken \/ LeaseEnds \/ RaiseStop
Ended == pc = "ended" /\ UNCHANGED vars
Next == OwnerStep \/ Crash \/ Restart \/ Environment \/ Ended

Spec == Init /\ [][Next]_vars
Live == Spec /\ WF_vars(OwnerStep) /\ \A t \in Timers : WF_vars(Elapse(t))

----------------------------------------------------------------------------
(* Properties.                                                             *)

\* Every variable keeps its type; an autopilot's uuid is never sent by
\* anybody else.
TypeOK ==
    /\ pc \in PCs /\ phase \in Numbers
    /\ hand \in AnswerType \cup {NoAnswer}
    /\ warned \in BOOLEAN /\ over \subseteq Timers /\ restored \in BOOLEAN
    /\ status \in Statuses
    /\ question \in QuestionType \cup {NoQuestion}
    /\ seq \in [Numbers -> 0 .. Seqs]
    /\ {because, savedReason} \subseteq AskedReasons \cup {"none", "resume"}
    /\ limitWait \in [phase : 0 .. Phases, waits : 0 .. LimitWaits]
    /\ applied \subseteq Uuids
    /\ journal \subseteq [uuid : Uuids, who : {Human, Agent, Autopilot},
                          action : Actions]
    /\ budget \in [Numbers -> 0 .. Budget]
    /\ \A S \in {files, rows, cache} : S \subseteq AnswerType
    /\ told \in [Uuids -> Verdicts]
    /\ sent \in [QuestionIds -> 0 .. Answers]
    /\ leased \in BOOLEAN /\ duties \in 0 .. Duties /\ stopFlag \in BOOLEAN
    /\ executed \subseteq [uuid : Uuids, who : {Human, Agent, Autopilot},
                           action : Actions]
    /\ pauses \in [Numbers -> Nat]
    /\ chainStop \in BOOLEAN /\ crashes \in 0 .. Crashes

\* However the phone, the files and the autopilot race for a question, and
\* though its owner may die and ask it again, one answer to it is carried out,
\* and never one whose author was told that it was refused; the result of the
\* autopilot's own file is read by nobody (inbox.take, _reject_rest).
OneAnswerPerQuestion ==
    \A e \in executed :
        /\ \A f \in executed : QuestionOf(e.uuid) = QuestionOf(f.uuid) => e.uuid = f.uuid
        /\ e.who # Autopilot => told[e.uuid] # "refused"

\* Whoever was told "accepted" sees his answer carried out, unless the owner
\* dies or the autopilot ends the run because it would skip a second phase in a
\* row.
AcceptedIsExecuted ==
    \A u \in Uuids :
        told[u] = "accepted" /\ question.id # QuestionOf(u) =>
            crashes > 0 \/ chainStop \/ \E e \in executed : e.uuid = u

\* Agents and the autopilot together continue a phase at most Budget times
\* (BUDGET_PER_PHASE), whatever crashes in between, as far as the journal knows:
\* the autopilot carries out what the inbox has refused, too.
BudgetHolds ==
    \A n \in Numbers :
        Cardinality({e \in executed \cap journal : e.uuid[1] = n
                                      /\ e.who # Human
                                      /\ e.action \in Budgeted})
            <= Budget

\* The autopilot never puts two phases in a row into debt (autopilot.choose).
NoSkipChain ==
    LET skipped == {e.uuid[1] : e \in {x \in executed : x.who = Autopilot
                                                /\ x.action = "skip"}}
    IN  \A n \in skipped : n + 1 \notin skipped

\* One accepted `wait` pays for at most LimitWaits pauses, whatever fails,
\* crashes or is asked in between (limit_chain, wait_limit).
PausesAreAnswered ==
    \A n \in Numbers :
        pauses[n] <= LimitWaits * Cardinality({e \in executed :
                                    e.uuid[1] = n /\ e.action = "wait"})

\* When no agent stays on duty, every question is closed, by an answer, by the
\* autopilot or by the flag; and a raised flag ends the run, even while an agent
\* on duty keeps the question open (wait_answer), unless the owner dies.
QuestionsEnd ==
    /\ <>[]~leased =>
          \A id \in QuestionIds :
              (question.id = id) ~> (question.id # id \/ pc = "dead")
    /\ stopFlag ~> (pc \in {"ended", "dead"})

(* How many steps of its owner a run still takes, at most, once the flag is *)
(* up: the measure behind the second half of QuestionsEnd.                  *)
Place ==
    CASE pc = "take" -> 8
      [] pc = "look" -> 7
      [] pc = "auto" -> 6
      [] pc = "autoTake" -> 5
      [] pc = "apply" -> 4
      [] pc = "pause" -> 3
      [] pc = "phase" -> 2
      [] pc \in {"asked", "wait"} -> 1
      [] OTHER -> 0
StopLeft == IF Alive THEN (Phases - phase) * 8 + Place ELSE 0

\* A raised flag stays up, and from then on each step of the owner brings the
\* run nearer to its end, whatever people, agents and the relay send in the
\* meantime; only a restart after a death begins anew (hit, wait_answer,
\* resolve_step).
StopComesNearer ==
    [][stopFlag =>
          /\ stopFlag'
          /\ OwnerStep => StopLeft' < StopLeft
          /\ ~Restart => StopLeft' <= StopLeft]_vars
=============================================================================
