# TLA+ models of tero

tero runs a plan phase by phase: a *player* agent writes code, the tests are
the *gate*, a *judge* agent reads the result, a *tester* turns its findings
into red tests, and the phase is committed when the judge answers SHIP. A
person, a phone, other agents or a clock answer the questions in between; a
relay shows the run to a phone, and a watcher resumes it from there. These
modules model the parts of all this whose order matters, TLC checks them on
small instances, and TLAPS proves their safety properties for every value of
the constants.

## Inventory

| part | state it keeps | operations | hard behaviour | what makes it correct |
|---|---|---|---|---|
| phase loop (`phase.py`, `phase_ctx.py`, `progress_step.py`, `findings.py`) | round, crash and flat-verdict counters, open findings, escalated | round, ship, block, halt | five counters reset at different places; lack of progress seen at three | only approved trees are committed, every loop ends, stuck only after the escalation player |
| judge and verdict (`judge_step.py`, `verdict_step.py`, `pending.py`) | failures, needs_user attempts, compacted flag | call, retry, compact, SHIP, NO_SHIP, reopen, clean retry, judge_pending | the tree lies open to the judge for minutes | the judged tree is the gated and the committed one |
| tester (`tester_step.py`) | protected red tests by finding | write tests, refuse, fail | its tests must be red for a reason | protected tests guard open findings |
| snapshots (`snapshot.py`, `snapshot_step.py`, `git.py`) | refs `refs/tero/<run>/phase-NN-...`, `snapshot_ref` | take, verify, roll back, restore | every git command can fail, names are reused | work removed from the tree is in a ref |
| compaction (`compact.py`, `compact_step.py`) | compact_count, `compact.json` | request, claim, compact | the claim is a rename | bounded per round |
| stop and watchdog (`stop_flag.py`, `stop_step.py`, `watchdog.py`) | `inbox/stop.json` | raise, check, kill | raised at any moment | nothing new starts under a raised flag |
| gates (`gates.py`, `gate_scope.py`, `gate_lock.py`) | last green tree, scoped set | scoped and full gate | the scoped gate passes on a part of the suite | the committed tree saw the whole suite green |
| guards (`guards/*`) | protected files, the streak of a player that only reads | restore tests, plan, ignored files; kick | the agent edits what it must not | a broken suite never reaches the judge |
| situational escalation (`situation.py`, `situation_step.py`, `decision/opus.py`) | the history of the rounds | diagnose, Sonnet or Opus plays, Opus decides | the next player follows from what several rounds came to | only small findings are shipped over |
| debt (`debt.py`, `ship_debt.py`) | debt of `state.json`, `debt.md`, `debt_pending` | append, roll back, write again | two files and a commit, each of which can fail | a phase shipped with open findings has them in both files |
| run and phases (`session.py`, `run.py`) | plan marks, commits, `state.json` | run_phases, resolve, save | arguments of one start must not leak into another | each phase is committed or in debt, none twice |
| resume and recovery (`resume/*`) | `crash_resumes`, status, base, question | resume, crash resume, the refusals | the process dies between any two writes | resumes lose no phase, loop at most three times |
| questions (`inbox.py`, `decision/*`, `wait.py`, `human_key.py`) | waiting question, `applied_uuids`, `decisions` | open, take, refuse, apply, execute | relay, files, autopilot and timeouts race | one answer per question is accepted, and it is the one executed |
| autopilot (`autopilot*.py`) | windows, budget | choose, answer, wake | fires while an answer arrives | the budget of a phase, no chain of skips |
| lease (`lease.py`), wake (`wake*.py`), messages (`messages.py`) | lease file, wakes, `wake.log`, message files | wait, renew, take over, wake, read | hosts, agents, two threads of the owner and a clock | one agent on duty, one start per question, one reader per message |
| owner lock and detached start (`lock.py`, `detach.py`, `phone_answer.py`) | `run.lock`, pid in `state.json`, `resume-answer.json` | resume, take over, kill a hung owner | a pid read before the lock is used after it | only hung owners are killed |
| relay client (`src/relay/*`) | what was sent, the busy flag | post, pulse, flush, poll | a request is late while a newer one is sent | the phone sees the end, and in the end the truth |
| relay worker (`relay/src/*`) | tables of states, pushes, commands, devices, codes | POST /state, cron, notify, pair, subscribe, revoke, commands | every await lets another request run, a worker dies | no older state, one push per silence, one device per code |
| phone page (`pult.js`) | - | lamp, resume button | marks and states are of different ages | it shows a dead owner as dead |
| watch service (`src/watch/*`) | marks, the running attempt | take, execute, retry, report | BUSY, a dead watcher, a lost reply | a command is not lost while it is worked on |
| agents and providers (`agents.py`, `providers/*`) | attempts, processes, pipes | call, retry, repair, kick, sweep | timeouts, silence, children that outlive the CLI | every call returns and leaves no process |
| hud, menu, commands, prompts, reports, exam | display and text | - | - | - |

How they interact: `run.py` takes the run lock and calls `session.run_phases`,
which calls `phase.run_phase` for each phase and `decision.resolve` for what
comes back. The phase calls agents (subprocesses), git and the test runner
synchronously. Everything that happens at the same time goes through files:
`inbox/*.json` (answers, messages, stop, compact), `state.json` (the run's
record, read by the relay threads and by the next process), the lease and the
run lock. Threads of the run process poll rows from the relay and post states
to it. The worker of the relay keeps tables that phones, the owner and the
watcher of the machine read and write; the watcher starts `tero resume
--detach`, whose child becomes the next owner.

## Modules

| module | what it is | composed with |
|---|---|---|
| `PhaseLoop` | one phase: rounds of player, gate, judge and tester, and every end of it | implements `Review` |
| `Review` | what a phase promises of the tree it works on | |
| `Situation` | a phase with situational escalation: history, Opus, debt | |
| `Session` | a run as a sequence of phases over several processes | |
| `Questions` | the questions of a run: answers, inbox, autopilot, effects, deaths | |
| `Hosts` | lease, waits of hosts, wakes, messages, poller | implements `Duty` |
| `Duty` | what the lease file promises | |
| `Commands` | a resume from the phone: relay, watcher, lock, detached owner | implements `Order` |
| `Order` | what the relay promises of the commands of a run | |
| `Push` | a call of `notify` in the worker, statement by statement | |
| `Relay` | pusher, row of states, cron, pushes, marks of the watcher, lamp | extends `Push` |
| `Devices` | pairing, subscriptions, revocation, text pushes | extends `Push` |
| `Agents` | one call of a role: processes, pipes, retries, watchdog | |
| `MC*` | instances for TLC: answers that are sent, starts, symmetry | |
| `*_proofs` | theorems about the module, for every value of its constants | |

The models are cuts through one program, each with the others reduced to what
it needs. `PhaseLoop` sees a question as an end of the phase. `Questions` has
what lies between such an end and the next start and sees a phase as one step.
`Session` has the order of phases and what one start hands to the next.
`Situation` has what `PhaseLoop` leaves out, the mode in which the history of a
phase decides, and leaves out what `PhaseLoop` has, the git work of a round.
`Hosts`, `Commands` and `Relay` are the outside of an owner whose work is one
step there; `Agents` is one call inside of it.

### PhaseLoop, Review

The owner is sequential, so its place in the code is one variable, `pc`: `top`
and `launch` are the head of the round loop, `player`, `protect`, `gate`,
`judge` and `tester` the calls, `fullGate` and `ship` the way to a commit,
`halt` and `pending` the ends being made. One action is everything the code
does from one call of an agent, of the tests or of git to the next. `st.*` of
the phase context are variables of the same meaning, `refs` is the namespace
`refs/tero/<run>/phase-NN-...`, `snapRef` is `snapshot_ref` of `state.json`. A
tree, a git tree object and a commit are members of `Trees`. Agents answer
anything their callers handle and leave any tree. `gated`, `approved`,
`fullOk`, `halted` and `escPlayed` are history that only properties read.
`start` says how the phase is entered: from its checkpoint, judge first, gate
first, on a ref to be judged again, in a grace round, in a chain of waits.

`Review` knows nothing of rounds, agents, counters and refs. Its `stage` is
`work` until the gate lets a tree through, `gated` while the judge has it,
`approved` from SHIP to the commit, and `over`; `candidate` is the tree this is
about. Gate, approval and commit follow each other on one tree, and a question
about a verdict that did not come (`judge_pending`) names the gated one. Where
the last run of the tests may write files in the scoped mode
(`GateWrites /\ Scoped`), the tree committed may be another one: `Rewrites`.
`PhaseLoop` implements it (`ReviewHolds`) under `stage <- ReviewStage`, a
function of `pc`, and `candidate <- ReviewCandidate`, which is `gated` or
`approved`: whatever sends a round back to the player (a NO_SHIP, a red gate of
the whole suite) and whatever ends it drops the candidate.

### Situation

A finding is the round it was found in, a number and a level; a row of `hist`
is what `diagnose` asks of a round. `Judges` is a NO_SHIP and the diagnosis
that follows it: another round, Opus, the owner, or a way to ship. `Gate`,
`CommitItem`, `CommitMd` and `Committed` are the steps of a ship with debt,
between which each write may fail and be repeated by the next attempt. `owed`
and `forgotten` are history: what the judge's last verdict on the tree has left
open in it, and what of that the present runner has never heard of, because the
phase went on after a question, or its owner died (`TreeStays`).

### Session

`index`, `firstArgs`, `pending`, `judgeIndex`, `phaseCfg` and `baseCfg` are the
locals of `run_phases`; `status`, `reason`, `phaseIndex`, `base`, `ref`,
`question`, `crashes`, `crashPhase`, `debt` and `answerPhase` are fields of
`state.json`, and survive `Die`. The branch is the set of phases committed on
it, so a checkpoint, `base` and the head are sets and `git reset --hard` is an
assignment. A tree is the set of phases its plan marks as done: `marks` is the
working tree, `refMarks` the tree of the snapshot `ref`, `plan` what the loop
has read of it, `treeSha` the tree at a restored question. `accept` and `ship`
are the steps of the code: `Land` commits, `CloseLanding` closes the question in
`state.json`, `EndRun` ends the run a restored question belongs to, and `Die` may
come between any two. `lost` (phases whose commit a rollback took away), `torn`
(phases whose owner died between `Land` and `CloseLanding` of an `accept`) and
`inRow` are history. The actions of `Resume` are the
paths of `tero resume`: a stopped run, a pending judge, a run that died in a
question, after a commit, or anywhere else, and the refusals.

### Questions

`pc` is where the owner is: the loop of `autopilot.wait_answer` cut at the
points where another process can come in between (`wait`, `take`, `look`,
`auto`, `autoTake`), `apply` for `decision.resolve`, `pause` for
`waiting_limit`, `dead`. The relay is external: `rows` are what it still
delivers, `cache` is the copy the poller thread took, and an acknowledgement
can be lost. The windows of the autopilot are events (`Elapse`). Everything
`take` does under the state lock is one action; the call that carries an answer
out is another one, because the code does it after the lock is released and in
another write.

### Hosts, Duty

The processes are the owner's two threads (`call`: one place each in `wake.py`),
the poller (`poll`), and hosts and agents (`wait`). `mutex` is `wake._LOCK`;
`lease`, `log` (`wake.log`), `file` (messages), `woken` and `decided`
(state.json) are the files. `granted`, `started`, `unseen` (the started agents
whose wake has not come to know them), `stored` and `printed` are history. A
wake of another run is seen as one step, the one under the flock of `wake.log`,
with a time taken earlier (`OtherWakes`). `Duty` knows only who the lease names
and until when each process was granted it: `LeasePassesOn` is its specification
under `holder <- lease.pid`.

### Commands, Order

`cmd` is the table of commands, `job` an attempt of the watcher, `proc` the
processes of a resume with their places in `run.resume`, `holder` the run lock,
`state`, `saved` and `file` are `state.json` and `resume-answer.json`. `used`
counts the events whose number is bounded, `begun` and `victims` are history.
`Order` sees of all this the status of each command.

### Push, Relay, Devices

A request is in a slot from its sending to its end in the worker; a step is a
statement of the database, and `note[s]` is the call of `notify` it may make.
`Relay` has the owner's pusher with its two threads (`send`), the row with its
age and its silence, the marks of the watcher, and what the phone page makes of
both (`Light`, `Button`, `Takes`). `Devices` has `pair_codes`, `pair_attempts`,
`devices` and `push_subs`.

### Agents

An attempt has three processes: the CLI, a job of its group and a shell with a
session of its own, each of which may hold its pipes. `pc` is the place of the
call in `run_subprocess_jsonl`, `sweep` and `_call`, `ends` what the attempt
comes to, `hunt` what the watchdog has told to end, `blind` the processes whose
environment the sweep cannot read: those that hide it (`Hiders`), and all of
them when the list of processes cannot be read (`SweepFails`).

## Runs

The state counts are of complete searches; the violation run stops at its
counterexample.

| run | configuration | distinct states | properties | what happens in it |
|---|---|---|---|---|
| `phase_work` | PhaseWork | 1.5 M | `ShippedIsApproved`, `HaltKeepsWork`, `ReviewHolds`, `StopStartsNothing` | every kind of start, a tester, a compaction, crashes of the player, failing snapshots, tests that write files, a stop flag at any moment; what happens to a tree is a review |
| `phase_escalate` | PhaseEscalate | 262 k | `ShippedAfterFullGate`, `EscalatedBeforeStuck`, `Terminates` | `gate_scope = changed`, an escalation player, no questions: the whole suite was green on what is committed, and the counters bound every loop |
| `answers` | Answers | 373 k | `OneAnswerPerQuestion`, `AcceptedIsExecuted`, `BudgetHolds`, `PausesAreAnswered`, `QuestionsEnd` | a phone with lost acknowledgements, an agent's file, the autopilot, a lease, a provider that fails, a stop flag and a death of the owner race for two questions |
| `answer_chain` | AnswerChain | violation | `NoSkipChain` | a skip the inbox refused is carried out and not journaled, so the next phase is skipped, too |
| `session_work` | SessionWork | 4.8 M | `PhasesInOrder`, `CommittedOnce`, `ArgsAreOwn`, `CrashLoopEnds` | three phases over four processes, with and without decisions: questions, debt, stops, deaths at any step (between the commit of an `accept` and its last write, too), every kind of resume |
| `hosts_duty` | HostsDuty | 1.5 M | `StartedOnce`, `OnlyOneOnDuty`, `LimitsHold`, `LeasePassesOn` | two hosts wait, answer and die while the owner wakes agents for a question in one thread and for `tero wake`, twice, in the other, and another run wakes one, too; the lease does what `Duty` allows |
| `hosts_mail` | HostsMail | 1.8 M | `NoOrphans`, `ReadOnce` | a message and a wake request of the phone, and one of these: a death of the owner, a lost acknowledgement, a failing write or launch, an agent whose pid is not read |
| `commands` | Commands | 945 k | `NotLostWhileWatched`, `DoneMeansOwner`, `TextKept`, `OnlyTheHungAreKilled`, `OrderLife` | two phones post resumes while the owner works, hangs or dies, another run holds the lock and the watcher dies; commands live as `Order` says |
| `relay` | Relay | 433 k | `FinalIsShown`, `SilenceIsTold`, `StateNeverOlder`, `StateCatchesUp`, `PhoneIsRight`, `AskIsPushed` | states, a question and the end are posted while one request is lost, late or unanswered, a worker dies or a push fails |
| `devices` | Devices | 202 k | `UsedCodeHasItsDevice`, `TriesAreLimited`, `NoPushToRevoked` | right, used, old and wrong codes, subscriptions, revocations, resets and texts, two requests at a time, one of which dies |
| `agents` | Agents | 1.5 M | `NothingLeft`, `CallEnds` | a CLI with children that is silent, hangs or closes its pipes early, a shell that hides from the sweep, a sweep that sees nothing, a failing network, a player that only reads, a stop |
| `situation` | Situation | 4.5 M | `DebtIsSmall`, `OpenIsDebt` | judge, Opus, the owner, red gates, secrets, failing writes and a death of the owner anywhere |

### Bounds and why they are enough

`PhaseLoop`: two trees besides the base let an agent change what was gated,
approved or saved into something else, which is all a violation of a tree
property needs; the trees are symmetric. One finding lets the set of open
findings grow, shrink and stay. `phase_work` has limits of 2 for the failures
of the judge, so that the code below and at the limit is reached, and a K_max
of 1, with which the first flat verdict ends the phase. `phase_escalate` has a
K_max of 2 and calls the escalation player for lack of progress.

`Questions`: one phase with two questions, so that an answer, a budget and a
chain of waits pass from one question to the next; one answer of each way; a
budget of 1 so that it is used up; one death. `answer_chain` needs two phases.

`Session`: three phases, so that one may lie before and one after the one that
dies; three deaths are one more than the crash counter allows; three questions.
In this instance a commit is lost, an owner dies inside `accept`, and both lead to
a phase that is worked on though it is committed. `ArgsAreOwn` holds in it without
`CommitsStay`; with a fourth death it does not (Observations).

`Hosts`: `hosts_duty` has two hosts and two agents for the lease, and three
reasons to wake one within a gap: a question in the owner's main thread, `tero
wake` in its poller, up to twice (`Terminal`: until one is refused, not twice in
a unit of time), and a wake of another run (`OtherRuns`). The gap, the order of
two threads and the daily number of manual wakes all have events to go wrong
with; the one of automatic wakes is the same comparison with another number and
is not reached. It has no message, no failure and no death of the owner, so for
these `StartedOnce` and `LimitsHold` rest on their theorems. `hosts_mail` has
these, one at a time (`MaxFaults`), with one host and one agent. The clock has two values, so that a lease
expires and a gap ends, though not a day: the theorems are for any times.

`Commands`: two commands of two phones and three processes, so that two resumes
race for the lock while a third process has hung; a command may grow as old as
the relay's limit. `Relay`: two requests at a time, so that an older one comes
after a newer one and two crons meet; two states besides the first; one fault.
`Devices`: six requests, two at a time, two codes and two devices, one request
that dies. `Agents`: one retry of each kind, a kick after two tools; the
shell may hide its environment (`Hiders`), the job of the group need not.
`Situation`: three rounds and one more, two findings at a time, one write that
fails, one death; the judge says blocker or nit, and a nit that jev calls minor
is minor.

None of the proofs depends on these bounds.

### Fairness

- `phase_escalate`: weak fairness of the owner's `Step`. Every call of an agent
  and of the tests has a timeout, git and file operations return, and no step
  inside a phase waits for a person; which result a call has stays open.
- `answers`: weak fairness of the owner's steps and of each window of the
  autopilot, which are monotonic clocks read in a polling loop. Nothing is
  assumed of people, agents, the phone, the relay or a restart: `QuestionsEnd`
  is therefore under "no agent stays on duty", since an agent that renews its
  lease for ever keeps a question open by design.
- `relay`: weak fairness of the pusher's loop, of its exit, of the handlers of
  the worker and of the watcher's cycle; strong fairness of the sending of a
  request, for which the worker has room again and again, and of time, which
  passes between requests. Requests may be lost, though not for ever: their
  faults are bounded.
- `agents`: weak fairness of the event loop, of the reaping of a dead child and
  of the timeout of an attempt. Nothing is assumed of the processes: they may
  be silent, hang, or keep the pipes open.

## What is proved

Every proof module follows one argument. The property is not inductive by
itself: an inductive invariant, made of named parts, strengthens it; TLC
checked each part on a run first; a lemma per action, or per group of actions
with the same effect, shows that the part is kept; the property is a conjunct
or a consequence. Where an action does much, a *frame* lemma says first which
rows it moves and how, and the lemmas about the parts cite that.

| module | theorems | inductive invariant, and why it is needed |
|---|---|---|
| `PhaseLoop_proofs` | `ShipsOnlyTheApproved`, `HaltsKeepTheWork`, `AsksAboutTheGated`, `PhaseCorrect`, `Typed` | `PhaseInv`: what each place of the round knows of tree, ref and gate (`JudgesGated`, `EntersOnGated`, `PendsOnGated`, `ShipsGated`, `SnapRefLives`). Gate, judge and commit are minutes and several agents apart, so a property of the commit needs the knowledge of the four places before it. |
| | `ShipsAfterTheFullGate` | `FullGateKept`: the tree remembered as green was green, and the place before the commit has a green tree. |
| | `StuckOnlyAfterEscalation` | `EscalationKept`: once the rounds call for the escalation player, it has played or is the next to play. |
| | `AStopStartsNothing` | an action property, from types: which places a step may lead to under the flag, and which repeats within a call each count. |
| | `PhaseImplementsReview` | `PhaseInv`: what it says of a place is what makes the step from there a step of the review. One lemma per group of actions (`StaysAtWork`, `SentBack`, `GateReviews`, `JudgeReviews`, `EndReviews`, ...) names the step of `Review`, or the stutter. |
| | `TheJudgesPatienceEnds`, `APhaseGoesOn` | `PatienceKept` with the types: the judge is called only while its failures and its questions are below their limits, so each term of `StepsLeft` is a natural number. |
| | `NoProcessIsLeft`, `CallTyped` | `LeftInv`: `NothingLeft` of `Agents` and `GroupGone` (from the reaping of the CLI on, nothing of its group lives; of the rest the sweep takes what it sees). Types. |
| | `ACallGoesOn` | an action property, from types: `CallBounded` says that each term of `CallLeft` is a natural number. |
| `Situation_proofs` | `ADebtIsSmall` | `SmallInv`: what is pending is as small as what is written, and a write continues its own item. |
| | `WhatIsOpenIsDebt` | `OweInv`: what is owed and not forgotten is open in the runner's state; while the phase is shipped, it is in both files or in what is still to be written to them. |
| `Session_proofs` | `NoPhaseIsPassedOver`, `NoPhaseIsDoneTwice`, `CrashLoopsEnd`, `SessionCorrect`, `Typed` | `SessionInv`: `BranchBehind` (what a phase may roll back to is on the branch), `PastOthers`, `AtWork`, `TreesAgree` (a tree or ref lacks the mark of a commit only for the phases `Astray`, which are `torn` or `lost`), `LeftOnUndone` (what a process left that ended inside a phase names an undone one, or one `Astray`), `Counted`. A death takes everything but the disk: the heart of the proof is that what `state.json` says is enough for the next process to stand where the last one may have stood. |
| | `AnswersStayWithTheirPhase` | `ArgInv`: the answer kept in `state.json` belongs to the phase named there, or to one that lies behind every rollback. |
| `Questions_proofs` | `OneAnswerIsCarriedOut` | `AskInv` (what the owner holds answers the open question), `MailInv` (a row and a file are never one answer, only authors of files are told), `DoneInv` (what was carried out answered a closed question, each its own). |
| | `TheAcceptedIsCarriedOut`, `TheBudgetIsKept`, `AWaitPaysForItsPauses`, `QuestionsTyped` | `AcceptInv`, `BudgetInv` (what the journal spent was taken from the budget), `PauseInv` (pauses and what is left of their chain are paid for by waits). |
| | `AStopComesNearer` | an action property, from types and the arrows of `pc`: with the flag up no arrow leads back to a wait. |
| `Hosts_proofs` | `HostsImplementDuty`, `OneAgentOnDuty` | `IInv`: times of calls lie in the past, the lease's holder was granted what the lease says, who was never started was never granted anything. `HolderInv`: who is on duty is named by the lease. |
| | `OneAgentPerQuestion` | `MutexInv` (one call is inside `wake._LOCK`) and `StampInv` (nothing was started before its stamp, and a call that goes on found none). |
| | `NoAgentIsLeftAlone`, `WakesKeepToTheirLimits`, `MessagesAreReadOnce` | `AgentInv` (an agent its wake knows of is in a call, told to end, or granted and named); `LogInv` (what was started is in the log under the time of its call); `FileInv` (who renamed a message's file has the message alone). |
| `Commands_proofs` | `CommandsImplementOrder`, `CommandsAreNotLost` | `IInv`: one command is open, and the age of a command is paid for by the attempts made at it. |
| | `OnlyTheHungDie`, `DoneHasItsOwner`, `TextsAreKept` | `HungInv` (who is about to be killed has hung, as long as it exists), `AttemptInv` (an attempt is followed to its process and that one to `state.json`), `TextInv` (only its own process may take the text of the command that is attempted). |
| | `OneProcessOwnsTheRun` | `OneOwner` itself, over the types: a process passes the lock only when nobody holds it, only who holds it writes its pid, and a kill takes the lock and the place from one process at once. |
| `Relay_proofs` | `TheEndIsShown` | `NewestInv` (no state is newer than the file's), `SendInv` (a thread waits for one request, which carries at least what the thread will remember as sent), `FinalInv` (what is remembered as sent has arrived, unless its sending failed). |
| | `ASilenceIsToldOfOnce` | `ReadInv`, `CallInv` and `CronInv`: one run of the cron tells of a silence, the row is as that run has marked it or somebody has posted since, and `told` says whether its call has delivered. |
| | `TheRowNeverGoesBack`, `RelayTyped` | every step keeps the state of the row or takes that of a request that is not older; types. |
| `Devices_proofs` | `ACodeMakesOneDevice`, `WrongCodesAreLimited`, `TheRevokedGetNothing` | `PairInv`; `TryInv` (every wrong code, and every request that may still look one up, has an attempt of its own in the table); `NoteInv`. |

Every safety property that a run checks, and the three refinements (`Duty`,
`Order`, `Review`), are proved. The theorems rest on the named assumptions of the modules and on nothing else:

- limits are natural numbers, or positive where the code's are;
- `TreesAssumption`, `PushAssumption`, `PidsAssumption`, `KeysAssumption`: a
  name for nothing is none of the things, hosts, agents and rows are different;
- `StartsAssumption`: a phase is entered as `session` and `resume` enter it;
- `OffersAssumption`: only people answer by the relay, and only agents are woken;
- `TimesAssumption`: among others that the gap between two wakes is no longer
  than the day their number is counted in (`MIN_GAP_S`, `DAY_S`);
- `RelayAssumption`: `Reasons` holds the reasons POST /state and the cron push for.

Where the code does less than one would like of it, the property says so itself,
and the Observations say why: `CommittedOnce` exempts a phase whose owner died
inside `accept` and one whose commit was lost, `OpenIsDebt` the findings a
skipping runner has never heard of, `NoOrphans` an agent its wake has not come
to know, `NothingLeft` a process that neither the group nor the sweep reaches,
`StopStartsNothing` the repeats within a call and one run of the whole suite.
`ArgsAreOwn` speaks of states in which no commit was lost (`CommitsStay`) and no
owner has died inside `accept` behind its commit (`torn = {}`), and
`AcceptedIsExecuted` of an owner that has not died.

Only model-checked:

- the liveness properties `Terminates`, `QuestionsEnd`, `StateCatchesUp`,
  `PhoneIsRight`, `AskIsPushed` and `CallEnds`: liveness under fairness, and the
  ENABLED in it, are beyond the prover (what is proved of three of them is
  below). `CallEnds` is for children of which only
  the job holds the CLI's pipes (`Heirs`): with a shell that holds them the call
  may wait for ever (Observations);
- `NoSkipChain`, which is violated.

### How far the proofs go towards liveness

That a loop ends has two halves: each step brings its end nearer, and steps are
taken. The second one is fairness and ENABLED, and stays with TLC. The first one
is an action property about a measure, a natural number, and is proved for all
limits, where TLC sees a few:

- `PhaseGoesOn` (for `Terminates`): `StepsLeft` pays for a round with
  `round_limit`, for a compaction with its limit, for a call of the judge with
  the failures, questions and the compaction it has left. Five counters are
  reset at different places; the theorem says that no reset gives back what
  another one has taken.
- `CallGoesOn` (for `CallEnds`): `CallLeft` pays for an attempt with the network
  retries and the one other retry of a prompt, for a prompt with what may still
  follow it: a kick, a repair, and a kick of that. A stop and the processes do not make it larger.
- `StopComesNearer` (for the second half of `QuestionsEnd`): once the flag is up
  it stays up and `StopLeft` falls with each step of the owner. Without the
  flag there is no such measure, because an agent on duty keeps a question open.

These three, `PendingIsGated` (a consequence of `ReviewHolds` that is stated by
itself) and `OneOwner` are stated by theorems only. TLC has searched the
instances of the runs above for a violation of each before it was proved; no
run repeats that.

## What the run of a violation shows

`answer_chain`: when a phase has spent its budget on waits for a provider, the
autopilot's `skip` is carried out although the inbox refused it
(`autopilot_answer.py:90`, `take(...) or ans`); the journal does not show it, so
the next phase is skipped, too. `tero-pult-design.md:110` says that the
autopilot does not skip phases in a chain.

## Observations

Other things the models keep as the code has them. A reader of a property
should know them; where a document or a comment says otherwise, it is named.

Phases
- A clean retry's ref is overwritten by a halt of the same round, though
  `verdict_step.py:193` says the old ref stays.
- Under a raised stop flag three things still start (`StopStartsNothing` names
  them, the last one is a start and not a step to it): the repeats inside one call of
  the judge or of the player, whose loops look at the flag only after the call
  (`stop_step.py:58`); the whole suite after the SHIP of a judge the phase was
  entered with, since `_after_judge` looks at the flag behind that gate
  (`phase.py:317`) while the round looks before it, too; and the gate a
  `gate_first` phase begins with.

Runs and restarts
- `base` of `state.json` is stale until the first snapshot of a phase: a
  question asked before it, a death and a stop roll the branch back to before
  the commit of the phase before (`run.py:191`, `resume/step.py:247`). This is
  why `ArgsAreOwn` supposes `CommitsStay`.
- A restored question that is answered with `accept` or `ship` ends the run as
  done with phases left; a model chosen in one stays for all later phases
  (`baseCfg`).
- The judge-first index of a pending judge is not cleared (`session.py:196`).
- A phase in debt is run again when the owner dies right after the skip.
- A crash loop is refused with `--force`, too.
- `accept` commits first and closes its question last (`actions.py:79-86`). A
  death in between leaves `judge_pending` behind a commit, and `_resume_phases`
  (`run.py:274`) has no look at `phase_shipped`, as the other ways of a resume
  have: it restores the ref, whose plan has no mark of the phase, and the phase is
  judged and committed again. A rollback of that second time goes to a base
  from before the commit and loses it; a restart after it may hand the answer of
  this phase to the next one. This is `torn`.
- Once a rollback has lost a commit, trees and branch disagree about that phase,
  and it may be worked on with its commit in place again. This is `lost`.
- `accept` and `host_ship` mark the plan before the commit and do not restore it
  when the commit fails (`actions.py:75`).

Questions
- What a refused or displaced choice of the autopilot does is neither journaled
  nor taken from the budget: `BudgetHolds` counts what the journal knows.
- An owner that dies between the acceptance (`inbox.py:236`) and the effect
  loses an accepted answer.
- A restored wait overwrites its reason with `resume` (`recover.py:254`), so a
  second restore answers for the wrong one.
- A person's answer that arrives while the autopilot chooses is accepted and
  told so, and the check for chains ends the run all the same
  (`autopilot_answer.py:44`): the `chainStop` of `AcceptedIsExecuted`.
- Without a relay the autopilot waits 600 s, before `human_timeout` (900 s).

Escalation and debt
- The findings of a phase live in its runner, and not longer. A phase that goes on
  after a question keeps its tree (`actions.py:198`; only the retry after secrets
  takes it back) and gets a new runner with an empty `_State`
  (`phase.py:158`); so does a question that is resumed after a death
  (`resume/step.py:238`), whose runner has no tests either. NO_SHIP, the fuse,
  `more`, a halt before the judge speaks again, and a skip ships what the judge
  had left open, and no file has it. `OpenIsDebt` promises the rest (`forgotten`).
- `record_situation` diagnoses with the default `sonnet_max`, `next_player` with
  the configured one: with 1 a stuck phase reaches no Opus before the fuse,
  with 3 Opus comes before the third Sonnet.
- Opus may be called twice in a phase (`situation.py:91` says once): after a
  red gate of its ship, or when the owner said `more`.
- `max_debt` can be exceeded when a commit failed and Opus appends to what is
  pending; a pending item may name a finding that was fixed meanwhile; a death
  between the debt's commit and the ship leaves the debt of an unshipped phase.
- Findings that hold a secret are never verified as written, so such a phase
  does not ship with a debt.

Agents of a run, commands
- A crash between the launch of a wake and its decision wakes the same request
  again after the gap.
- An agent that was started is left to itself when its pid does not come within
  5 s, its start time cannot be read, or something raises before the lease
  (`wake.py:139-153`, `314-321`, `272`): the wake is refused and nobody is told to
  end. `NoOrphans` is about the others.
- A host that dies between `host_gone` and `take_unread` leaves a process that
  takes messages (`wait.py:120`). `lease.extend` has no caller.
- A failed write of the phone's answer goes unnoticed (`phone_answer.py:85`,
  `state.py:53`), and `run_resume` passes the text it peeked at, so the guard
  for an answer that was never kept does not apply (`cli_entry.py:139`).
- `resume` acts on a state it read before the lock (`run.py:184`).
- The watcher's timeout equals the time the detached start waits to become
  ready (`service.py:54`), so a command may be reported as failed although its
  owner goes on; the text of a command that was given up in this way may be
  lost (`late` in `TextKept`).
- An update of `state.json` is one step in these models: list fields (wakes,
  decisions) are computed from a read made before the lock (`state.py:53`).

Relay
- "One reason at most once in 30 minutes" (`push.js:270`): a second push in the
  window is possible when the log is read before another one's delivery and the
  claim is taken after its release. A second silence in the window is never
  told of, nor one whose worker died between claim and push.
- A failed push of the last state is not repeated by `flush` (`pusher.py:122`).
- `POST /state` does not reset the marks, which a document says of it
  (`hud-host-design.md`).
- `resetDevices` deletes all subscriptions, also of a device that was paired in
  between.

Calls
- The sweep finds a process by a tag in its environment. `proc_tag.py:7` says that
  platform binaries on macOS hide theirs; `find_tagged` skips whom it cannot read,
  and a sweep in which something raises returns an empty list. So a shell with a
  session of its own may outlive its attempt, and the next one, which has a tag of
  its own, does not look for it. `NothingLeft` is about the rest.
- With a shell of its own session that holds the CLI's pipes, the wait for the
  process does not end (asyncio waits for the pipes, too), and the sweep is not
  reached.
- A CLI that exits with 0 on SIGTERM gives a text, whose repair starts a process
  after the stop. A child that is forked during the sweep survives it.

## Not modelled

Left out for good: prompts, reports, journals, the hud, menus and argument
parsing (no control depends on them), the stream formats of the providers, the
cryptography of web push, the judge exam.

Left out of the models there are: the claim of `compact.json` by rename, the
gate lock between runs, the three runs by which a red test is accepted, Ctrl+C,
the ledger, failures of the setup, `woken.json`, installation of the watcher,
the ways a host finds its own process.

## Plan

1. `state.json` as read-modify-write of the owner, its relay thread and the
   debt's rollback: a module of its own, with the list fields.
2. The gate lock and the claim of `compact.json`: small modules of files and
   processes.
3. A `Session` that builds on `Review`: the phases of a run as reviews, each on
   the tree the one before has committed.
4. `CommitsStay` as a violation run of `Session`, `AcceptedIsExecuted` with deaths
   as one of `Questions`, in place of the Observations.
