------------------------------- MODULE Hosts -------------------------------
(***************************************************************************)
(* The agents that answer for a run: the lease (lease.py), `tero wait` and *)
(* `tero inbox` of a host (wait.py, wait_host.py, messages.py), the owner  *)
(* that wakes an agent (wake.py, wake_store.py, autopilot.py) and the      *)
(* owner's poller, which takes messages and wake requests from the relay   *)
(* (poller.py).  The owner can die and be started again.                   *)
(*                                                                         *)
(* Abstractions:                                                           *)
(*  - a process is pid and start time together: a Pid is used once;        *)
(*  - clock counts in units of about five minutes and stops at MaxClock;   *)
(*  - what is done under a flock is one step; the waits for it are short;  *)
(*  - the lease is renewed every 30 s, that is at any time in these units; *)
(*  - woken.json, which tells woken sessions from others, is left out;     *)
(*  - signatures are valid, uuids are safe, phone text is allowed, a wake  *)
(*    command is configured and wake.log can be written; every other file  *)
(*    may fail to be written where the code looks at the result;           *)
(*  - the waits of a host follow each other; answers are in Questions.     *)
(***************************************************************************)
EXTENDS Integers, FiniteSets

CONSTANTS
    Hosts,         \* sessions of agents that people started
    Agents,        \* processes the owner may start (bounds the wakes)
    NoPid,
    Messages,      \* uuids of the messages a phone sends
    Buttons,       \* uuids of the phone's wake requests
    NoKey,         \* a wake request from the terminal has no uuid
    MaxQuestions,  \* bound: questions asked for an agent
    MaxClock,      \* bound: ticks
    AgentTimeout,  \* agent_timeout_s
    Refresh,       \* LEASE_REFRESH_S
    Rest,          \* the lease after `tero wait` timed out
    Gap,           \* MIN_GAP_S
    Day,           \* DAY_S
    AutoDaily, ManualDaily,  \* AUTO_DAILY, MANUAL_DAILY
    MaxFaults,     \* bound: deaths of the owner, failing writes and starts,
                   \* lost acknowledgements, all together
    Terminal,      \* bound: `tero wake` is used, until one is refused
    OtherRuns      \* bound: kinds of the one wake of another run

Pids == Hosts \cup Agents
Poller == "poller"
Main == "main"
Threads == {Poller, Main}
Free == "free"
Questions == 1 .. MaxQuestions
Keys == Questions \cup Messages \cup Buttons \cup {NoKey}
Reasons == {"question", "message", "manual"}
Kind(reason) == IF reason = "manual" THEN "manual" ELSE "auto"
KeyedReasons == {"question", "message"}    \* _KEY_FIELD

ASSUME PidsAssumption ==
    /\ NoPid \notin Pids /\ Hosts \cap Agents = {}
    /\ IsFiniteSet(Pids)
ASSUME KeysAssumption ==
    /\ Messages \cap Buttons = {}
    /\ NoKey \notin Questions \cup Messages \cup Buttons
ASSUME TimesAssumption ==
    /\ {MaxQuestions, MaxClock, MaxFaults} \subseteq Nat
    /\ {AgentTimeout, Refresh, Rest, Gap, Day} \subseteq Nat \ {0}
    /\ Gap <= Day
    /\ {AutoDaily, ManualDaily} \subseteq Nat \ {0}
    /\ Terminal \in BOOLEAN /\ OtherRuns \subseteq {"manual", "auto"}

VARIABLES
    \* processes
    clock, alive,
    up,          \* the owner's process exists
    crashes, failures,   \* counted for their bounds
    killed,      \* agents that were sent SIGTERM
    \* files of the run and of the machine
    lease,
    status, asked,      \* state.json: status, number of the question
    woken,              \* state.json: the stamps of wakes
    decided,            \* state.json: decisions of kind "wake"
    wakeFile,           \* inbox/wake.json
    file,               \* inbox/msg-*.json: "none", "unread" or "read"
    log,                \* ~/.tero/wake.log
    \* the relay
    rows,
    \* memory of the owner
    mutex,       \* wake._LOCK
    call,        \* a thread's call of wake()
    poll, acked, \* the poller
    \* memory of the hosts
    wait,
    \* history
    granted,     \* until when each process was last granted the lease
    started,     \* every process a wake has started
    unseen,      \* those of them the wake never came to know
    printed,     \* how often each message was printed
    stored       \* messages acknowledged as delivered

procVars == <<clock, alive, up, crashes, failures, killed>>
leaseVars == <<lease, granted>>
stateVars == <<status, asked, woken, decided>>
memory == <<mutex, call, poll, acked>>
boxVars == <<wakeFile, file, rows>>
history == <<started, unseen, printed, stored>>
vars == <<procVars, leaseVars, stateVars, log, memory, boxVars, wait,
          history>>

NoLease == [pid |-> NoPid, until |-> 0]
Idle == [pc |-> "idle", ts |-> 0, reason |-> "manual", key |-> NoKey,
         pid |-> NoPid]
Quiet == [pc |-> "idle", todo |-> {}, row |-> NoKey]
Out == [pc |-> "out", todo |-> {}, got |-> {}]

Init ==
    /\ clock = 0 /\ alive = Hosts /\ up = TRUE
    /\ crashes = 0 /\ failures = 0 /\ killed = {}
    /\ lease = NoLease
    /\ status = "running" /\ asked = 0 /\ woken = {} /\ decided = {}
    /\ wakeFile = FALSE /\ file = [m \in Messages |-> "none"]
    /\ log = {} /\ rows = {}
    /\ mutex = Free /\ call = [t \in Threads |-> Idle]
    /\ poll = Quiet /\ acked = {}
    /\ wait = [p \in Pids |-> Out]
    /\ granted = [p \in Pids |-> 0] /\ started = {} /\ unseen = {}
    /\ printed = [m \in Messages |-> 0] /\ stored = {}

Fails == crashes + failures < MaxFaults /\ failures' = failures + 1

----------------------------------------------------------------------------
(* lease.py                                                                *)

Expired(ts) == lease.until <= ts
Alive == lease.pid \in alive
OnDuty(ts) == Alive /\ ~Expired(ts)
MayTake(pid, ts) == lease.pid \in {NoPid, pid} \/ Expired(ts) \/ ~Alive

\* write() with if_may_take: the rule and the file, under one flock.
WriteLease(pid, until) ==
    /\ lease' = [pid |-> pid, until |-> until]
    /\ granted' = [granted EXCEPT ![pid] = until]
\* Mutant: the rule is not looked at.
Write_Always(pid, ts, until) == WriteLease(pid, until)
Write(pid, ts, until) ==
    IF MayTake(pid, ts) THEN WriteLease(pid, until) ELSE UNCHANGED leaseVars

----------------------------------------------------------------------------
(* wake.py                                                                 *)

Goto(t, pc) == call' = [call EXCEPT ![t].pc = pc]
Call(t, reason, key) ==
    call' = [call EXCEPT ![t] = [pc |-> "enter", ts |-> clock,
                                 reason |-> reason, key |-> key,
                                 pid |-> NoPid]]

\* Mutant: a stamp counts only while its agent lives.
Stamped_Alive(c) ==
    \E e \in woken : e.reason = c.reason /\ e.key = c.key /\ e.pid \in alive
Stamped(c) == c.reason \in KeyedReasons
                 /\ \E e \in woken : e.reason = c.reason /\ e.key = c.key

\* wake(), _wake_locked: stamped before, or somebody is on duty.
Enter(t) ==
    /\ call[t].pc = "enter"
    /\ mutex = Free
    /\ IF Stamped(call[t]) \/ OnDuty(call[t].ts)
       THEN Goto(t, "refused") /\ UNCHANGED mutex
       ELSE Goto(t, "limits") /\ mutex' = t
    /\ UNCHANGED <<procVars, leaseVars, stateVars, log, poll, acked,
                   boxVars, wait, history>>

Event(c) == [at |-> c.ts, kind |-> Kind(c.reason), run |-> "this"]
Events(ts) == {e \in log : ts - e.at < Day}

\* Mutant: the daily number is counted for each run.
OverLimit_OfRun(e) ==
    LET mine == {f \in Events(e.at) : f.run = e.run} IN
    \/ \E f \in mine : e.at - f.at < Gap
    \/ Cardinality({f \in mine : f.kind = e.kind})
         >= IF e.kind = "manual" THEN ManualDaily ELSE AutoDaily
\* _limits: an event of this run within the gap, or too many of the kind.
OverLimit(e) ==
    \/ \E f \in Events(e.at) : f.run = e.run /\ e.at - f.at < Gap
    \/ Cardinality({f \in Events(e.at) : f.kind = e.kind})
         >= IF e.kind = "manual" THEN ManualDaily ELSE AutoDaily

Refuse(t) == Goto(t, "refused") /\ mutex' = Free

\* The limits are looked at and the event is noted under one flock.
Limits(t) ==
    /\ call[t].pc = "limits"
    /\ IF OverLimit(Event(call[t]))
       THEN Refuse(t) /\ UNCHANGED log
       ELSE /\ log' = log \cup {Event(call[t])}
            /\ Goto(t, "stamp") /\ UNCHANGED mutex
    /\ UNCHANGED <<procVars, leaseVars, stateVars, poll, acked, boxVars,
                   wait, history>>

Stamp(c) == [reason |-> c.reason, key |-> c.key, at |-> c.ts, pid |-> c.pid]

\* _stamp: the mark is in state.json before anything is started.
WriteStamp(t) ==
    /\ call[t].pc = "stamp"
    /\ \/ woken' = woken \cup {Stamp(call[t])} /\ Goto(t, "launch")
          /\ UNCHANGED <<mutex, failures>>
       \/ Fails /\ Refuse(t) /\ UNCHANGED woken
    /\ UNCHANGED <<clock, alive, up, crashes, killed, leaseVars, status,
                   asked, decided, log, poll, acked, boxVars, wait,
                   history>>

\* _launch: the agent is started, or nothing is.
Launch(t) ==
    /\ call[t].pc = "launch"
    /\ \/ \E a \in Agents \ {s.pid : s \in started} :
             /\ alive' = alive \cup {a}
             /\ started' = started \cup {Stamp([call[t] EXCEPT !.pid = a])}
             /\ call' = [call EXCEPT ![t].pc = "lease", ![t].pid = a]
             /\ UNCHANGED <<mutex, failures>>
       \/ Fails /\ Refuse(t) /\ UNCHANGED <<alive, started>>
    /\ UNCHANGED <<clock, up, crashes, killed, leaseVars, stateVars, log,
                   poll, acked, boxVars, wait, unseen, printed, stored>>

\* The agent is gone, or it runs but its pid was not read in time, its start
\* time is hidden, or something between launch and lease raised: the wake is
\* refused, and nobody is told to end.
LoseAgent(t) ==
    /\ call[t].pc = "lease" /\ Refuse(t)
    /\ IF call[t].pid \in alive THEN Fails ELSE UNCHANGED failures
    /\ unseen' = unseen \cup {call[t].pid}
    /\ UNCHANGED <<clock, alive, up, crashes, killed, leaseVars, stateVars,
                   log, poll, acked, boxVars, wait, started, printed,
                   stored>>

Kill(t) == killed' = killed \cup {call[t].pid} /\ Refuse(t)

\* Mutants: without the rule; an agent that was refused lives on.
GetLease_NoRule(t) ==
    /\ call[t].pc = "lease"
    /\ WriteLease(call[t].pid, call[t].ts + AgentTimeout)
    /\ Goto(t, "patch")
    /\ UNCHANGED <<procVars, stateVars, log, mutex, poll, acked, boxVars,
                   wait, history>>
GetLease_NoKill(t) ==
    LET c == call[t] IN
    /\ c.pc = "lease"
    /\ IF MayTake(c.pid, c.ts)
       THEN /\ WriteLease(c.pid, c.ts + AgentTimeout)
            /\ Goto(t, "patch") /\ UNCHANGED mutex
       ELSE Refuse(t) /\ UNCHANGED leaseVars
    /\ UNCHANGED <<procVars, stateVars, log, poll, acked, boxVars, wait,
                   history>>
\* The lease of the woken agent, by the rule: a host may have come on duty
\* since the look at the beginning (F28).
GetLease(t) ==
    LET c == call[t] IN
    /\ c.pc = "lease"
    /\ \/ /\ MayTake(c.pid, c.ts)
          /\ WriteLease(c.pid, c.ts + AgentTimeout)
          /\ Goto(t, "patch") /\ UNCHANGED <<killed, mutex, failures>>
       \/ /\ IF MayTake(c.pid, c.ts) THEN Fails ELSE UNCHANGED failures
          /\ Kill(t) /\ UNCHANGED leaseVars
    /\ UNCHANGED <<clock, alive, up, crashes, stateVars, log, poll, acked,
                   boxVars, wait, history>>

\* _patch: the pid goes into the stamp, the wake is remembered.
Patch(t) ==
    /\ call[t].pc = "patch"
    /\ \/ LET c == call[t] old == Stamp([c EXCEPT !.pid = NoPid]) IN
          /\ woken' = (woken \ {old}) \cup {Stamp(c)}
          /\ mutex' = Free /\ Goto(t, "woken")
          /\ UNCHANGED <<killed, failures>>
       \/ Fails /\ Kill(t) /\ UNCHANGED woken
    /\ UNCHANGED <<clock, alive, up, crashes, leaseVars, status, asked,
                   decided, log, poll, acked, boxVars, wait, history>>

HasDecision(reason, key) ==
    key # NoKey /\ \E d \in decided : d.reason = reason /\ d.key = key

\* _decide: the result is journaled, a refusal once per key.
Decide(t) ==
    /\ call[t].pc \in {"refused", "woken"}
    /\ LET c == call[t] ok == c.pc = "woken" IN
       decided' = IF ~ok /\ HasDecision(c.reason, c.key)
                  THEN decided
                  ELSE decided \cup {[reason |-> c.reason, key |-> c.key,
                                      ok |-> ok]}
    /\ call' = [call EXCEPT ![t] = Idle]
    /\ UNCHANGED <<procVars, leaseVars, status, asked, woken, log, mutex,
                   poll, acked, boxVars, wait, history>>

WakeStep(t) ==
    \/ Enter(t) \/ Limits(t) \/ WriteStamp(t) \/ Launch(t) \/ LoseAgent(t)
    \/ GetLease(t) \/ Patch(t) \/ Decide(t)

----------------------------------------------------------------------------
(* autopilot.py: the owner waits for an answer.                            *)

Waiting == status = "waiting_agent"

Ask ==
    /\ up /\ status = "running" /\ call[Main] = Idle /\ asked < MaxQuestions
    /\ status' = "waiting_agent" /\ asked' = asked + 1
    /\ UNCHANGED <<procVars, leaseVars, woken, decided, log, memory,
                   boxVars, wait, history>>

\* Nobody is on duty: wake one (wait_answer).
WakeForQuestion ==
    /\ up /\ Waiting /\ call[Main] = Idle /\ ~OnDuty(clock)
    /\ Call(Main, "question", asked)
    /\ UNCHANGED <<procVars, leaseVars, stateVars, log, mutex, poll,
                   acked, boxVars, wait, history>>

\* An answer closes the question; an agent that answered gets the lease, by
\* the rule (extend_from_answer).
Answered(p) ==
    /\ up /\ Waiting /\ call[Main] = Idle /\ p \in alive \cup {NoPid}
    /\ status' = "running"
    /\ IF p = NoPid THEN UNCHANGED leaseVars
                    ELSE Write(p, clock, clock + AgentTimeout)
    /\ UNCHANGED <<procVars, asked, woken, decided, log, memory, boxVars,
                   wait, history>>

Finish ==
    /\ up /\ status = "running" /\ call[Main] = Idle
    /\ status' = "done"
    /\ UNCHANGED <<procVars, leaseVars, asked, woken, decided, log,
                   memory, boxVars, wait, history>>

MainStep == Ask \/ WakeForQuestion \/ Finish
              \/ \E p \in Pids \cup {NoPid} : Answered(p)

----------------------------------------------------------------------------
(* poller.py: one pass of the owner's thread over the rows of the relay.   *)

To(pc) == poll' = [poll EXCEPT !.pc = pc]
PollerIdle == call[Poller] = Idle

\* tick: `tero wake` first, then one GET.
Tick ==
    /\ up /\ status # "done" /\ poll.pc = "idle" /\ PollerIdle
    /\ To("fetch") /\ wakeFile' = FALSE
    /\ IF wakeFile THEN Call(Poller, "manual", NoKey) ELSE UNCHANGED call
    /\ UNCHANGED <<procVars, leaseVars, stateVars, log, mutex, acked,
                   file, rows, wait, history>>

Fetch ==
    /\ up /\ poll.pc = "fetch" /\ PollerIdle
    /\ poll' = IF rows \subseteq acked THEN Quiet
               ELSE [pc |-> "next", todo |-> rows \ acked, row |-> NoKey]
    /\ UNCHANGED <<procVars, leaseVars, stateVars, log, mutex, call,
                   acked, boxVars, wait, history>>

NextRow ==
    /\ up /\ poll.pc = "next" /\ PollerIdle
    /\ IF poll.todo = {} THEN poll' = Quiet
       ELSE \E r \in poll.todo :
              poll' = [pc |-> IF r \in Messages THEN "look" ELSE "button",
                       todo |-> poll.todo \ {r}, row |-> r]
    /\ UNCHANGED <<procVars, leaseVars, stateVars, log, mutex, call,
                   acked, boxVars, wait, history>>

\* _message_done looks for the unread file and then for the read one.
Unread(m) == file[m] = "unread"
Read(m) == file[m] = "read"
\* Mutant: the other order, in which a reader slips through.
MessageDone_ReadFirst ==
    /\ up /\ poll.pc \in {"look", "lookRead"}
    /\ LET first == poll.pc = "look"
           found == IF first THEN Read(poll.row) ELSE Unread(poll.row) IN
       To(IF found THEN "ackDone" ELSE IF first THEN "lookRead" ELSE "store")
    /\ UNCHANGED <<procVars, leaseVars, stateVars, log, mutex, call, acked,
                   boxVars, wait, history>>
MessageDone ==
    /\ up /\ poll.pc \in {"look", "lookRead"}
    /\ LET first == poll.pc = "look"
           found == IF first THEN Unread(poll.row) ELSE Read(poll.row) IN
       To(IF found THEN "ackDone" ELSE IF first THEN "lookRead" ELSE "store")
    /\ UNCHANGED <<procVars, leaseVars, stateVars, log, mutex, call,
                   acked, boxVars, wait, history>>

\* The signed file is written; when it cannot be, the row stays at the relay.
Store ==
    /\ up /\ poll.pc = "store"
    /\ \/ file' = [file EXCEPT ![poll.row] = "unread"] /\ To("ack")
          /\ UNCHANGED failures
       \/ Fails /\ To("next") /\ UNCHANGED file
    /\ UNCHANGED <<clock, alive, up, crashes, killed, leaseVars, stateVars,
                   log, mutex, call, acked, wakeFile, rows, wait, history>>

\* ack: the relay deletes the row; its reply, or the request, may be lost.
Acknowledge(r) ==
    \/ /\ rows' = rows \ {r} /\ acked' = acked \cup {r}
       /\ UNCHANGED failures
    \/ Fails /\ acked' = acked /\ rows' \in {rows, rows \ {r}}

AckMessage ==
    /\ up /\ poll.pc \in {"ack", "ackDone"}
    /\ Acknowledge(poll.row)
    /\ To(IF poll.pc = "ack" THEN "wake" ELSE "next")
    /\ stored' = stored \cup {poll.row}
    /\ UNCHANGED <<clock, alive, up, crashes, killed, leaseVars, stateVars,
                   log, mutex, call, wakeFile, file, wait, started, unseen,
                   printed>>

\* _wake_for_message: once, right after the message was stored.
WakeForMessage ==
    /\ up /\ poll.pc = "wake"
    /\ To("next")
    /\ IF OnDuty(clock) THEN UNCHANGED call
       ELSE Call(Poller, "message", poll.row)
    /\ UNCHANGED <<procVars, leaseVars, stateVars, log, mutex, acked,
                   boxVars, wait, history>>

\* _wake: the phone's wake request, once per uuid.
Button ==
    /\ up /\ poll.pc = "button"
    /\ To("ackButton")
    /\ IF HasDecision("manual", poll.row) THEN UNCHANGED call
       ELSE Call(Poller, "manual", poll.row)
    /\ UNCHANGED <<procVars, leaseVars, stateVars, log, mutex, acked,
                   boxVars, wait, history>>

AckButton ==
    /\ up /\ poll.pc = "ackButton" /\ PollerIdle
    /\ Acknowledge(poll.row) /\ To("next")
    /\ UNCHANGED <<clock, alive, up, crashes, killed, leaseVars, stateVars,
                   log, mutex, call, wakeFile, file, wait, history>>

PollStep ==
    \/ Tick \/ Fetch \/ NextRow
    \/ MessageDone \/ Store \/ AckMessage \/ WakeForMessage
    \/ Button \/ AckButton

----------------------------------------------------------------------------
(* wait.py, wait_host.py, messages.py: `tero wait` and `tero inbox`.       *)

Move(p, pc) == wait' = [wait EXCEPT ![p].pc = pc]

\* _refresh_lease, _settle_lease: write() for the host, by the rule.
Renew(h, s) == Write(h, clock, clock + s)

\* wait_run: the lease is taken, if it may be, and the loop begins.
StartWait(h) ==
    /\ h \in alive /\ wait[h] = Out
    /\ Renew(h, Refresh)
    /\ Move(h, "look")
    /\ UNCHANGED <<procVars, stateVars, log, memory, boxVars, history>>

\* _exit: a lease for a host that is still there, when there is work for it.
Exit(h, s) ==
    /\ wait' = [wait EXCEPT ![h] = Out]
    /\ IF h \in alive /\ s > 0 THEN Renew(h, s) ELSE UNCHANGED leaseVars

UnreadFiles == {m \in Messages : Unread(m)}

\* One pass: host gone, final status, question, messages, dead owner, time;
\* the lease is renewed in between.
Look(h) ==
    /\ wait[h].pc = "look"
    /\ \/ (h \notin alive \/ status = "done") /\ Exit(h, 0)
       \/ h \in alive /\ Waiting /\ Exit(h, AgentTimeout)
       \/ /\ h \in alive /\ status = "running" /\ UnreadFiles # {}
          /\ wait' = [wait EXCEPT ![h].pc = "take", ![h].todo = UnreadFiles]
          /\ UNCHANGED leaseVars
       \/ /\ h \in alive /\ status = "running" /\ UnreadFiles = {}
          /\ \/ ~up /\ Exit(h, 0)
             \/ up /\ Exit(h, Rest)
             \/ up /\ Renew(h, Refresh) /\ UNCHANGED wait
    /\ UNCHANGED <<procVars, stateVars, log, memory, boxVars, history>>

\* `tero inbox`, which a woken agent may call too.
Inbox(p) ==
    /\ p \in alive /\ wait[p] = Out /\ UnreadFiles # {}
    /\ wait' = [wait EXCEPT ![p].pc = "inbox", ![p].todo = UnreadFiles]
    /\ UNCHANGED <<procVars, leaseVars, stateVars, log, memory, boxVars,
                   history>>

\* take_unread: whoever renames a file has taken its message.
Rename(p, m) ==
    /\ wait[p].pc \in {"take", "inbox"} /\ m \in wait[p].todo
    /\ LET mine == Unread(m) IN
       /\ file' = IF mine THEN [file EXCEPT ![m] = "read"] ELSE file
       /\ wait' = [wait EXCEPT ![p].todo = @ \ {m},
                               ![p].got = IF mine THEN @ \cup {m} ELSE @]
    /\ UNCHANGED <<procVars, leaseVars, stateVars, log, memory, wakeFile,
                   rows, history>>

PrintMessages(p) ==
    /\ wait[p].pc \in {"take", "inbox"} /\ wait[p].todo = {}
    /\ printed' = [m \in Messages |->
                     printed[m] + IF m \in wait[p].got THEN 1 ELSE 0]
    /\ IF wait[p].pc = "inbox" THEN Exit(p, 0)
       ELSE IF wait[p].got # {} THEN Exit(p, AgentTimeout)
       ELSE Move(p, "look") /\ UNCHANGED leaseVars
    /\ UNCHANGED <<procVars, stateVars, log, memory, boxVars, started, unseen,
                   stored>>

WaitStep ==
    \/ \E h \in Hosts : StartWait(h) \/ Look(h)
    \/ \E p \in Pids : Inbox(p) \/ PrintMessages(p)
                         \/ \E m \in Messages : Rename(p, m)

----------------------------------------------------------------------------
(* Everybody else.                                                         *)

\* A uuid is sent once.
SendRow(r) ==
    /\ r \notin rows \cup acked \cup stored /\ ~HasDecision("manual", r)
    /\ rows' = rows \cup {r} /\ UNCHANGED <<wakeFile, file>>
    /\ UNCHANGED <<procVars, leaseVars, stateVars, log, memory, wait,
                   history>>

\* `tero wake` from a terminal (request_wake, run_wake).
RequestWake ==
    /\ Terminal
    /\ \A d \in decided : d.reason = "manual" /\ d.key = NoKey => d.ok
    /\ \A e \in woken : e.reason = "manual" => e.at < clock
    /\ up /\ status # "done" /\ wakeFile' = TRUE
    /\ UNCHANGED <<procVars, leaseVars, stateVars, log, memory, file,
                   rows, wait, history>>

\* The owner of another run wakes: of its call only the step under the flock
\* of wake.log is seen here, with the time taken when the call began.
OtherWakes ==
    /\ \A e \in log : e.run = "this"
    /\ \E at \in 0 .. clock, kind \in OtherRuns :
          LET e == [at |-> at, kind |-> kind, run |-> "other"] IN
          ~OverLimit(e) /\ log' = log \cup {e}
    /\ UNCHANGED <<procVars, leaseVars, stateVars, memory, boxVars, wait,
                   history>>

Dies(p) ==
    /\ p \in alive /\ alive' = alive \ {p}
    /\ UNCHANGED <<clock, up, crashes, failures, killed, leaseVars,
                   stateVars, log, memory, boxVars, wait, history>>

\* The owner dies: its locks are released, its memory is gone.
Crash ==
    /\ up /\ status # "done" /\ crashes + failures < MaxFaults
    /\ up' = FALSE /\ crashes' = crashes + 1
    /\ mutex' = Free /\ poll' = Quiet /\ acked' = {}
    /\ call' = [call EXCEPT ![Poller] = Idle, ![Main] = Idle]
    /\ UNCHANGED <<clock, alive, failures, killed, leaseVars, stateVars,
                   log, boxVars, wait, history>>

\* `tero resume`: the run goes on; a question stays open.
Resume ==
    /\ ~up /\ up' = TRUE
    /\ UNCHANGED <<clock, alive, crashes, failures, killed, leaseVars,
                   stateVars, log, memory, boxVars, wait, history>>

Time ==
    /\ clock < MaxClock /\ clock' = clock + 1
    /\ UNCHANGED <<alive, up, crashes, failures, killed, leaseVars,
                   stateVars, log, memory, boxVars, wait, history>>

Environment ==
    \/ \E r \in Messages \cup Buttons : SendRow(r)
    \/ RequestWake \/ OtherWakes \/ Crash \/ Resume \/ Time
    \/ \E p \in Pids : Dies(p)
WakeSteps == \E t \in Threads : WakeStep(t)
Next == WakeSteps \/ MainStep \/ PollStep \/ WaitStep \/ Environment

Spec == Init /\ [][Next]_vars

----------------------------------------------------------------------------
(* Properties.                                                             *)

PCs == {"idle", "enter", "limits", "stamp", "launch", "lease", "patch",
        "refused", "woken"}

TypeOK ==
    /\ clock \in 0 .. MaxClock /\ up \in BOOLEAN
    /\ crashes \in 0 .. MaxFaults /\ failures \in 0 .. MaxFaults
    /\ alive \subseteq Pids /\ killed \cup unseen \subseteq Agents
    /\ lease \in [pid : Pids \cup {NoPid}, until : Nat]
    /\ status \in {"running", "waiting_agent", "done"}
    /\ asked \in 0 .. MaxQuestions
    /\ \A e \in woken \cup started :
          e \in [reason : Reasons, key : Keys, at : Nat,
                 pid : Agents \cup {NoPid}]
    /\ \A d \in decided : d \in [reason : Reasons, key : Keys, ok : BOOLEAN]
    /\ wakeFile \in BOOLEAN
    /\ file \in [Messages -> {"none", "unread", "read"}]
    /\ \A e \in log : e \in [at : Nat, kind : {"manual", "auto"},
                             run : {"this", "other"}]
    /\ \A S \in {rows, acked} : S \subseteq Messages \cup Buttons
    /\ mutex \in Threads \cup {Free}
    /\ \A t \in Threads :
          call[t] \in [pc : PCs, ts : Nat, reason : Reasons, key : Keys,
                       pid : Agents \cup {NoPid}]
    /\ granted \in [Pids -> Nat] /\ stored \subseteq Messages
    /\ printed \in [Messages -> Nat]

\* For one question, and for one message, an agent is started once, however
\* often rows are delivered again, wakes are refused and owners die
\* (wake.py: the stamp is written before the launch).
StartedOnce ==
    \A s1, s2 \in started :
        s1.reason \in KeyedReasons /\ s1.reason = s2.reason /\ s1.key = s2.key
            => s1.pid = s2.pid

\* One agent is on duty at a time: the wake, the waits of several hosts and
\* the answers of agents never give the lease away from a living holder
\* before it expired (lease.py, write with if_may_take).
DutySpec == INSTANCE Duty WITH holder <- lease.pid
OnlyOneOnDuty == DutySpec!OneOnDuty
LeasePassesOn == DutySpec!Spec

\* The wakes of a run keep their distance and the wakes of the machine their
\* daily number, whatever threads and runs ask at once (wake.py, _limits).
LimitsHold ==
    /\ \A e, f \in log : e # f /\ e.run = f.run
                           => e.at - f.at >= Gap \/ f.at - e.at >= Gap
    /\ \A kind \in {"manual", "auto"} :
          Cardinality({e \in Events(clock) : e.kind = kind})
            <= IF kind = "manual" THEN ManualDaily ELSE AutoDaily
    /\ \A s1, s2 \in started : s1.at = s2.at => s1.pid = s2.pid

\* Without a death of the owner no agent that its wake has come to know is left
\* to itself: unless it was told to end, it was given the lease and state.json
\* names it (F8, F28).  An agent whose pid or start time was not read is left
\* to itself (wake.py:315).
NoOrphans ==
    crashes = 0 =>
        \A s \in started :
            \/ s.pid \in killed \cup unseen
            \/ \E t \in Threads : call[t].pid = s.pid
            \/ s \in woken /\ granted[s.pid] > 0

\* A message is deleted at the relay only when its file is there (F9), and it
\* reaches one reader once, although its row is delivered again after a lost
\* acknowledgement (poller.py _message_done, messages.py).
ReadOnce ==
    \A m \in Messages :
        /\ m \in stored \cup acked => file[m] \in {"unread", "read"}
        /\ printed[m] <= 1
=============================================================================
