---------------------------- MODULE Hosts_proofs ----------------------------
(***************************************************************************)
(* The lease of Hosts implements Duty, for any number of hosts, agents,    *)
(* messages, questions, deaths and failures and for all times: so one      *)
(* agent at a time is on duty.                                             *)
(***************************************************************************)
EXTENDS Hosts, FiniteSetTheorems, TLAPS

StartedPids == {s.pid : s \in started}
CallType == [pc : PCs, ts : Nat, reason : Reasons, key : Keys,
             pid : Agents \cup {NoPid}]
PollPCs == {"idle", "fetch", "next", "look", "lookRead", "store", "ack",
            "ackDone", "wake", "button", "ackButton"}
PollType == [pc : PollPCs, todo : SUBSET (Messages \cup Buttons), row : Keys]

\* What the lease depends on: the time a call began is not in the future, an
\* agent that lives was started, and who was never granted the lease has 0.
MemoryInv ==
    /\ call \in [Threads -> CallType]
    /\ poll \in PollType
    /\ rows \subseteq Messages \cup Buttons
    /\ asked \in Nat /\ (Waiting => asked \in Questions)
TimeInv ==
    /\ clock \in Nat
    /\ \A t \in Threads : call[t].ts <= clock
LeaseInv ==
    /\ alive \subseteq Pids
    /\ lease \in [pid : Pids \cup {NoPid}, until : Nat]
    /\ granted \in [Pids -> Nat]
    /\ lease.pid \in Pids => granted[lease.pid] = lease.until
StartedInv ==
    /\ StartedPids \subseteq Agents
    /\ alive \cap Agents \subseteq StartedPids
    /\ \A t \in Threads : call[t].pc \in {"lease", "patch"}
                             => call[t].pid \in StartedPids
    /\ \A a \in Agents \ StartedPids : granted[a] = 0
IInv == MemoryInv /\ TimeInv /\ LeaseInv /\ StartedInv

abstractVars == <<alive, clock, lease.pid, granted>>

----------------------------------------------------------------------------
(* The lease and the processes.                                            *)

\* What a step of one thread's call keeps, when it touches nothing else.
Steps(t) ==
    /\ call' = [call EXCEPT ![t] = call'[t]]
    /\ call'[t] \in CallType /\ call'[t].ts <= clock
    /\ call'[t].pc \in {"lease", "patch"} => call'[t].pid \in StartedPids

\* One thread's call goes on.
LEMMA CallSteps ==
    ASSUME IInv, NEW t \in Threads, Steps(t)
    PROVE  /\ call' \in [Threads -> CallType]
           /\ \A u \in Threads : /\ call'[u].ts <= clock
                                 /\ call'[u].pc \in {"lease", "patch"}
                                      => call'[u].pid \in StartedPids
BY DEF IInv, MemoryInv, TimeInv, StartedInv, Steps

\* Goto keeps everything of the call but its place.
LEMMA GotoSteps ==
    ASSUME IInv, NEW t \in Threads, NEW pc \in PCs, Goto(t, pc),
           pc \in {"lease", "patch"} => call[t].pid \in StartedPids
    PROVE  Steps(t) /\ call'[t].pid = call[t].pid
<1>1. call[t] \in CallType /\ call[t].ts <= clock
  BY DEF IInv, MemoryInv, TimeInv
<1>2. call' = [call EXCEPT ![t] = [call[t] EXCEPT !.pc = pc]]
  BY DEF Goto
<1>3. call'[t] = [call[t] EXCEPT !.pc = pc]
  BY <1>2 DEF IInv, MemoryInv
<1> QED BY <1>1, <1>2, <1>3 DEF CallType, Steps

\* A new call begins now.
LEMMA CallStarts ==
    ASSUME IInv, NEW t \in Threads, NEW reason \in Reasons, NEW key \in Keys,
           Call(t, reason, key)
    PROVE  Steps(t)
<1> DEFINE c == [pc |-> "enter", ts |-> clock, reason |-> reason,
                 key |-> key, pid |-> NoPid]
<1>1. call' = [call EXCEPT ![t] = c]
  BY DEF Call
<1>2. call'[t] = c
  BY <1>1 DEF IInv, MemoryInv
<1>3. c \in CallType /\ c.ts <= clock /\ c.pc = "enter"
  BY DEF CallType, PCs, IInv, TimeInv
<1> QED BY <1>1, <1>2, <1>3 DEF Steps

\* A thread has nothing to wake for.
LEMMA IdleSteps ==
    ASSUME IInv, NEW t \in Threads, call' = [call EXCEPT ![t] = Idle]
    PROVE  Steps(t)
<1>1. call'[t] = Idle
  BY DEF IInv, MemoryInv
<1>2. Idle \in CallType /\ Idle.ts <= clock /\ Idle.pc = "idle"
  BY DEF Idle, CallType, PCs, Reasons, Keys, IInv, TimeInv
<1> QED BY <1>1, <1>2 DEF Steps

\* The lease given by the rule to a process that exists, or was started, is a
\* Grant of Duty and keeps what the lease depends on.
LEMMA GrantByRule ==
    ASSUME IInv, NEW p \in Pids, NEW ts \in Nat, NEW until \in Nat,
           ts <= clock, MayTake(p, ts), WriteLease(p, until),
           p \in alive \/ p \in StartedPids,
           UNCHANGED <<alive, clock, started>>
    PROVE  /\ LeaseInv'
           /\ (\A a \in Agents \ StartedPids : granted[a] = 0)'
           /\ DutySpec!Grant(p)
<1>1. lease' = [pid |-> p, until |-> until]
      /\ granted' = [granted EXCEPT ![p] = until]
  BY DEF WriteLease
<1>2. granted \in [Pids -> Nat] /\ granted' \in [Pids -> Nat]
      /\ granted'[p] = until
  BY <1>1 DEF IInv, LeaseInv
<1>3. LeaseInv'
  BY <1>1, <1>2 DEF IInv, LeaseInv
<1>4. StartedPids' = StartedPids
  BY DEF StartedPids
<1>5. p \notin Agents \ StartedPids
  BY DEF IInv, StartedInv
<1>6. (\A a \in Agents \ StartedPids : granted[a] = 0)'
  BY <1>1, <1>2, <1>4, <1>5 DEF IInv, StartedInv, Pids
<1>7. DutySpec!Free \/ lease.pid = p
  BY DEF MayTake, Expired, Alive, DutySpec!Free, IInv, LeaseInv, TimeInv
<1>8. lease'.pid = p
  BY <1>1
<1> QED BY <1>1, <1>2, <1>3, <1>6, <1>7, <1>8 DEF DutySpec!Grant

\* A process that calls write() now gets the lease, or nothing happens.
LEMMA WriteNow ==
    ASSUME IInv, NEW p \in alive, NEW until \in Nat, Write(p, clock, until),
           UNCHANGED <<alive, clock, started>>
    PROVE  /\ LeaseInv'
           /\ (\A a \in Agents \ StartedPids : granted[a] = 0)'
           /\ DutySpec!Grant(p) \/ UNCHANGED abstractVars
<1>0. p \in Pids /\ clock \in Nat
  BY DEF IInv, LeaseInv, TimeInv
<1>1. CASE MayTake(p, clock)
  <2>1. WriteLease(p, until)
    BY <1>1 DEF Write
  <2> QED BY <1>0, <1>1, <2>1, GrantByRule
<1>2. CASE ~MayTake(p, clock)
  <2>1. UNCHANGED leaseVars
    BY <1>2 DEF Write
  <2> QED BY <2>1 DEF leaseVars, abstractVars, IInv, LeaseInv, StartedInv,
               StartedPids
<1> QED BY <1>1, <1>2

----------------------------------------------------------------------------
(* The actions.  Every one keeps IInv and is a step of Duty, or none.      *)

Implements == DutySpec!Next \/ UNCHANGED abstractVars

\* The lease and the processes are left alone.
LEMMA QuietStep ==
    ASSUME IInv, UNCHANGED <<clock, alive, leaseVars, started>>,
           call' = call \/ \E t \in Threads : Steps(t),
           poll' \in PollType, rows' \subseteq Messages \cup Buttons,
           asked' \in Nat, Waiting' => asked' \in Questions
    PROVE  IInv' /\ Implements
<1>1. /\ call' \in [Threads -> CallType]
      /\ \A u \in Threads : /\ call'[u].ts <= clock
                            /\ call'[u].pc \in {"lease", "patch"}
                                 => call'[u].pid \in StartedPids
  <2>1. CASE call' = call
    BY <2>1 DEF IInv, MemoryInv, TimeInv, StartedInv
  <2>2. CASE \E t \in Threads : Steps(t)
    BY <2>2, CallSteps
  <2> QED BY <2>1, <2>2
<1>2. MemoryInv'
  BY <1>1 DEF MemoryInv
<1>3. TimeInv' /\ LeaseInv' /\ StartedInv'
  BY <1>1 DEF IInv, TimeInv, LeaseInv, StartedInv, StartedPids, leaseVars
<1> QED BY <1>2, <1>3 DEF IInv, Implements, abstractVars, leaseVars

\* The lease is written, or not, for a process that exists.
LEMMA WriteStep ==
    ASSUME IInv, NEW p \in alive, NEW until \in Nat, Write(p, clock, until),
           UNCHANGED <<clock, alive, started, call, poll, rows, asked>>,
           status' = status \/ status' = "running"
    PROVE  IInv' /\ Implements
<1>1. /\ LeaseInv'
      /\ (\A a \in Agents \ StartedPids : granted[a] = 0)'
      /\ DutySpec!Grant(p) \/ UNCHANGED abstractVars
  BY WriteNow
<1>2. MemoryInv' /\ TimeInv'
  BY DEF IInv, MemoryInv, TimeInv, Waiting
<1>3. StartedInv'
  BY <1>1 DEF IInv, StartedInv, StartedPids
<1>4. p \in Pids
  BY DEF IInv, LeaseInv
<1> QED BY <1>1, <1>2, <1>3, <1>4 DEF IInv, Implements, DutySpec!Next

\* The steps of wake() that leave the lease and the processes alone.
LEMMA WakeQuiet ==
    ASSUME IInv, NEW t \in Threads,
           \/ Enter(t) \/ Limits(t) \/ WriteStamp(t) \/ LoseAgent(t)
           \/ Patch(t) \/ Decide(t)
    PROVE  IInv' /\ Implements
<1>1. UNCHANGED <<clock, alive, leaseVars, started, poll, rows, asked, status>>
  BY DEF Enter, Limits, WriteStamp, LoseAgent, Patch, Decide, procVars,
         stateVars, boxVars, history
<1>2. Steps(t)
  <2>1. CASE Enter(t)
    BY <2>1, GotoSteps DEF Enter, PCs
  <2>2. CASE Limits(t)
    <3>1. \E pc \in {"refused", "stamp"} : Goto(t, pc)
      BY <2>2 DEF Limits, Refuse
    <3> QED BY <3>1, GotoSteps DEF PCs
  <2>3. CASE WriteStamp(t)
    <3>1. \E pc \in {"refused", "launch"} : Goto(t, pc)
      BY <2>3 DEF WriteStamp, Refuse
    <3> QED BY <3>1, GotoSteps DEF PCs
  <2>4. CASE Patch(t)
    <3>1. \E pc \in {"refused", "woken"} : Goto(t, pc)
      BY <2>4 DEF Patch, Kill, Refuse
    <3> QED BY <3>1, GotoSteps DEF PCs
  <2>5. CASE Decide(t)
    BY <2>5, IdleSteps DEF Decide
  <2>6. CASE LoseAgent(t)
    BY <2>6, GotoSteps DEF LoseAgent, Refuse, PCs
  <2> QED BY <2>1, <2>2, <2>3, <2>4, <2>5, <2>6
<1>3. poll \in PollType /\ rows \subseteq Messages \cup Buttons
      /\ asked \in Nat /\ (Waiting => asked \in Questions)
  BY DEF IInv, MemoryInv
<1> QED BY <1>1, <1>2, <1>3, QuietStep DEF Waiting

\* An agent starts: it never held the lease, and nobody has its pid.
LEMMA LaunchStep ==
    ASSUME IInv, NEW t \in Threads, Launch(t)
    PROVE  IInv' /\ Implements
<1>0. UNCHANGED <<clock, leaseVars, poll, rows, asked, status>>
  BY DEF Launch, stateVars, boxVars
<1>1. CASE Fails /\ Refuse(t) /\ UNCHANGED <<alive, started>>
  <2>1. Steps(t)
    BY <1>1, GotoSteps DEF Refuse, PCs
  <2>2. poll \in PollType /\ rows \subseteq Messages \cup Buttons
        /\ asked \in Nat /\ (Waiting => asked \in Questions)
    BY DEF IInv, MemoryInv
  <2> QED BY <1>0, <1>1, <2>1, <2>2, QuietStep DEF Waiting
<1>2. ASSUME NEW a \in Agents \ StartedPids,
             alive' = alive \cup {a},
             started' = started \cup {Stamp([call[t] EXCEPT !.pid = a])},
             call' = [call EXCEPT ![t].pc = "lease", ![t].pid = a]
      PROVE  IInv' /\ Implements
  <2>1. call[t] \in CallType /\ call \in [Threads -> CallType]
    BY DEF IInv, MemoryInv
  <2>2. Stamp([call[t] EXCEPT !.pid = a]).pid = a
    BY <2>1 DEF Stamp, CallType
  <2>3. StartedPids' = StartedPids \cup {a}
    BY <1>2, <2>2 DEF StartedPids
  <2> DEFINE c == [[call[t] EXCEPT !.pc = "lease"] EXCEPT !.pid = a]
  <2>4. call' = [call EXCEPT ![t] = c]
    BY <1>2, <2>1
  <2>5. c \in CallType /\ c.ts = call[t].ts /\ c.pid = a
    BY <2>1 DEF CallType, PCs
  <2> HIDE DEF c
  <2>6. call' \in [Threads -> CallType]
        /\ \A u \in Threads : call'[u] = IF u = t THEN c ELSE call[u]
    BY <2>1, <2>4, <2>5
  <2>7. MemoryInv' /\ TimeInv'
    BY <1>0, <2>5, <2>6 DEF IInv, MemoryInv, TimeInv, Waiting
  <2>8. LeaseInv'
    BY <1>0, <1>2 DEF IInv, LeaseInv, leaseVars, Pids
  <2>9. StartedInv'
    BY <1>0, <1>2, <2>3, <2>5, <2>6 DEF IInv, StartedInv, leaseVars
  <2>10. granted[a] = 0 /\ a \in Pids
    BY DEF IInv, StartedInv, Pids
  <2>11. DutySpec!Start(a)
    BY <1>0, <1>2, <2>10 DEF DutySpec!Start, leaseVars
  <2> QED BY <2>7, <2>8, <2>9, <2>10, <2>11
             DEF IInv, Implements, DutySpec!Next
<1>3. \/ Fails /\ Refuse(t) /\ UNCHANGED <<alive, started>>
      \/ \E a \in Agents \ StartedPids :
             /\ alive' = alive \cup {a}
             /\ started' = started \cup {Stamp([call[t] EXCEPT !.pid = a])}
             /\ call' = [call EXCEPT ![t].pc = "lease", ![t].pid = a]
  BY DEF Launch, StartedPids
<1> QED BY <1>1, <1>2, <1>3

\* The woken agent gets the lease by the rule, as of the time its call began.
LEMMA GetLeaseStep ==
    ASSUME IInv, NEW t \in Threads, GetLease(t)
    PROVE  IInv' /\ Implements
<1> DEFINE c == call[t]
<1>0. UNCHANGED <<clock, alive, poll, rows, asked, status, started>>
  BY DEF GetLease, stateVars, boxVars, history
<1>1. c \in CallType /\ c.ts \in Nat /\ c.ts <= clock /\ c.pid \in StartedPids
      /\ c.pid \in Pids /\ clock \in Nat
  BY DEF GetLease, IInv, MemoryInv, TimeInv, StartedInv, CallType, Pids
<1>2. poll \in PollType /\ rows \subseteq Messages \cup Buttons
      /\ asked \in Nat /\ (Waiting => asked \in Questions)
  BY DEF IInv, MemoryInv
<1>3. CASE Kill(t) /\ UNCHANGED leaseVars
  <2>1. Steps(t)
    BY <1>1, <1>3, GotoSteps DEF Kill, Refuse, PCs
  <2> QED BY <1>0, <1>2, <1>3, <2>1, QuietStep DEF Waiting
<1>4. CASE MayTake(c.pid, c.ts) /\ WriteLease(c.pid, c.ts + AgentTimeout)
           /\ Goto(t, "patch")
  <2>1. Steps(t)
    BY <1>1, <1>4, GotoSteps DEF PCs
  <2>2. c.ts + AgentTimeout \in Nat
    BY <1>1, TimesAssumption
  <2>3. /\ LeaseInv'
        /\ (\A a \in Agents \ StartedPids : granted[a] = 0)'
        /\ DutySpec!Grant(c.pid)
    BY <1>0, <1>1, <1>4, <2>2, GrantByRule
  <2>4. /\ call' \in [Threads -> CallType]
        /\ \A u \in Threads : /\ call'[u].ts <= clock
                              /\ call'[u].pc \in {"lease", "patch"}
                                   => call'[u].pid \in StartedPids
    BY <2>1, CallSteps
  <2>5. MemoryInv' /\ TimeInv'
    BY <1>0, <1>1, <1>2, <2>4 DEF MemoryInv, TimeInv, Waiting
  <2>6. StartedInv'
    BY <1>0, <2>3, <2>4 DEF IInv, StartedInv, StartedPids
  <2> QED BY <1>1, <2>3, <2>5, <2>6 DEF IInv, Implements, DutySpec!Next
<1> QED BY <1>3, <1>4 DEF GetLease

\* The owner waits for an answer, wakes, and gives the lease on.
LEMMA MainQuiet == ASSUME IInv, MainStep PROVE IInv' /\ Implements
<1>0. poll \in PollType /\ rows \subseteq Messages \cup Buttons
      /\ asked \in Nat /\ (Waiting => asked \in Questions)
  BY DEF IInv, MemoryInv
<1>1. CASE Ask
  <2>1. asked' \in Questions /\ asked' \in Nat
    BY <1>0, <1>1, TimesAssumption DEF Ask, Questions
  <2> QED BY <1>0, <1>1, <2>1, QuietStep
          DEF Ask, procVars, memory, boxVars, history
<1>2. CASE WakeForQuestion
  <2>1. Steps(Main)
    BY <1>0, <1>2, CallStarts
       DEF WakeForQuestion, Reasons, Keys, Threads
  <2> QED BY <1>0, <1>2, <2>1, QuietStep
          DEF WakeForQuestion, procVars, stateVars, boxVars, history,
              Waiting, Threads
<1>3. CASE Finish
  <2>1. ~Waiting'
    BY <1>3 DEF Finish, Waiting
  <2> QED BY <1>0, <1>3, <2>1, QuietStep
          DEF Finish, procVars, memory, boxVars, history
<1>4. ASSUME NEW p \in Pids \cup {NoPid}, Answered(p)
      PROVE  IInv' /\ Implements
  <2>1. UNCHANGED <<clock, alive, started, call, poll, rows, asked>>
        /\ status' = "running"
    BY <1>4 DEF Answered, procVars, memory, boxVars, history
  <2>2. CASE p = NoPid
    <3>1. UNCHANGED leaseVars /\ ~Waiting'
      BY <1>4, <2>1, <2>2 DEF Answered, Waiting
    <3> QED BY <1>0, <2>1, <3>1, QuietStep
  <2>3. CASE p # NoPid
    <3>1. p \in alive /\ Write(p, clock, clock + AgentTimeout)
      BY <1>4, <2>3 DEF Answered
    <3>2. clock + AgentTimeout \in Nat
      BY TimesAssumption DEF IInv, TimeInv
    <3> QED BY <2>1, <3>1, <3>2, WriteStep
  <2> QED BY <2>2, <2>3
<1> QED BY <1>1, <1>2, <1>3, <1>4 DEF MainStep

\* The poller leaves the lease alone; it begins calls.
LEMMA PollQuiet == ASSUME IInv, PollStep PROVE IInv' /\ Implements
<1>0. poll \in PollType /\ rows \subseteq Messages \cup Buttons
      /\ asked \in Nat /\ (Waiting => asked \in Questions)
  BY DEF IInv, MemoryInv
<1>1. UNCHANGED <<clock, alive, leaseVars, started, asked, status>>
  BY DEF PollStep, Tick, Fetch, NextRow, MessageDone, Store, AckMessage,
         WakeForMessage, Button, AckButton, procVars, stateVars, history
<1>2. call' = call \/ Steps(Poller)
  <2>1. CASE UNCHANGED call
    BY <2>1
  <2>2. CASE Tick \/ WakeForMessage \/ Button
    <3>1. \/ UNCHANGED call
          \/ \E reason \in Reasons, key \in Keys : Call(Poller, reason, key)
      BY <1>0, <2>2 DEF Tick, WakeForMessage, Button, Reasons, Keys, PollType
    <3> QED BY <3>1, CallStarts DEF Threads
  <2> QED BY <2>1, <2>2
          DEF PollStep, Fetch, NextRow, MessageDone, Store, AckMessage,
              AckButton
<1>3. rows' \subseteq Messages \cup Buttons
  BY <1>0 DEF PollStep, Tick, Fetch, NextRow, MessageDone, Store,
         AckMessage, WakeForMessage, Button, AckButton, Acknowledge, boxVars
<1>4. poll' \in PollType
  <2>1. ASSUME NEW pc \in PollPCs, To(pc) PROVE poll' \in PollType
    BY <1>0, <2>1 DEF To, PollType
  <2>2. CASE Tick \/ MessageDone \/ Store \/ AckMessage \/ WakeForMessage
             \/ Button \/ AckButton
    <3>1. \E pc \in PollPCs : To(pc)
      BY <2>2 DEF Tick, MessageDone, Store, AckMessage, WakeForMessage,
         Button, AckButton, PollPCs
    <3> QED BY <3>1, <2>1
  <2>3. CASE Fetch
    BY <1>0, <2>3 DEF Fetch, Quiet, PollType, PollPCs, Keys
  <2>4. CASE NextRow
    BY <1>0, <2>4 DEF NextRow, Quiet, PollType, PollPCs, Keys
  <2> QED BY <2>2, <2>3, <2>4 DEF PollStep
<1> QED BY <1>0, <1>1, <1>2, <1>3, <1>4, QuietStep DEF Waiting, Threads

\* The hosts wait and read; whoever gets the lease is there.
LEMMA WaitQuiet == ASSUME IInv, WaitStep PROVE IInv' /\ Implements
<1>0. poll \in PollType /\ rows \subseteq Messages \cup Buttons
      /\ asked \in Nat /\ (Waiting => asked \in Questions)
      /\ {Refresh, Rest, AgentTimeout} \subseteq Nat /\ clock \in Nat
  BY TimesAssumption DEF IInv, MemoryInv, TimeInv
<1>1. UNCHANGED <<clock, alive, started, call, poll, rows, asked, status>>
  BY DEF WaitStep, StartWait, Look, Inbox, Rename, PrintMessages, procVars,
         stateVars, memory, boxVars, history
<1>2. ASSUME UNCHANGED leaseVars PROVE IInv' /\ Implements
  BY <1>0, <1>1, <1>2, QuietStep DEF Waiting
<1>3. ASSUME NEW p \in alive, NEW s \in Nat, Renew(p, s)
      PROVE  IInv' /\ Implements
  BY <1>0, <1>1, <1>3, WriteStep DEF Renew
<1>4. ASSUME NEW p \in Pids, NEW s \in Nat, Exit(p, s)
      PROVE  IInv' /\ Implements
  BY <1>2, <1>3, <1>4 DEF Exit
<1>5. CASE \E h \in Hosts : StartWait(h)
  BY <1>0, <1>3, <1>5 DEF StartWait
<1>6. CASE \E h \in Hosts : Look(h)
  <2> PICK h \in Hosts : Look(h)
    BY <1>6
  <2>1. \/ \E s \in Nat : Exit(h, s)
        \/ h \in alive /\ Renew(h, Refresh)
        \/ UNCHANGED leaseVars
    BY <1>0 DEF Look
  <2>2. h \in Pids
    BY DEF Pids
  <2> QED BY <1>0, <1>2, <1>3, <1>4, <2>1, <2>2
<1>7. CASE \E p \in Pids : Inbox(p) \/ \E m \in Messages : Rename(p, m)
  BY <1>2, <1>7 DEF Inbox, Rename
<1>8. CASE \E p \in Pids : PrintMessages(p)
  <2> PICK p \in Pids : PrintMessages(p)
    BY <1>8
  <2>1. (\E s \in Nat : Exit(p, s)) \/ UNCHANGED leaseVars
    BY <1>0 DEF PrintMessages
  <2> QED BY <1>2, <1>4, <2>1
<1> QED BY <1>5, <1>6, <1>7, <1>8 DEF WaitStep

\* Everybody else: rows, requests, deaths, restarts and time.
LEMMA EnvironmentQuiet == ASSUME IInv, Environment PROVE IInv' /\ Implements
<1>0. poll \in PollType /\ rows \subseteq Messages \cup Buttons
      /\ asked \in Nat /\ (Waiting => asked \in Questions)
  BY DEF IInv, MemoryInv
<1>1. CASE \E r \in Messages \cup Buttons : SendRow(r)
  <2> PICK r \in Messages \cup Buttons : SendRow(r)
    BY <1>1
  <2> QED BY <1>0, QuietStep
       DEF SendRow, procVars, stateVars, memory, history, Waiting
<1>2. CASE RequestWake \/ Resume
  BY <1>0, <1>2, QuietStep
     DEF RequestWake, Resume, procVars, stateVars, memory, boxVars, history,
         Waiting
<1>3. CASE OtherWakes
  BY <1>0, <1>3, QuietStep
     DEF OtherWakes, procVars, stateVars, memory, boxVars, history, Waiting
<1>4. CASE Crash
  <2>1. call' \in [Threads -> CallType]
        /\ \A u \in Threads : call'[u] = call[u] \/ call'[u] = Idle
    <3>1. Idle \in CallType
      BY DEF Idle, CallType, PCs, Reasons, Keys
    <3> QED BY <1>4, <3>1 DEF Crash, IInv, MemoryInv
  <2>2. Idle.ts = 0 /\ Idle.pc = "idle" /\ Quiet \in PollType
    BY DEF Idle, Quiet, PollType, PollPCs, Keys
  <2>3. UNCHANGED <<clock, alive, leaseVars, started, rows, asked, status>>
        /\ poll' = Quiet
    BY <1>4 DEF Crash, stateVars, boxVars, history
  <2>4. MemoryInv'
    BY <1>0, <2>1, <2>2, <2>3 DEF MemoryInv, Waiting
  <2>5. TimeInv' /\ LeaseInv'
    BY <2>1, <2>2, <2>3 DEF IInv, TimeInv, LeaseInv, leaseVars
  <2>6. StartedInv'
    BY <2>1, <2>2, <2>3 DEF IInv, StartedInv, StartedPids, leaseVars
  <2> QED BY <2>3, <2>4, <2>5, <2>6 DEF IInv, Implements, abstractVars,
                                        leaseVars
<1>5. CASE Time
  <2>1. UNCHANGED <<alive, leaseVars, started, call, poll, rows, asked, status>>
        /\ clock' = clock + 1
    BY <1>5 DEF Time, stateVars, memory, boxVars, history
  <2>2. MemoryInv' /\ TimeInv'
    BY <1>0, <2>1 DEF IInv, MemoryInv, TimeInv, Waiting, CallType
  <2>3. LeaseInv' /\ StartedInv'
    BY <2>1 DEF IInv, LeaseInv, StartedInv, StartedPids, leaseVars
  <2>4. DutySpec!Tick
    BY <2>1 DEF DutySpec!Tick, leaseVars
  <2> QED BY <2>2, <2>3, <2>4 DEF IInv, Implements, DutySpec!Next
<1>6. ASSUME NEW p \in Pids, Dies(p) PROVE IInv' /\ Implements
  <2>1. UNCHANGED <<clock, leaseVars, started, call, poll, rows, asked, status>>
        /\ alive' = alive \ {p}
    BY <1>6 DEF Dies, stateVars, memory, boxVars, history
  <2>2. MemoryInv' /\ TimeInv'
    BY <1>0, <2>1 DEF IInv, MemoryInv, TimeInv, Waiting
  <2>3. LeaseInv' /\ StartedInv'
    BY <2>1 DEF IInv, LeaseInv, StartedInv, StartedPids, leaseVars
  <2>4. DutySpec!Die(p)
    BY <2>1 DEF DutySpec!Die, leaseVars
  <2> QED BY <2>2, <2>3, <2>4 DEF IInv, Implements, DutySpec!Next
<1> QED BY <1>1, <1>2, <1>3, <1>4, <1>5, <1>6 DEF Environment

----------------------------------------------------------------------------
(* The theorems.                                                           *)

LEMMA InitStep == Init => IInv /\ DutySpec!Init
<1> SUFFICES ASSUME Init PROVE IInv /\ DutySpec!Init
  OBVIOUS
<1>1. Idle \in CallType /\ Idle.ts = 0 /\ Idle.pc = "idle"
      /\ Quiet \in PollType
  BY DEF Idle, CallType, PCs, Reasons, Keys, Quiet, PollType,
     PollPCs
<1>2. StartedPids = {}
  BY DEF Init, StartedPids
<1>3. MemoryInv /\ TimeInv
  BY <1>1 DEF Init, MemoryInv, TimeInv, Waiting
<1>4. LeaseInv
  BY PidsAssumption DEF Init, LeaseInv, NoLease, Pids
<1>5. StartedInv
  BY <1>1, <1>2, PidsAssumption DEF Init, StartedInv, Pids
<1>6. DutySpec!Init
  BY DEF Init, DutySpec!Init, NoLease, Pids
<1> QED BY <1>3, <1>4, <1>5, <1>6 DEF IInv

LEMMA NextStep ==
    IInv /\ [Next]_vars => IInv' /\ [DutySpec!Next]_(DutySpec!vars)
<1> SUFFICES ASSUME IInv, [Next]_vars
             PROVE  IInv' /\ Implements
  BY DEF Implements, abstractVars, DutySpec!vars
<1>1. CASE WakeSteps
  BY <1>1, WakeQuiet, LaunchStep, GetLeaseStep DEF WakeSteps, WakeStep
<1>2. CASE UNCHANGED vars
  <2>1. poll \in PollType /\ rows \subseteq Messages \cup Buttons
        /\ asked \in Nat /\ (Waiting => asked \in Questions)
    BY DEF IInv, MemoryInv
  <2> QED BY <1>2, <2>1, QuietStep
       DEF vars, procVars, stateVars, memory, boxVars, history, Waiting
<1> QED BY <1>1, <1>2, MainQuiet, PollQuiet, WaitQuiet, EnvironmentQuiet
        DEF Next

\* Waking, waiting and answering keep the promise of the lease: what hosts,
\* woken agents and the owner do to it is what Duty allows (lease.py).
THEOREM HostsImplementDuty == Spec => LeasePassesOn
<1>1. Spec => []IInv
  BY InitStep, NextStep, PTL DEF Spec
<1>2. Init => DutySpec!Init
  BY InitStep
<1>3. IInv /\ [Next]_vars => [DutySpec!Next]_(DutySpec!vars)
  BY NextStep
<1> QED BY <1>1, <1>2, <1>3, PTL DEF Spec, LeasePassesOn, DutySpec!Spec

\* Whoever is on duty is the one the lease names.
HolderInv == \A p \in Pids : DutySpec!OnDuty(p) => p = lease.pid

LEMMA HolderStep ==
    ASSUME IInv, Implements, IInv', HolderInv
    PROVE  HolderInv'
<1>0. clock \in Nat /\ granted \in [Pids -> Nat]
      /\ granted' \in [Pids -> Nat] /\ lease.pid \in Pids \cup {NoPid}
  BY DEF IInv, TimeInv, LeaseInv
<1> USE DEF HolderInv, DutySpec!OnDuty
<1>1. CASE UNCHANGED abstractVars
  BY <1>1 DEF abstractVars
<1>2. CASE DutySpec!Tick
  BY <1>0, <1>2 DEF DutySpec!Tick
<1>3. ASSUME NEW p \in Pids, DutySpec!Start(p) PROVE HolderInv'
  BY <1>0, <1>3 DEF DutySpec!Start
<1>4. ASSUME NEW p \in Pids, DutySpec!Die(p) PROVE HolderInv'
  BY <1>4 DEF DutySpec!Die
<1>5. ASSUME NEW p \in Pids, DutySpec!Grant(p) PROVE HolderInv'
  <2>1. ASSUME NEW q \in Pids, DutySpec!OnDuty(q)', q # p PROVE FALSE
    <3>1. DutySpec!OnDuty(q)
      BY <1>0, <1>5, <2>1 DEF DutySpec!Grant
    <3>2. lease.pid = q /\ q # NoPid /\ q \in alive /\ clock < granted[q]
      BY <3>1, PidsAssumption
    <3>3. ~(granted[q] <= clock) /\ granted[q] \in Nat
      BY <1>0, <3>2
    <3>4. ~DutySpec!Free
      BY <3>2, <3>3 DEF DutySpec!Free
    <3> QED BY <1>5, <2>1, <3>2, <3>4 DEF DutySpec!Grant
  <2> QED BY <1>5, <2>1 DEF DutySpec!Grant
<1> QED BY <1>1, <1>2, <1>3, <1>4, <1>5 DEF Implements, DutySpec!Next

\* One agent at a time is obliged to answer, whoever waits, wakes or is woken
\* and however long it takes (lease.py, write with if_may_take).
THEOREM OneAgentOnDuty == Spec => []OnlyOneOnDuty
<1>1. Init => IInv /\ HolderInv
  <2> SUFFICES ASSUME Init PROVE IInv /\ HolderInv
    OBVIOUS
  <2>1. IInv
    BY InitStep
  <2>2. \A p \in Pids : ~DutySpec!OnDuty(p)
    BY DEF Init, DutySpec!OnDuty
  <2> QED BY <2>1, <2>2 DEF HolderInv
<1>2. IInv /\ HolderInv /\ [Next]_vars => IInv' /\ HolderInv'
  <2> SUFFICES ASSUME IInv, HolderInv, [Next]_vars PROVE IInv' /\ HolderInv'
    OBVIOUS
  <2>1. IInv' /\ Implements
    BY NextStep DEF Implements, abstractVars, DutySpec!vars
  <2> QED BY <2>1, HolderStep
<1>3. HolderInv => OnlyOneOnDuty
  BY DEF HolderInv, OnlyOneOnDuty, DutySpec!OneOnDuty
<1> QED BY <1>1, <1>2, <1>3, PTL DEF Spec

----------------------------------------------------------------------------
(* The lock of wake(): what one call of the owner does in between is not   *)
(* disturbed by another one.                                               *)

\* The places at which a call of the owner holds wake._LOCK.
Held == {"limits", "stamp", "launch", "lease", "patch"}
MutexInv ==
    /\ \A t \in Threads : call[t].pc \in Held => mutex = t
    /\ poll.pc \in {"look", "lookRead", "store", "ack", "ackDone", "wake", "button"}
          => call[Poller] = Idle


\* What a step of one thread leaves of the other calls.
OthersKept(t) == \A u \in Threads : u # t => call'[u] = call[u]
SameWake(t) == /\ call'[t].ts = call[t].ts /\ call'[t].reason = call[t].reason
               /\ call'[t].key = call[t].key

LEMMA GotoFrame ==
    ASSUME IInv, NEW t \in Threads, NEW pc, Goto(t, pc)
    PROVE  /\ call'[t].pc = pc /\ call'[t].pid = call[t].pid
           /\ SameWake(t) /\ OthersKept(t)
<1>1. call \in [Threads -> CallType] /\ call[t] \in CallType
  BY DEF IInv, MemoryInv
<1>2. call' = [call EXCEPT ![t] = [call[t] EXCEPT !.pc = pc]]
  BY DEF Goto
<1>3. call'[t] = [call[t] EXCEPT !.pc = pc] /\ OthersKept(t)
  BY <1>1, <1>2 DEF OthersKept
<1> QED BY <1>1, <1>3 DEF CallType, SameWake

LEMMA CallFrame ==
    ASSUME IInv, NEW t \in Threads, NEW reason, NEW key, Call(t, reason, key)
    PROVE  /\ call'[t].pc = "enter" /\ call'[t].pid = NoPid
           /\ OthersKept(t)
<1>1. call' = [call EXCEPT ![t] = [pc |-> "enter", ts |-> clock,
                                   reason |-> reason, key |-> key,
                                   pid |-> NoPid]]
  BY DEF Call
<1> QED BY <1>1 DEF IInv, MemoryInv, OthersKept

LEMMA IdleFrame ==
    ASSUME IInv, NEW t \in Threads, call' = [call EXCEPT ![t] = Idle]
    PROVE  /\ call'[t] = Idle /\ call'[t].pc = "idle" /\ call'[t].pid = NoPid
           /\ OthersKept(t)
<1>1. call'[t] = Idle /\ OthersKept(t)
  BY DEF IInv, MemoryInv, OthersKept
<1> QED BY <1>1 DEF Idle

\* The agent that Launch started, in the call that started it.
LEMMA LaunchFrame ==
    ASSUME IInv, NEW t \in Threads, NEW a,
           call' = [call EXCEPT ![t].pc = "lease", ![t].pid = a]
    PROVE  /\ call'[t].pc = "lease" /\ call'[t].pid = a
           /\ SameWake(t) /\ OthersKept(t)
<1>1. call \in [Threads -> CallType] /\ call[t] \in CallType
  BY DEF IInv, MemoryInv
<1>2. call' = [call EXCEPT ![t] = [[call[t] EXCEPT !.pc = "lease"] EXCEPT !.pid = a]]
  BY <1>1
<1>3. call'[t] = [[call[t] EXCEPT !.pc = "lease"] EXCEPT !.pid = a]
      /\ OthersKept(t)
  BY <1>1, <1>2 DEF OthersKept
<1> QED BY <1>1, <1>3 DEF CallType, SameWake

\* A call goes on, and what it does to the lock.
LEMMA LockStep ==
    ASSUME IInv, MutexInv, NEW t \in Threads, OthersKept(t), UNCHANGED poll,
           t = Poller => call[Poller].pc # "idle",
           \/ mutex = Free /\ mutex' = t
           \/ mutex = t /\ UNCHANGED mutex
           \/ mutex = t /\ mutex' = Free /\ call'[t].pc \notin Held
           \/ UNCHANGED mutex /\ call'[t].pc \notin Held
    PROVE  MutexInv'
<1> USE DEF MutexInv, OthersKept, Threads, Poller, Main, Free
<1>1. (\A u \in Threads : call[u].pc \in Held => mutex = u)'
  OBVIOUS
<1>2. Idle.pc = "idle"
  BY DEF Idle
<1>3. (poll.pc \in {"look", "lookRead", "store", "ack", "ackDone", "wake", "button"}
          => call[Poller] = Idle)'
  BY <1>2
<1> QED BY <1>1, <1>3

\* The steps of wake() respect its lock.
LEMMA WakeLocks ==
    ASSUME IInv, MutexInv, NEW t \in Threads, WakeStep(t) PROVE MutexInv'
<1>0. /\ UNCHANGED poll /\ call[t].pc # "idle"
      /\ (call[t].pc \in Held => mutex = t)
  <2>1. UNCHANGED poll /\ call[t].pc # "idle"
    <3>1. CASE Enter(t) \/ Limits(t) \/ WriteStamp(t)
      BY <3>1 DEF Enter, Limits, WriteStamp
    <3>2. CASE Launch(t) \/ LoseAgent(t) \/ GetLease(t)
      BY <3>2 DEF Launch, LoseAgent, GetLease
    <3>3. CASE Patch(t)
      BY <3>3 DEF Patch
    <3>4. CASE Decide(t)
      BY <3>4 DEF Decide
    <3> QED BY <3>1, <3>2, <3>3, <3>4 DEF WakeStep
  <2> QED BY <2>1 DEF MutexInv
<1>1. CASE Enter(t)
  <2>1. \E pc \in {"refused", "limits"} : Goto(t, pc)
    BY <1>1 DEF Enter
  <2>2. OthersKept(t) /\ call'[t].pc \in {"refused", "limits"}
    BY <2>1, GotoFrame
  <2>3. CASE Stamped(call[t]) \/ OnDuty(call[t].ts)
    <3>1. call'[t].pc = "refused" /\ UNCHANGED mutex
      BY <1>1, <2>3, GotoFrame DEF Enter
    <3> QED BY <1>0, <2>2, <3>1, LockStep DEF Held
  <2>4. CASE ~(Stamped(call[t]) \/ OnDuty(call[t].ts))
    BY <1>0, <1>1, <2>2, <2>4, LockStep DEF Enter
  <2> QED BY <2>3, <2>4
<1>2. CASE Limits(t)
  <2>1. mutex = t
    BY <1>0, <1>2 DEF Limits, Held
  <2>2. CASE Refuse(t)
    <3>1. call'[t].pc = "refused" /\ OthersKept(t) /\ mutex' = Free
      BY <2>2, GotoFrame DEF Refuse
    <3> QED BY <1>0, <2>1, <3>1, LockStep DEF Held
  <2>3. CASE Goto(t, "stamp") /\ UNCHANGED mutex
    BY <1>0, <2>1, <2>3, GotoFrame, LockStep
  <2> QED BY <1>2, <2>2, <2>3 DEF Limits
<1>3. ASSUME Refuse(t) PROVE call'[t].pc = "refused" /\ OthersKept(t) /\ mutex' = Free
  BY <1>3, GotoFrame DEF Refuse
<1>4. CASE \/ WriteStamp(t) \/ Launch(t) \/ LoseAgent(t) \/ GetLease(t)
           \/ Patch(t)
  <2>1. mutex = t
    BY <1>0, <1>4 DEF WriteStamp, Launch, LoseAgent, GetLease, Patch, Held
  <2>2. \/ Refuse(t)
        \/ /\ UNCHANGED mutex
           /\ \/ \E pc : Goto(t, pc)
              \/ \E a : call' = [call EXCEPT ![t].pc = "lease", ![t].pid = a]
        \/ mutex' = Free /\ Goto(t, "woken")
    BY <1>4 DEF WriteStamp, Launch, LoseAgent, GetLease, Patch, Kill
  <2>3. CASE Refuse(t)
    BY <1>0, <1>3, <2>1, <2>3, LockStep DEF Held
  <2>4. CASE mutex' = Free /\ Goto(t, "woken")
    <3>1. call'[t].pc = "woken" /\ OthersKept(t)
      BY <2>4, GotoFrame
    <3> QED BY <1>0, <2>1, <2>4, <3>1, LockStep DEF Held
  <2>5. CASE UNCHANGED mutex /\ \E pc : Goto(t, pc)
    BY <1>0, <2>1, <2>5, GotoFrame, LockStep
  <2>6. CASE UNCHANGED mutex
             /\ \E a : call' = [call EXCEPT ![t].pc = "lease", ![t].pid = a]
    BY <1>0, <2>1, <2>6, LaunchFrame, LockStep
  <2> QED BY <2>2, <2>3, <2>4, <2>5, <2>6
<1>5. CASE Decide(t)
  <2>1. UNCHANGED mutex /\ call'[t].pc = "idle" /\ OthersKept(t)
    BY <1>5, IdleFrame DEF Decide
  <2> QED BY <1>0, <2>1, LockStep DEF Held
<1> QED BY <1>1, <1>2, <1>4, <1>5 DEF WakeStep

\* Every step respects the lock.
LEMMA LockNext ==
    ASSUME IInv, MutexInv, [Next]_vars PROVE MutexInv'
<1> USE DEF Threads, Poller, Main
<1>0. Idle.pc = "idle" /\ Idle.pc \notin Held
  BY DEF Idle, Held
<1>1. ASSUME UNCHANGED <<mutex, call>>,
             poll'.pc \notin {"look", "lookRead", "store", "ack", "ackDone",
                              "wake", "button"}
               \/ call[Poller] = Idle
      PROVE  MutexInv'
  BY <1>1 DEF MutexInv
<1>2. ASSUME NEW t \in Threads, NEW reason, NEW key, Call(t, reason, key),
             UNCHANGED mutex,
             call[t] = Idle, t # Poller => UNCHANGED poll,
             t = Poller => poll'.pc \notin {"look", "lookRead", "store", "ack",
                                            "ackDone", "wake", "button"}
      PROVE  MutexInv'
  <2>1. call'[t].pc = "enter" /\ OthersKept(t)
    BY <1>2, CallFrame
  <2>2. (\A u \in Threads : call[u].pc \in Held => mutex = u)'
    BY <1>2, <2>1 DEF MutexInv, OthersKept, Held
  <2>3. (poll.pc \in {"look", "lookRead", "store", "ack", "ackDone", "wake", "button"}
            => call[Poller] = Idle)'
    BY <1>2, <2>1 DEF MutexInv, OthersKept
  <2> QED BY <2>2, <2>3 DEF MutexInv
<1>3. CASE WakeSteps
  BY <1>3, WakeLocks DEF WakeSteps
<1>4. CASE MainStep
  <2>1. CASE WakeForQuestion
    BY <1>2, <2>1 DEF WakeForQuestion
  <2>2. CASE ~WakeForQuestion
    BY <1>1, <1>4, <2>2 DEF MainStep, Ask, Finish, Answered, memory, MutexInv
  <2> QED BY <2>1, <2>2
<1>5. CASE PollStep
  <2>0. poll \in PollType
    BY DEF IInv, MemoryInv
  <2>1. ASSUME NEW pc, To(pc) PROVE poll'.pc = pc
    BY <2>0, <2>1 DEF To, PollType
  <2>2. CASE Tick
    <3>1. poll'.pc = "fetch"
      BY <2>1, <2>2 DEF Tick
    <3> QED BY <1>1, <1>2, <2>2, <3>1 DEF Tick, PollerIdle
  <2>3. CASE Fetch \/ NextRow
    <3>1. poll'.pc \in {"idle", "next"} \/ call[Poller] = Idle
      BY <2>3 DEF Fetch, NextRow, Quiet, PollerIdle
    <3> QED BY <1>1, <2>3, <3>1 DEF Fetch, NextRow
  <2>4. CASE MessageDone \/ Store \/ AckMessage
    BY <1>1, <2>4 DEF MessageDone, Store, AckMessage, MutexInv
  <2>5. CASE WakeForMessage \/ Button
    <3>1. poll'.pc \in {"next", "ackButton"} /\ call[Poller] = Idle
      BY <2>1, <2>5 DEF WakeForMessage, Button, MutexInv
    <3> QED BY <1>1, <1>2, <2>5, <3>1 DEF WakeForMessage, Button
  <2>6. CASE AckButton
    BY <1>1, <2>6 DEF AckButton, PollerIdle
  <2> QED BY <1>5, <2>2, <2>3, <2>4, <2>5, <2>6 DEF PollStep
<1>6. CASE WaitStep
  BY <1>1, <1>6 DEF WaitStep, StartWait, Look, Inbox, Rename, PrintMessages,
     memory, MutexInv
<1>7. CASE Environment
  <2>1. CASE Crash
    <3>1. /\ call'[Poller] = Idle /\ call'[Main] = Idle /\ poll'.pc = "idle"
      BY <2>1 DEF Crash, Quiet, IInv, MemoryInv
    <3> QED BY <1>0, <3>1 DEF MutexInv
  <2>2. CASE ~Crash
    BY <1>1, <1>7, <2>2 DEF Environment, SendRow, RequestWake, OtherWakes,
       Resume, Time, Dies, memory, MutexInv
  <2> QED BY <2>1, <2>2
<1>8. CASE UNCHANGED vars
  BY <1>1, <1>8 DEF vars, memory, MutexInv
<1> QED BY <1>3, <1>4, <1>5, <1>6, <1>7, <1>8 DEF Next

----------------------------------------------------------------------------
(* Stamps: a question and a message wake one agent.                        *)

\* A wake and a stamp about the same thing; one of those was made.
SameKey(c, s) == s.reason = c.reason /\ s.key = c.key
Keyed(c) == c.reason \in KeyedReasons
Marked(c) == \E e \in woken : SameKey(c, e)

\* Nothing was started before its stamp was written, and a call that goes on
\* found none.
StampInv ==
    /\ \A s \in started : Keyed(s) => Marked(s)
    /\ \A t \in Threads :
          Keyed(call[t]) =>
              /\ call[t].pc \in {"limits", "stamp"} => ~Marked(call[t])
              /\ call[t].pc = "launch" =>
                    /\ Marked(call[t])
                    /\ \A s \in started : ~SameKey(call[t], s)
    /\ StartedOnce


\* Where no stamp and no agent is made, and no call passes a check.
LEMMA StampQuiet ==
    ASSUME StampInv, UNCHANGED <<woken, started>>,
           \A t \in Threads : \/ call'[t] = call[t]
                           \/ call'[t].pc \notin {"limits", "stamp", "launch"}
    PROVE  StampInv'
BY DEF StampInv, StartedOnce, Marked, SameKey, Keyed

\* A call that goes on without one.
LEMMA StampGoes ==
    ASSUME IInv, StampInv, NEW t \in Threads, NEW pc, Goto(t, pc),
           UNCHANGED <<woken, started>>,
           pc = "limits" /\ Keyed(call[t]) => ~Marked(call[t]),
           pc = "stamp" => call[t].pc = "limits",
           pc # "launch"
    PROVE  StampInv'
<1>1. call'[t].pc = pc /\ SameWake(t) /\ OthersKept(t)
  BY GotoFrame
<1> QED BY <1>1 DEF StampInv, StartedOnce, Marked, SameKey, Keyed,
        SameWake, OthersKept

\* The steps of wake() keep the stamps in front of the launches.
LEMMA WakeStamps ==
    ASSUME IInv, MutexInv, StampInv, NEW t \in Threads, WakeStep(t)
    PROVE  StampInv'
<1>1. CASE Enter(t)
  <2>1. PICK pc \in {"refused", "limits"} : Goto(t, pc)
    BY <1>1 DEF Enter
  <2>2. UNCHANGED <<woken, started>>
    BY <1>1 DEF Enter, stateVars, history
  <2>3. CASE Stamped(call[t]) \/ OnDuty(call[t].ts)
    <3>1. Goto(t, "refused")
      BY <1>1, <2>3 DEF Enter
    <3> QED BY <2>2, <3>1, StampGoes
  <2>4. CASE ~Stamped(call[t])
    <3>1. Keyed(call[t]) => ~Marked(call[t])
      BY <2>4 DEF Stamped, Keyed, Marked, SameKey
    <3> QED BY <2>1, <2>2, <3>1, StampGoes
  <2> QED BY <2>3, <2>4
<1>2. CASE Limits(t)
  <2>1. PICK pc \in {"refused", "stamp"} : Goto(t, pc)
    BY <1>2 DEF Limits, Refuse
  <2>2. UNCHANGED <<woken, started>> /\ call[t].pc = "limits"
    BY <1>2 DEF Limits, stateVars, history
  <2> QED BY <2>1, <2>2, StampGoes
<1>3. CASE WriteStamp(t)
  <2>1. UNCHANGED started /\ call[t].pc = "stamp"
    BY <1>3 DEF WriteStamp, history
  <2>2. CASE Refuse(t) /\ UNCHANGED woken
    BY <2>1, <2>2, StampGoes DEF Refuse
  <2>3. CASE woken' = woken \cup {Stamp(call[t])} /\ Goto(t, "launch")
    <3>1. call'[t].pc = "launch" /\ SameWake(t) /\ OthersKept(t)
      BY <2>3, GotoFrame
    <3>2. mutex = t
      BY <2>1 DEF MutexInv, Held
    <3>3. SameKey(call[t], Stamp(call[t]))
      BY DEF SameKey, Stamp
    <3>4. Marked(call[t])'
      BY <2>3, <3>1, <3>3 DEF Marked, SameKey, SameWake
    <3>5. ASSUME NEW x, Marked(x) PROVE (\E e \in woken : SameKey(x, e))'
      BY <2>3, <3>5 DEF Marked, SameKey
    <3>6. Keyed(call[t]) => \A s \in started : ~SameKey(call[t], s)
      BY <2>1 DEF StampInv, Marked, Keyed, SameKey
    <3>7. ASSUME NEW u \in Threads, u # t
          PROVE  call'[u] = call[u] /\ call[u].pc \notin {"limits", "stamp", "launch"}
      BY <3>1, <3>2, <3>7 DEF MutexInv, Held, OthersKept
    <3>8. (\A s \in started : Keyed(s) => Marked(s))'
      BY <2>1, <3>5 DEF StampInv, Marked, Keyed, SameKey
    <3>9. ASSUME NEW u \in Threads, Keyed(call'[u])
          PROVE  /\ call'[u].pc \notin {"limits", "stamp"}
                 /\ call'[u].pc = "launch" =>
                      /\ Marked(call[u])'
                      /\ \A s \in started' : ~SameKey(call'[u], s)
      <4>1. CASE u = t
        BY <2>1, <3>1, <3>4, <3>6, <3>9, <4>1 DEF Keyed, SameKey, SameWake
      <4>2. CASE u # t
        BY <3>7, <4>2
      <4> QED BY <4>1, <4>2
    <3>10. StartedOnce'
      BY <2>1 DEF StampInv, StartedOnce
    <3> QED BY <3>8, <3>9, <3>10 DEF StampInv, Marked, SameKey, Keyed
  <2> QED BY <1>3, <2>2, <2>3 DEF WriteStamp
<1>4. CASE Launch(t)
  <2>1. UNCHANGED woken /\ call[t].pc = "launch"
    BY <1>4 DEF Launch, stateVars
  <2>2. CASE Refuse(t) /\ UNCHANGED started
    BY <2>1, <2>2, StampGoes DEF Refuse
  <2>3. ASSUME NEW a, started' = started \cup {Stamp([call[t] EXCEPT !.pid = a])},
               call' = [call EXCEPT ![t].pc = "lease", ![t].pid = a]
        PROVE  StampInv'
    <3> DEFINE new == Stamp([call[t] EXCEPT !.pid = a])
    <3>1. call[t] \in CallType
      BY DEF IInv, MemoryInv
    <3>2. new.reason = call[t].reason /\ new.key = call[t].key
      BY <3>1 DEF Stamp, CallType
    <3>3. started' = started \cup {new}
      BY <2>3
    <3> HIDE DEF new
    <3>4. call'[t].pc = "lease" /\ SameWake(t) /\ OthersKept(t)
      BY <2>3, LaunchFrame
    <3>5. mutex = t
      BY <2>1 DEF MutexInv, Held
    <3>6. ASSUME NEW u \in Threads PROVE call'[u].pc \notin {"limits", "stamp", "launch"}
      BY <3>4, <3>5, <3>6 DEF MutexInv, Held, OthersKept
    <3>7. Keyed(call[t]) =>
            Marked(call[t]) /\ \A s \in started : ~SameKey(call[t], s)
      BY <2>1 DEF StampInv
    <3>8. Keyed(new) => Marked(new) /\ \A s \in started : ~SameKey(new, s)
      BY <3>2, <3>7 DEF Keyed, Marked, SameKey
    <3>9. (\A s \in started : Keyed(s) => Marked(s))'
      BY <2>1, <3>3, <3>8 DEF StampInv, Marked, Keyed, SameKey
    <3>10. StartedOnce'
      BY <3>3, <3>8 DEF StampInv, StartedOnce, Keyed, SameKey
    <3> QED BY <3>6, <3>9, <3>10 DEF StampInv
  <2> QED BY <1>4, <2>2, <2>3 DEF Launch
<1>5. CASE GetLease(t) \/ LoseAgent(t)
  <2>1. UNCHANGED <<woken, started>>
    BY <1>5 DEF GetLease, LoseAgent, stateVars, history
  <2>2. \E pc \in {"patch", "refused"} : Goto(t, pc)
    BY <1>5 DEF GetLease, LoseAgent, Kill, Refuse
  <2> QED BY <2>1, <2>2, StampGoes
<1>6. CASE Patch(t)
  <2>1. UNCHANGED started /\ call[t].pc = "patch"
    BY <1>6 DEF Patch, history
  <2>2. CASE UNCHANGED woken /\ Kill(t)
    BY <2>1, <2>2, StampGoes DEF Kill, Refuse
  <2>3. ASSUME woken' = (woken \ {Stamp([call[t] EXCEPT !.pid = NoPid])})
                          \cup {Stamp(call[t])},
               Goto(t, "woken")
        PROVE  StampInv'
    <3> DEFINE old == Stamp([call[t] EXCEPT !.pid = NoPid])
    <3>1. call[t] \in CallType
      BY DEF IInv, MemoryInv
    <3>2. /\ old.reason = call[t].reason /\ old.key = call[t].key
          /\ Stamp(call[t]).reason = call[t].reason
          /\ Stamp(call[t]).key = call[t].key
      BY <3>1 DEF Stamp, CallType
    <3>3. woken' = (woken \ {old}) \cup {Stamp(call[t])}
      BY <2>3
    <3> HIDE DEF old
    <3>4. ASSUME NEW x, Marked(x) PROVE \E e \in woken' : SameKey(x, e)
      BY <3>2, <3>3, <3>4 DEF Marked, SameKey
    <3>5. call'[t].pc = "woken" /\ OthersKept(t) /\ mutex = t
      BY <2>1, <2>3, GotoFrame DEF MutexInv, Held
    <3>6. ASSUME NEW u \in Threads PROVE call'[u].pc \notin {"limits", "stamp", "launch"}
      BY <3>5, <3>6 DEF MutexInv, Held, OthersKept
    <3>7. (\A s \in started : Keyed(s) => Marked(s))'
      BY <2>1, <3>4 DEF StampInv, Marked, Keyed, SameKey
    <3> QED BY <2>1, <3>6, <3>7 DEF StampInv, StartedOnce
  <2> QED BY <1>6, <2>2, <2>3 DEF Patch
<1>7. CASE Decide(t)
  <2>1. call'[t].pc = "idle" /\ OthersKept(t) /\ UNCHANGED <<woken, started>>
    BY <1>7, IdleFrame DEF Decide, history
  <2> QED BY <2>1, StampQuiet DEF OthersKept
<1> QED BY <1>1, <1>2, <1>3, <1>4, <1>5, <1>6, <1>7 DEF WakeStep

\* What the other steps do to calls, stamps and agents: at most a call begins
\* or is forgotten.
LEMMA NoWakeSteps ==
    ASSUME IInv, MutexInv, [Next]_vars, ~WakeSteps
    PROVE  /\ UNCHANGED <<woken, started, unseen, killed>>
           /\ OtherWakes \/ UNCHANGED log
           /\ \A t \in Threads :
                 \/ call'[t] = call[t]
                 \/ call[t].pid = NoPid /\ call'[t].pid = NoPid
                       /\ call'[t].pc = "enter"
                 \/ Crash /\ call'[t] = Idle
<1>0. Idle.pid = NoPid
  BY DEF Idle
<1>1. CASE MainStep
  <2>1. CASE WakeForQuestion
    BY <1>0, <2>1, CallFrame DEF WakeForQuestion, Threads, OthersKept, procVars,
       stateVars, history
  <2>2. CASE ~WakeForQuestion
    BY <1>1, <2>2 DEF MainStep, Ask, Finish, Answered, memory, procVars, history
  <2> QED BY <2>1, <2>2
<1>2. CASE PollStep
  <2>1. UNCHANGED <<woken, started, unseen, log, killed>>
    BY <1>2 DEF PollStep, Tick, Fetch, NextRow, MessageDone, Store, AckMessage,
       WakeForMessage, Button, AckButton, procVars, stateVars, history
  <2>2. CASE UNCHANGED call
    BY <2>1, <2>2
  <2>3. CASE Tick \/ WakeForMessage \/ Button
    <3>1. call[Poller] = Idle
      BY <2>3 DEF Tick, WakeForMessage, Button, PollerIdle, MutexInv
    <3>2. \/ UNCHANGED call
          \/ \E reason, key : Call(Poller, reason, key)
      BY <2>3 DEF Tick, WakeForMessage, Button
    <3> QED BY <1>0, <2>1, <2>2, <3>1, <3>2, CallFrame DEF Threads, OthersKept
  <2> QED BY <1>2, <2>2, <2>3 DEF PollStep, Fetch, NextRow, MessageDone, Store,
             AckMessage, AckButton
<1>3. CASE WaitStep
  BY <1>3 DEF WaitStep, StartWait, Look, Inbox, Rename, PrintMessages,
     memory, procVars, stateVars, history
<1>4. CASE Environment
  <2>1. CASE OtherWakes
    BY <2>1 DEF OtherWakes, procVars, stateVars, memory, history
  <2>2. CASE Crash
    <3>1. call'[Poller] = Idle /\ call'[Main] = Idle
      BY <2>2 DEF Crash, IInv, MemoryInv, Threads, Poller, Main
    <3>2. UNCHANGED <<woken, started, unseen, log, killed>>
      BY <2>2 DEF Crash, stateVars, history
    <3> QED BY <2>2, <3>1, <3>2 DEF Threads
  <2>3. CASE ~OtherWakes /\ ~Crash
    BY <1>4, <2>3 DEF Environment, SendRow, RequestWake, Resume, Time, Dies,
       memory, procVars, stateVars, history
  <2> QED BY <2>1, <2>2, <2>3
<1>5. CASE UNCHANGED vars
  BY <1>5 DEF vars, memory, procVars, stateVars, history
<1> QED BY <1>1, <1>2, <1>3, <1>4, <1>5 DEF Next

\* Every step keeps the stamps in front of the launches.
LEMMA StampNext ==
    ASSUME IInv, MutexInv, StampInv, [Next]_vars PROVE StampInv'
<1>1. CASE WakeSteps
  BY <1>1, WakeStamps DEF WakeSteps
<1>2. CASE ~WakeSteps
  <2>1. Idle.pc = "idle"
    BY DEF Idle
  <2> QED BY <1>2, <2>1, NoWakeSteps, StampQuiet
<1> QED BY <1>1, <1>2

\* The invariants of the lease and of the lock hold together.
LEMMA LockCorrect == Spec => [](IInv /\ MutexInv)
<1>1. Init => IInv /\ MutexInv
  <2> SUFFICES ASSUME Init PROVE IInv /\ MutexInv
    OBVIOUS
  <2>1. \A t \in Threads : call[t].pc = "idle"
    BY DEF Init, Idle
  <2>2. poll.pc = "idle"
    BY DEF Init, Quiet
  <2> QED BY <2>1, <2>2, InitStep DEF MutexInv, Held
<1>2. IInv /\ MutexInv /\ [Next]_vars => IInv' /\ MutexInv'
  BY NextStep, LockNext
<1> QED BY <1>1, <1>2, PTL DEF Spec

\* One agent is started for a question and one for a message, whatever
\* threads, deaths of the owner and lost acknowledgements ask for it again.
THEOREM OneAgentPerQuestion == Spec => []StartedOnce
<1>1. Init => StampInv
  <2> SUFFICES ASSUME Init PROVE StampInv
    OBVIOUS
  <2>1. \A t \in Threads : call[t].pc = "idle"
    BY DEF Init, Idle
  <2> QED BY <2>1 DEF Init, StampInv, StartedOnce
<1>2. IInv /\ MutexInv /\ StampInv /\ [Next]_vars => StampInv'
  BY StampNext
<1>3. StampInv => StartedOnce
  BY DEF StampInv
<1> QED BY <1>1, <1>2, <1>3, LockCorrect, PTL DEF Spec

----------------------------------------------------------------------------
(* The agents that were started are looked after.                          *)

\* How far the agent of a call has got.
Looked(c) ==
    /\ Stamp(c) \in started
    /\ \/ c.pc = "lease"
       \/ c.pc = "patch" /\ granted[c.pid] > 0
       \/ c.pc = "woken" /\ granted[c.pid] > 0 /\ Stamp(c) \in woken
       \/ c.pc = "refused" /\ c.pid \in killed \cup unseen
LookedAfter(s) ==
    \/ s.pid \in killed \cup unseen
    \/ \E t \in Threads : call[t].pid = s.pid
    \/ s \in woken /\ granted[s.pid] > 0

\* Every agent of a call is on its way, and the others are looked after.
AgentInv ==
    /\ \A s1, s2 \in started : s1.pid = s2.pid => s1 = s2
    /\ \A t \in Threads :
          call[t].pid # NoPid => Looked(call[t])
    /\ crashes \in Nat
    /\ NoOrphans

\* A lease once granted stays a time after zero.
LEMMA GrantsStay ==
    ASSUME IInv, [Next]_vars, NEW p \in Pids, granted[p] > 0
    PROVE  granted'[p] > 0
<1>0. /\ granted \in [Pids -> Nat] /\ clock \in Nat
      /\ \A t \in Threads : call[t].ts \in Nat
      /\ {AgentTimeout, Refresh, Rest} \subseteq Nat \ {0}
  BY TimesAssumption DEF IInv, MemoryInv, LeaseInv, TimeInv, CallType
<1>1. ASSUME NEW q, NEW until \in Nat \ {0},
             WriteLease(q, until) \/ UNCHANGED leaseVars
      PROVE  granted'[p] > 0
  BY <1>0, <1>1 DEF WriteLease, leaseVars
<1>2. ASSUME NEW q, NEW s \in Nat \ {0}, Write(q, clock, clock + s)
      PROVE  granted'[p] > 0
  <2>1. clock + s \in Nat \ {0}
    BY <1>0
  <2> QED BY <1>1, <1>2, <2>1 DEF Write
<1>3. ASSUME NEW h, NEW s \in Nat, Exit(h, s) PROVE granted'[p] > 0
  <2>1. CASE s > 0 /\ h \in alive
    BY <1>2, <1>3, <2>1 DEF Exit, Renew
  <2>2. CASE ~(s > 0 /\ h \in alive)
    BY <1>0, <1>3, <2>2 DEF Exit, leaseVars
  <2> QED BY <2>1, <2>2
<1>4. ASSUME UNCHANGED leaseVars PROVE granted'[p] > 0
  BY <1>4 DEF leaseVars
<1>5. CASE WakeSteps
  <2> PICK t \in Threads : WakeStep(t)
    BY <1>5 DEF WakeSteps
  <2>1. CASE GetLease(t)
    <3>1. call[t].ts + AgentTimeout \in Nat \ {0}
      BY <1>0
    <3> QED BY <1>1, <2>1, <3>1 DEF GetLease
  <2>2. CASE Enter(t) \/ Limits(t) \/ WriteStamp(t)
    BY <1>4, <2>2 DEF Enter, Limits, WriteStamp
  <2>3. CASE Launch(t) \/ LoseAgent(t) \/ Patch(t) \/ Decide(t)
    BY <1>4, <2>3 DEF Launch, LoseAgent, Patch, Decide
  <2> QED BY <2>1, <2>2, <2>3 DEF WakeStep
<1>6. CASE MainStep
  <2>1. ASSUME NEW q, Answered(q) PROVE granted'[p] > 0
    BY <1>0, <1>2, <1>4, <2>1 DEF Answered
  <2> QED BY <1>4, <1>6, <2>1 DEF MainStep, Ask, WakeForQuestion, Finish
<1>7. CASE PollStep
  BY <1>4, <1>7 DEF PollStep, Tick, Fetch, NextRow, MessageDone, Store,
     AckMessage, WakeForMessage, Button, AckButton
<1>8. CASE WaitStep
  <2>1. ASSUME NEW h, StartWait(h) PROVE granted'[p] > 0
    BY <1>0, <1>2, <2>1 DEF StartWait, Renew
  <2>2. ASSUME NEW h, Look(h) PROVE granted'[p] > 0
    BY <1>0, <1>2, <1>3, <1>4, <2>2 DEF Look, Renew
  <2>3. ASSUME NEW q, Inbox(q) \/ \E m \in Messages : Rename(q, m)
        PROVE  granted'[p] > 0
    BY <1>4, <2>3 DEF Inbox, Rename
  <2>4. ASSUME NEW q, PrintMessages(q) PROVE granted'[p] > 0
    BY <1>0, <1>3, <1>4, <2>4 DEF PrintMessages
  <2> QED BY <1>8, <2>1, <2>2, <2>3, <2>4 DEF WaitStep
<1>9. CASE Environment
  BY <1>4, <1>9 DEF Environment, SendRow, RequestWake, OtherWakes, Crash, Resume,
     Time, Dies
<1>10. CASE UNCHANGED vars
  BY <1>4, <1>10 DEF vars
<1> QED BY <1>5, <1>6, <1>7, <1>8, <1>9, <1>10 DEF Next

\* Nothing is started: the calls keep their agents, or have none.
LEMMA AgentQuiet ==
    ASSUME IInv, AgentInv, [Next]_vars, UNCHANGED started,
           crashes' \in Nat, crashes' = 0 => crashes = 0,
           killed \subseteq killed', unseen \subseteq unseen',
           \A e \in woken : e.pid # NoPid => e \in woken',
           \A t \in Threads :
              \/ call'[t].pid = NoPid
                   /\ (call[t].pid = NoPid
                         \/ call[t].pc \in {"woken", "refused"}
                         \/ crashes' # 0)
              \/ Looked(call[t])' /\ call'[t].pid = call[t].pid
              \/ call'[t] = call[t]
    PROVE  AgentInv'
<1>0. /\ \A s \in started : s.pid \in Agents /\ s.pid # NoPid /\ s.pid \in Pids
      /\ \A t \in Threads : call[t].pid # NoPid => call[t].pid \in Pids
  BY PidsAssumption DEF IInv, StartedInv, StartedPids, Pids, MemoryInv, CallType
<1>1. \A p \in Pids : granted[p] > 0 => granted'[p] > 0
  BY GrantsStay
<1>2. \A t \in Threads : Stamp(call[t]).pid = call[t].pid
  BY DEF Stamp
<1>3. ASSUME NEW t \in Threads, call'[t].pid # NoPid PROVE Looked(call[t])'
  <2>1. CASE call'[t] = call[t]
    <3>1. Looked(call[t])
      BY <1>3, <2>1 DEF AgentInv, Looked
    <3> QED BY <1>0, <1>1, <1>2, <1>3, <2>1, <3>1 DEF Looked, Stamp
  <2> QED BY <1>3, <2>1
<1>4. ASSUME crashes' = 0, NEW s \in started
      PROVE  LookedAfter(s)'
  <2>1. LookedAfter(s)
    BY <1>4 DEF AgentInv, NoOrphans, LookedAfter
  <2>2. CASE s.pid \in killed \cup unseen
    BY <2>2 DEF LookedAfter
  <2>3. CASE s \in woken /\ granted[s.pid] > 0
    BY <1>0, <1>1, <2>3 DEF LookedAfter
  <2>4. ASSUME NEW t \in Threads, call[t].pid = s.pid PROVE LookedAfter(s)'
    <3>1. Looked(call[t]) /\ call[t].pid # NoPid
      BY <1>0, <2>4 DEF AgentInv, Looked
    <3>2. CASE call'[t].pid = call[t].pid
      BY <2>4, <3>2 DEF LookedAfter
    <3>3. CASE call[t].pc \in {"woken", "refused"}
      <4>1. s = Stamp(call[t])
        BY <1>2, <2>4, <3>1 DEF AgentInv, Looked
      <4> QED BY <1>0, <1>1, <2>4, <3>1, <3>3, <4>1 DEF Looked, LookedAfter
    <3> QED BY <1>4, <3>1, <3>2, <3>3
  <2> QED BY <2>1, <2>2, <2>3, <2>4 DEF LookedAfter
<1>5. NoOrphans'
  BY <1>4 DEF NoOrphans, LookedAfter
<1>6. (\A t \in Threads : call[t].pid # NoPid => Looked(call[t]))'
  BY <1>3
<1> QED BY <1>5, <1>6 DEF AgentInv, Looked

\* The steps of wake() keep an eye on the agents.
LEMMA WakeAgents ==
    ASSUME IInv, MutexInv, AgentInv, NEW t \in Threads, WakeStep(t), [Next]_vars
    PROVE  AgentInv'
<1>0. crashes \in Nat /\ call[t] \in CallType
  BY DEF AgentInv, IInv, MemoryInv
<1>1. call[t].pid # NoPid =>
         /\ Looked(call[t])
         /\ call[t].pc \in {"lease", "patch", "woken", "refused"}
  BY DEF AgentInv, Looked
<1>2. CASE Enter(t) \/ Limits(t) \/ WriteStamp(t)
  <2>1. UNCHANGED <<started, unseen, crashes, killed>> /\ woken \subseteq woken'
    BY <1>2 DEF Enter, Limits, WriteStamp, procVars, stateVars, history
  <2>2. call[t].pc \in {"enter", "limits", "stamp"}
    BY <1>2 DEF Enter, Limits, WriteStamp
  <2>3. \E pc : Goto(t, pc)
    BY <1>2 DEF Enter, Limits, WriteStamp, Refuse
  <2>4. call'[t].pid = call[t].pid /\ OthersKept(t)
    BY <2>3, GotoFrame
  <2>5. call[t].pid = NoPid
    BY <1>1, <2>2
  <2> QED BY <1>0, <2>1, <2>4, <2>5, AgentQuiet DEF OthersKept
<1>3. CASE Launch(t)
  <2>1. UNCHANGED <<woken, unseen, crashes, killed, granted>>
        /\ call[t].pc = "launch"
    BY <1>3 DEF Launch, stateVars, leaseVars
  <2>2. call[t].pid = NoPid
    BY <1>1, <2>1
  <2>3. CASE Refuse(t) /\ UNCHANGED started
    <3>1. call'[t].pid = NoPid /\ OthersKept(t)
      BY <2>2, <2>3, GotoFrame DEF Refuse
    <3> QED BY <1>0, <2>1, <2>2, <2>3, <3>1, AgentQuiet DEF OthersKept
  <2>4. ASSUME NEW a \in Agents \ StartedPids,
               started' = started \cup {Stamp([call[t] EXCEPT !.pid = a])},
               call' = [call EXCEPT ![t].pc = "lease", ![t].pid = a]
        PROVE  AgentInv'
    <3> DEFINE new == Stamp([call[t] EXCEPT !.pid = a])
    <3>1. /\ call'[t].pc = "lease" /\ call'[t].pid = a
          /\ SameWake(t) /\ OthersKept(t)
      BY <2>4, LaunchFrame
    <3>2. new = Stamp(call[t])' /\ new.pid = a
      BY <1>0, <3>1 DEF Stamp, CallType, SameWake
    <3>3. started' = started \cup {new} /\ a # NoPid
      BY <2>4, PidsAssumption DEF Pids
    <3> HIDE DEF new
    <3>4. Looked(call[t])'
      BY <3>1, <3>2, <3>3 DEF Looked
    <3>5. (\A s1, s2 \in started : s1.pid = s2.pid => s1 = s2)'
      BY <2>4, <3>2, <3>3 DEF AgentInv, StartedPids
    <3>6. ASSUME NEW u \in Threads, call'[u].pid # NoPid PROVE Looked(call[u])'
      <4>1. CASE u = t
        BY <3>4, <4>1
      <4>2. CASE u # t
        <5>1. call'[u] = call[u]
          BY <1>0, <3>1, <4>2 DEF OthersKept
        <5>2. Looked(call[u])
          BY <3>6, <5>1 DEF AgentInv, Looked
        <5> QED BY <2>1, <3>3, <5>1, <5>2 DEF Looked, Stamp
      <4> QED BY <4>1, <4>2
    <3>7. ASSUME crashes' = 0, NEW s \in started' PROVE LookedAfter(s)'
      <4>1. CASE s = new
        BY <2>1, <3>1, <3>2, <4>1 DEF LookedAfter
      <4>2. CASE s \in started
        <5>1. LookedAfter(s) /\ s.pid # NoPid
          BY <2>1, <3>7, <4>2, PidsAssumption
             DEF AgentInv, NoOrphans, LookedAfter, IInv, StartedInv, StartedPids,
                 Pids
        <5>2. ASSUME NEW u \in Threads, call[u].pid = s.pid
              PROVE  call'[u].pid = s.pid
          BY <1>0, <2>2, <3>1, <5>1, <5>2 DEF OthersKept
        <5> QED BY <2>1, <5>1, <5>2 DEF LookedAfter
      <4> QED BY <3>3, <3>7, <4>1, <4>2
    <3>8. NoOrphans'
      BY <3>7 DEF NoOrphans, LookedAfter
    <3> QED BY <1>0, <2>1, <3>5, <3>6, <3>8 DEF AgentInv, Looked
  <2> QED BY <1>3, <2>3, <2>4 DEF Launch, StartedPids
<1>4. CASE GetLease(t)
  <2>1. UNCHANGED <<woken, crashes, started, unseen>>
        /\ call[t].pc = "lease" /\ killed \subseteq killed'
    BY <1>4 DEF GetLease, Kill, stateVars, history
  <2>2. /\ call'[t].pid = call[t].pid /\ SameWake(t) /\ OthersKept(t)
        /\ \/ call'[t].pc = "patch"
                /\ WriteLease(call[t].pid, call[t].ts + AgentTimeout)
           \/ call'[t].pc = "refused" /\ killed' = killed \cup {call[t].pid}
    BY <1>4, GotoFrame DEF GetLease, Kill, Refuse
  <2>3. ASSUME call[t].pid # NoPid PROVE Looked(call[t])'
    <3>1. Stamp(call[t])' = Stamp(call[t]) /\ Stamp(call[t]) \in started
      BY <1>1, <2>1, <2>2, <2>3 DEF Stamp, SameWake, Looked
    <3>2. CASE call'[t].pc = "refused" /\ killed' = killed \cup {call[t].pid}
      BY <2>1, <2>2, <3>1, <3>2 DEF Looked
    <3>3. CASE call'[t].pc = "patch"
               /\ WriteLease(call[t].pid, call[t].ts + AgentTimeout)
      <4>1. call[t].pid \in Pids /\ call[t].ts + AgentTimeout > 0
        BY <1>0, <2>3, TimesAssumption DEF CallType, Pids
      <4>2. granted'[call[t].pid] > 0
        BY <3>3, <4>1 DEF WriteLease, IInv, LeaseInv
      <4> QED BY <2>1, <2>2, <3>1, <3>3, <4>2 DEF Looked
    <3> QED BY <2>2, <3>2, <3>3
  <2> QED BY <1>0, <2>1, <2>2, <2>3, AgentQuiet DEF OthersKept
<1>5. CASE Patch(t)
  <2>1. UNCHANGED <<crashes, started, unseen, granted>>
        /\ call[t].pc = "patch" /\ killed \subseteq killed'
    BY <1>5 DEF Patch, Kill, leaseVars, history
  <2>2. CASE UNCHANGED woken /\ Kill(t)
    <3>1. /\ call'[t].pid = call[t].pid /\ SameWake(t) /\ OthersKept(t)
          /\ call'[t].pc = "refused" /\ killed' = killed \cup {call[t].pid}
      BY <2>2, GotoFrame DEF Kill, Refuse
    <3>2. call[t].pid # NoPid => Looked(call[t])'
      BY <1>1, <2>1, <3>1 DEF Stamp, SameWake, Looked
    <3> QED BY <1>0, <2>1, <2>2, <3>1, <3>2, AgentQuiet DEF OthersKept
  <2>3. CASE /\ woken' = (woken \ {Stamp([call[t] EXCEPT !.pid = NoPid])})
                            \cup {Stamp(call[t])}
             /\ Goto(t, "woken") /\ UNCHANGED killed
    <3>1. /\ call'[t].pid = call[t].pid /\ SameWake(t) /\ OthersKept(t)
          /\ call'[t].pc = "woken"
      BY <2>3, GotoFrame
    <3>2. Stamp([call[t] EXCEPT !.pid = NoPid]).pid = NoPid
      BY <1>0 DEF Stamp, CallType
    <3>3. \A e \in woken : e.pid # NoPid => e \in woken'
      BY <2>3, <3>2
    <3>4. Stamp(call[t])' = Stamp(call[t]) /\ Stamp(call[t]) \in woken'
      BY <2>3, <3>1 DEF Stamp, SameWake
    <3>5. call[t].pid # NoPid => Looked(call[t])'
      BY <1>1, <2>1, <3>1, <3>4 DEF Looked
    <3> QED BY <1>0, <2>1, <3>1, <3>3, <3>5, AgentQuiet DEF OthersKept
  <2> QED BY <1>5, <2>2, <2>3 DEF Patch
<1>6. CASE Decide(t)
  <2>1. /\ call'[t].pid = NoPid /\ OthersKept(t)
        /\ UNCHANGED <<woken, started, unseen, crashes, killed>>
        /\ call[t].pc \in {"woken", "refused"}
    BY <1>6, IdleFrame DEF Decide, procVars, history
  <2> QED BY <1>0, <2>1, AgentQuiet DEF OthersKept
<1>7. CASE LoseAgent(t)
  <2>1. /\ UNCHANGED <<woken, crashes, killed, started>>
        /\ unseen' = unseen \cup {call[t].pid}
    BY <1>7 DEF LoseAgent, stateVars
  <2>2. /\ call'[t].pid = call[t].pid /\ SameWake(t) /\ OthersKept(t)
        /\ call'[t].pc = "refused"
    BY <1>7, GotoFrame DEF LoseAgent, Refuse
  <2>3. call[t].pid # NoPid => Looked(call[t])'
    BY <1>1, <2>1, <2>2 DEF Stamp, SameWake, Looked
  <2> QED BY <1>0, <2>1, <2>2, <2>3, AgentQuiet DEF OthersKept
<1> QED BY <1>2, <1>3, <1>4, <1>5, <1>6, <1>7 DEF WakeStep

\* Every step keeps an eye on the agents.
LEMMA AgentNext ==
    ASSUME IInv, MutexInv, AgentInv, [Next]_vars PROVE AgentInv'
<1>1. CASE WakeSteps
  BY <1>1, WakeAgents DEF WakeSteps
<1>2. CASE ~WakeSteps
  <2>1. /\ crashes' \in Nat /\ (crashes' = 0 => crashes = 0)
        /\ Crash => crashes' # 0
    <3>1. crashes \in Nat
      BY DEF AgentInv
    <3>2. CASE Crash
      BY <3>1, <3>2 DEF Crash
    <3>3. CASE ~Crash
      BY <1>2, <3>1, <3>3 DEF Next, MainStep, Ask, WakeForQuestion, Finish,
         Answered, PollStep, Tick, Fetch, NextRow, MessageDone, Store,
         AckMessage, WakeForMessage, Button, AckButton, WaitStep, StartWait,
         Look, Inbox, Rename, PrintMessages, Environment, SendRow, RequestWake,
         OtherWakes, Resume, Time, Dies, vars, procVars
    <3> QED BY <3>2, <3>3
  <2>2. Idle.pid = NoPid
    BY DEF Idle
  <2> QED BY <1>2, <2>1, <2>2, NoWakeSteps, AgentQuiet
<1> QED BY <1>1, <1>2

\* While the owner lives no agent it started, and came to know, is left to
\* itself: it is told to end, or was given the lease and is in state.json.
THEOREM NoAgentIsLeftAlone == Spec => []NoOrphans
<1>1. Init => AgentInv
  <2> SUFFICES ASSUME Init PROVE AgentInv
    OBVIOUS
  <2>1. \A t \in Threads : call[t].pid = NoPid
    BY DEF Init, Idle
  <2> QED BY <2>1 DEF Init, AgentInv, NoOrphans
<1>2. IInv /\ MutexInv /\ AgentInv /\ [Next]_vars => AgentInv'
  BY AgentNext
<1>3. AgentInv => NoOrphans
  BY DEF AgentInv
<1> QED BY <1>1, <1>2, <1>3, LockCorrect, PTL DEF Spec

----------------------------------------------------------------------------
(* The log of wakes and its limits.                                        *)

Kinds == {"manual", "auto"}
LimitOf(kind) == IF kind = "manual" THEN ManualDaily ELSE AutoDaily
OfKind(kind, ts) == {e \in Events(ts) : e.kind = kind}
LogType == [at : Nat, kind : Kinds, run : {"this", "other"}]

\* What was started is in the log under the time of its call, and nothing was
\* started yet at the time of a call that may go on.
Noted(at) == \E e \in log : e.run = "this" /\ e.at = at
LogInv ==
    /\ IsFiniteSet(log) /\ log \subseteq LogType
    /\ \A s \in started : Noted(s.at)
    /\ \A t \in Threads :
          call[t].pc \in {"stamp", "launch"} =>
              /\ Noted(call[t].ts)
              /\ \A s \in started : s.at # call[t].ts
    /\ LimitsHold

\* The events of a day are finitely many, and fewer as the clock goes on.
LEMMA FewerEvents ==
    ASSUME IsFiniteSet(log), log \subseteq LogType, NEW kind \in Kinds,
           NEW now \in Nat, NEW later \in Nat, now <= later
    PROVE  /\ IsFiniteSet(OfKind(kind, later))
           /\ Cardinality(OfKind(kind, later)) \in Nat
           /\ Cardinality(OfKind(kind, later)) <= Cardinality(OfKind(kind, now))
<1>1. OfKind(kind, now) \subseteq log
  BY DEF OfKind, Events
<1>2. IsFiniteSet(OfKind(kind, now))
  BY <1>1, FS_Subset
<1>3. OfKind(kind, later) \subseteq OfKind(kind, now)
  BY TimesAssumption DEF OfKind, Events, LogType
<1>4. IsFiniteSet(OfKind(kind, later))
  BY <1>2, <1>3, FS_Subset
<1> QED BY <1>2, <1>3, <1>4, FS_Subset, FS_CardinalityType

\* The clock never goes back.
LEMMA ClockGoesOn ==
    ASSUME IInv, [Next]_vars
    PROVE  clock' \in Nat /\ clock <= clock' /\ (WakeSteps => clock' = clock)
<1>0. clock \in Nat
  BY DEF IInv, TimeInv
<1>1. CASE WakeSteps
  <2> PICK t \in Threads : WakeStep(t)
    BY <1>1 DEF WakeSteps
  <2>1. CASE Enter(t) \/ Limits(t) \/ WriteStamp(t)
    BY <1>0, <2>1 DEF Enter, Limits, WriteStamp, procVars
  <2>2. CASE Launch(t) \/ LoseAgent(t) \/ GetLease(t)
    BY <1>0, <2>2 DEF Launch, LoseAgent, GetLease
  <2>3. CASE Patch(t) \/ Decide(t)
    BY <1>0, <2>3 DEF Patch, Decide, procVars
  <2> QED BY <2>1, <2>2, <2>3 DEF WakeStep
<1>2. CASE Time /\ ~WakeSteps
  BY <1>0, <1>2 DEF Time
<1>3. CASE ~WakeSteps /\ ~Time
  <2>1. UNCHANGED clock
    BY <1>3 DEF Next, MainStep, Ask, WakeForQuestion, Finish, Answered,
       PollStep, Tick, Fetch, NextRow, MessageDone, Store, AckMessage,
       WakeForMessage, Button, AckButton, WaitStep, StartWait, Look, Inbox,
       Rename, PrintMessages, Environment, SendRow, RequestWake, OtherWakes,
       Crash, Resume, Dies, vars, procVars
  <2> QED BY <1>0, <1>3, <2>1
<1> QED BY <1>1, <1>2, <1>3

\* Nothing is noted and nothing is started: time may go on.
LEMMA LogQuiet ==
    ASSUME IInv, LogInv, [Next]_vars, UNCHANGED <<log, started>>,
           \A t \in Threads :
              \/ call'[t].pc \notin {"stamp", "launch"}
              \/ call'[t].ts = call[t].ts /\ call[t].pc \in {"stamp", "launch"}
    PROVE  LogInv'
<1>1. clock \in Nat /\ clock' \in Nat /\ clock <= clock'
  BY ClockGoesOn DEF IInv, TimeInv
<1>2. ASSUME NEW kind \in Kinds
      PROVE  Cardinality({e \in Events(clock) : e.kind = kind})'
               <= (IF kind = "manual" THEN ManualDaily ELSE AutoDaily)
  <2>1. Cardinality(OfKind(kind, clock)) <= LimitOf(kind)
    BY DEF LogInv, LimitsHold, OfKind, LimitOf, Kinds
  <2>2. /\ Cardinality(OfKind(kind, clock')) \in Nat
        /\ Cardinality(OfKind(kind, clock)) \in Nat
        /\ Cardinality(OfKind(kind, clock')) <= Cardinality(OfKind(kind, clock))
    BY <1>1, FewerEvents DEF LogInv
  <2>3. {e \in Events(clock) : e.kind = kind}' = OfKind(kind, clock')
    BY DEF OfKind, Events
  <2>4. LimitOf(kind) \in Nat
    BY TimesAssumption DEF LimitOf
  <2>5. Cardinality(OfKind(kind, clock')) <= LimitOf(kind)
    BY <2>1, <2>2, <2>4
  <2> QED BY <2>3, <2>5 DEF LimitOf
<1>3. LimitsHold'
  BY <1>2 DEF LogInv, LimitsHold, Kinds
<1>4. (\A s \in started : Noted(s.at))'
  BY DEF LogInv, Noted
<1>5. (\A t \in Threads :
          call[t].pc \in {"stamp", "launch"} =>
              /\ Noted(call[t].ts)
              /\ \A s \in started : s.at # call[t].ts)'
  BY DEF LogInv, Noted
<1> QED BY <1>3, <1>4, <1>5 DEF LogInv

\* A wake within its limits keeps its distance and the daily number, and is
\* the first one of this run at its time.
LEMMA NotingKeepsLimits ==
    ASSUME IInv, LogInv, NEW e \in LogType, e.at <= clock, ~OverLimit(e),
           log' = log \cup {e}, UNCHANGED <<clock, started>>
    PROVE  /\ LimitsHold'
           /\ IsFiniteSet(log') /\ log' \subseteq LogType
           /\ e.run = "this" => \A s \in started : s.at # e.at
<1> DEFINE now == e.at
<1>0. now \in Nat /\ clock \in Nat /\ now <= clock
  BY DEF IInv, TimeInv, LogType
<1>1. e \in LogType /\ e.at = now /\ e.kind \in Kinds
  BY DEF LogType
<1>2. /\ IsFiniteSet(log) /\ log \subseteq LogType
      /\ Gap \in Nat /\ Day \in Nat /\ Gap <= Day /\ 0 < Gap
  BY TimesAssumption DEF LogInv
<1>3. /\ log' = log \cup {e}
      /\ \A f \in Events(now) : ~(f.run = e.run /\ now - f.at < Gap)
      /\ Cardinality(OfKind(e.kind, now)) < LimitOf(e.kind)
  <2>1. \A f \in Events(e.at) : ~(f.run = e.run /\ e.at - f.at < Gap)
    BY DEF OverLimit
  <2>2. ~(Cardinality(OfKind(e.kind, e.at)) >= LimitOf(e.kind))
    BY DEF OverLimit, OfKind, LimitOf
  <2>3. Cardinality(OfKind(e.kind, now)) \in Nat
    BY <1>0, <1>1, <1>2, FewerEvents
  <2>4. LimitOf(e.kind) \in Nat
    BY TimesAssumption DEF LimitOf
  <2>5. Cardinality(OfKind(e.kind, now)) < LimitOf(e.kind)
    BY <1>1, <2>2, <2>3, <2>4
  <2> QED BY <1>1, <2>1, <2>5
<1> HIDE DEF now
<1>4. IsFiniteSet(log') /\ log' \subseteq LogType
  BY <1>1, <1>2, <1>3, FS_AddElement
<1>5. \A f \in log : f.run = e.run => now - f.at >= Gap
  BY <1>0, <1>2, <1>3 DEF Events, LogType
<1>6. \A f, g \in log' : f # g /\ f.run = g.run
                         => f.at - g.at >= Gap \/ g.at - f.at >= Gap
  BY <1>1, <1>3, <1>5 DEF LogInv, LimitsHold
<1>7. ASSUME NEW kind \in Kinds
      PROVE  Cardinality({f \in Events(clock) : f.kind = kind})'
               <= IF kind = "manual" THEN ManualDaily ELSE AutoDaily
  <2> DEFINE new == {f \in Events(clock) : f.kind = kind}'
  <2>1. new = {f \in log' : clock - f.at < Day /\ f.kind = kind}
    BY DEF Events
  <2>2. LimitOf(kind) \in Nat
    BY TimesAssumption DEF LimitOf
  <2>3. CASE kind # e.kind
    <3>1. new = OfKind(kind, clock)
      BY <1>3, <2>1, <2>3 DEF OfKind, Events
    <3>2. Cardinality(OfKind(kind, clock)) <= LimitOf(kind)
      BY DEF LogInv, LimitsHold, OfKind, LimitOf, Kinds
    <3> QED BY <3>1, <3>2 DEF LimitOf
  <2>4. CASE kind = e.kind
    <3>1. new \subseteq OfKind(kind, clock) \cup {e}
      BY <1>3, <2>1 DEF OfKind, Events
    <3>2. /\ IsFiniteSet(OfKind(kind, clock))
          /\ Cardinality(OfKind(kind, clock)) \in Nat
          /\ Cardinality(OfKind(kind, clock)) <= Cardinality(OfKind(kind, now))
          /\ Cardinality(OfKind(kind, now)) \in Nat
      BY <1>0, <1>2, FewerEvents
    <3>3. /\ IsFiniteSet(OfKind(kind, clock) \cup {e})
          /\ Cardinality(OfKind(kind, clock) \cup {e})
               <= Cardinality(OfKind(kind, clock)) + 1
      <4> DEFINE old == OfKind(kind, clock)
      <4>1. IsFiniteSet(old) /\ Cardinality(old) \in Nat
        BY <3>2
      <4> HIDE DEF old
      <4>2. /\ IsFiniteSet(old \cup {e})
            /\ \/ Cardinality(old \cup {e}) = Cardinality(old)
               \/ Cardinality(old \cup {e}) = Cardinality(old) + 1
        BY <4>1, FS_AddElement
      <4>3. /\ IsFiniteSet(old \cup {e})
            /\ Cardinality(old \cup {e}) <= Cardinality(old) + 1
        BY <4>1, <4>2
      <4> QED BY <4>3 DEF old
    <3>4. /\ IsFiniteSet(new)
          /\ Cardinality(new) <= Cardinality(OfKind(kind, clock) \cup {e})
      BY <3>1, <3>3, FS_Subset
    <3>5. Cardinality(new) \in Nat
          /\ Cardinality(OfKind(kind, clock) \cup {e}) \in Nat
      BY <3>3, <3>4, FS_CardinalityType
    <3> HIDE DEF new
    <3>6. Cardinality(new) <= LimitOf(kind)
      BY <1>3, <2>2, <2>4, <3>2, <3>3, <3>4, <3>5
    <3> QED BY <3>6 DEF LimitOf, new
  <2> QED BY <2>3, <2>4
<1>8. LimitsHold'
  BY <1>6, <1>7 DEF LogInv, LimitsHold, Kinds
<1>9. ASSUME e.run = "this", NEW s \in started, s.at = now PROVE FALSE
  <2>1. PICK f \in log : f.run = "this" /\ f.at = now
    BY <1>9 DEF LogInv, Noted
  <2> QED BY <1>0, <1>1, <1>2, <1>5, <1>9, <2>1
<1> QED BY <1>4, <1>8, <1>9 DEF now

\* The steps of wake() keep to the limits.
LEMMA WakeLimits ==
    ASSUME IInv, MutexInv, LogInv, NEW t \in Threads, WakeStep(t), [Next]_vars
    PROVE  LogInv'
<1>0. call[t] \in CallType
  BY DEF IInv, MemoryInv
<1>1. ASSUME NEW pc, pc \notin {"stamp", "launch"}, Goto(t, pc),
             UNCHANGED <<log, started>>
      PROVE  LogInv'
  <2>1. call'[t].pc = pc /\ OthersKept(t)
    BY <1>1, GotoFrame
  <2> QED BY <1>0, <1>1, <2>1, LogQuiet DEF OthersKept
<1>2. CASE Enter(t) \/ LoseAgent(t) \/ GetLease(t) \/ Patch(t)
  <2>1. UNCHANGED <<log, started>>
    BY <1>2 DEF Enter, LoseAgent, GetLease, Patch, history
  <2>2. \E pc \in {"refused", "limits", "patch", "woken"} : Goto(t, pc)
    BY <1>2 DEF Enter, LoseAgent, GetLease, Patch, Kill, Refuse
  <2> QED BY <1>1, <2>1, <2>2
<1>3. CASE Decide(t)
  <2>1. call'[t].pc = "idle" /\ OthersKept(t) /\ UNCHANGED <<log, started>>
    BY <1>3, IdleFrame DEF Decide, history
  <2> QED BY <1>0, <2>1, LogQuiet DEF OthersKept
<1>4. CASE WriteStamp(t)
  <2>1. UNCHANGED <<log, started>> /\ call[t].pc = "stamp"
    BY <1>4 DEF WriteStamp, history
  <2>2. \E pc \in {"launch", "refused"} : Goto(t, pc)
    BY <1>4 DEF WriteStamp, Refuse
  <2>3. SameWake(t) /\ OthersKept(t)
    BY <2>2, GotoFrame
  <2> QED BY <1>0, <2>1, <2>3, LogQuiet DEF SameWake, OthersKept
<1>5. CASE Limits(t)
  <2>1. UNCHANGED <<clock, started>> /\ call[t].pc = "limits"
    BY <1>5 DEF Limits, procVars, history
  <2>2. CASE OverLimit(Event(call[t]))
    <3>1. Goto(t, "refused") /\ UNCHANGED log
      BY <1>5, <2>2 DEF Limits, Refuse
    <3> QED BY <1>1, <2>1, <3>1
  <2>3. CASE ~OverLimit(Event(call[t]))
    <3> DEFINE e == Event(call[t])
    <3>0. /\ e \in LogType /\ e.run = "this" /\ e.at = call[t].ts
          /\ e.at <= clock
      BY <1>0 DEF Event, LogType, Kinds, Kind, CallType, IInv, TimeInv
    <3>1. log' = log \cup {e} /\ Goto(t, "stamp") /\ ~OverLimit(e)
      BY <1>5, <2>3 DEF Limits
    <3> HIDE DEF e
    <3>2. /\ LimitsHold' /\ IsFiniteSet(log') /\ log' \subseteq LogType
          /\ \A s \in started : s.at # call[t].ts
      BY <2>1, <3>0, <3>1, NotingKeepsLimits
    <3>3. call'[t].pc = "stamp" /\ SameWake(t) /\ OthersKept(t)
      BY <3>1, GotoFrame
    <3>5. Noted(call[t].ts)'
      BY <3>0, <3>1, <3>3 DEF Noted, SameWake
    <3>6. \A at : Noted(at) => (\E f \in log' : f.run = "this" /\ f.at = at)
      BY <3>1 DEF Noted
    <3>7. (\A s \in started : Noted(s.at))'
      BY <2>1, <3>6 DEF LogInv, Noted
    <3>8. ASSUME NEW u \in Threads, call'[u].pc \in {"stamp", "launch"}
          PROVE  /\ Noted(call[u].ts)'
                 /\ \A s \in started' : s.at # call'[u].ts
      <4>1. CASE u = t
        BY <2>1, <3>2, <3>3, <3>5, <4>1 DEF SameWake
      <4>2. CASE u # t
        BY <1>0, <2>1, <3>3, <3>6, <3>8, <4>2 DEF LogInv, Noted, OthersKept
      <4> QED BY <4>1, <4>2
    <3> QED BY <3>2, <3>7, <3>8 DEF LogInv
  <2> QED BY <2>2, <2>3
<1>6. CASE Launch(t)
  <2>1. UNCHANGED <<log, clock>> /\ call[t].pc = "launch"
    BY <1>6 DEF Launch
  <2>2. CASE Refuse(t) /\ UNCHANGED started
    BY <1>1, <2>1, <2>2 DEF Refuse
  <2>3. ASSUME NEW a, started' = started \cup {Stamp([call[t] EXCEPT !.pid = a])},
               call' = [call EXCEPT ![t].pc = "lease", ![t].pid = a]
        PROVE  LogInv'
    <3> DEFINE new == Stamp([call[t] EXCEPT !.pid = a])
    <3>1. new.at = call[t].ts
      BY <1>0 DEF Stamp, CallType
    <3>2. started' = started \cup {new}
      BY <2>3
    <3> HIDE DEF new
    <3>3. call'[t].pc = "lease" /\ OthersKept(t) /\ mutex = t
      BY <2>1, <2>3, LaunchFrame DEF MutexInv, Held
    <3>4. \A u \in Threads : call'[u].pc \notin {"stamp", "launch"}
      BY <1>0, <3>3 DEF MutexInv, Held, OthersKept
    <3>5. Noted(call[t].ts) /\ \A s \in started : s.at # call[t].ts
      BY <2>1 DEF LogInv
    <3>6. (\A s \in started : Noted(s.at))'
      BY <2>1, <3>1, <3>2, <3>5 DEF LogInv, Noted
    <3>7. (\A s1, s2 \in started : s1.at = s2.at => s1.pid = s2.pid)'
      BY <3>1, <3>2, <3>5 DEF LogInv, LimitsHold
    <3>8. LimitsHold'
      BY <2>1, <3>7 DEF LogInv, LimitsHold, Events
    <3> QED BY <2>1, <3>4, <3>6, <3>8 DEF LogInv
  <2> QED BY <1>6, <2>2, <2>3 DEF Launch
<1> QED BY <1>2, <1>3, <1>4, <1>5, <1>6 DEF WakeStep

\* Every step keeps to the limits.
LEMMA LogNext ==
    ASSUME IInv, MutexInv, LogInv, [Next]_vars PROVE LogInv'
<1>1. CASE WakeSteps
  BY <1>1, WakeLimits DEF WakeSteps
<1>2. CASE ~WakeSteps /\ ~OtherWakes
  <2>1. Idle.pc = "idle"
    BY DEF Idle
  <2> QED BY <1>2, <2>1, NoWakeSteps, LogQuiet
<1>3. CASE OtherWakes
  <2>1. UNCHANGED <<clock, started, call>>
    BY <1>3 DEF OtherWakes, procVars, memory, history
  <2>2. PICK at \in 0 .. clock, kind \in OtherRuns :
          /\ ~OverLimit([at |-> at, kind |-> kind, run |-> "other"])
          /\ log' = log \cup {[at |-> at, kind |-> kind, run |-> "other"]}
    BY <1>3 DEF OtherWakes
  <2> DEFINE e == [at |-> at, kind |-> kind, run |-> "other"]
  <2>3. e \in LogType /\ e.at <= clock /\ ~OverLimit(e) /\ log' = log \cup {e}
    BY <2>2, TimesAssumption DEF LogType, Kinds, IInv, TimeInv
  <2> HIDE DEF e
  <2>4. LimitsHold' /\ IsFiniteSet(log') /\ log' \subseteq LogType
    BY <2>1, <2>3, NotingKeepsLimits
  <2>5. \A x : Noted(x) => \E f \in log' : f.run = "this" /\ f.at = x
    BY <2>3 DEF Noted
  <2> QED BY <2>1, <2>4, <2>5 DEF LogInv, Noted
<1> QED BY <1>1, <1>2, <1>3

\* Wakes of one run keep their distance, and those of the machine their daily
\* number, for any number of agents, questions, messages, deaths and failures.
THEOREM WakesKeepToTheirLimits == Spec => []LimitsHold
<1>1. Init => LogInv
  <2> SUFFICES ASSUME Init PROVE LogInv
    OBVIOUS
  <2>1. \A t \in Threads : call[t].pc = "idle"
    BY DEF Init, Idle
  <2>2. log = {} /\ started = {}
    BY DEF Init
  <2>3. \A kind : {e \in Events(clock) : e.kind = kind} = {}
    BY <2>2 DEF Events
  <2>4. LimitsHold
    BY <2>2, <2>3, TimesAssumption, FS_EmptySet DEF LimitsHold
  <2> QED BY <2>1, <2>2, <2>4, FS_EmptySet DEF LogInv
<1>2. IInv /\ MutexInv /\ LogInv /\ [Next]_vars => LogInv'
  BY LogNext
<1>3. LogInv => LimitsHold
  BY DEF LogInv
<1> QED BY <1>1, <1>2, <1>3, LockCorrect, PTL DEF Spec

----------------------------------------------------------------------------
(* A message, from the row at the relay to the reader.                     *)

WaitType == [pc : {"out", "look", "take", "inbox"},
             todo : SUBSET Messages, got : SUBSET Messages]

\* What the poller knows of the file of the row it handles.
RowInv ==
    /\ poll.pc \in {"look", "lookRead", "store", "ack", "ackDone", "wake"}
          => poll.row \in Messages
    /\ poll.pc \in {"button", "ackButton"} => poll.row \in Buttons
    /\ poll.pc = "lookRead" => file[poll.row] \in {"none", "read"}
    /\ poll.pc = "store" => file[poll.row] = "none"
    /\ poll.pc \in {"ack", "ackDone"} => file[poll.row] # "none"

\* Whoever renamed a file has its message alone, until it is printed.
MailInv ==
    /\ file \in [Messages -> {"none", "unread", "read"}]
    /\ printed \in [Messages -> Nat]
    /\ wait \in [Pids -> WaitType]
    /\ \A m \in Messages :
          /\ m \in stored \cup acked => file[m] # "none"
          /\ file[m] # "read"
                => printed[m] = 0 /\ \A p \in Pids : m \notin wait[p].got
          /\ \A p \in Pids : m \in wait[p].got => printed[m] = 0
          /\ \A p, q \in Pids : m \in wait[p].got \cap wait[q].got => p = q
          /\ printed[m] <= 1
FileInv == RowInv /\ MailInv

\* The poller's place changes, and nothing else of its row.
LEMMA PollFrame ==
    ASSUME IInv, NEW pc, To(pc) PROVE poll'.pc = pc /\ poll'.row = poll.row
BY DEF To, IInv, MemoryInv, PollType

\* The steps of the poller.
LEMMA PollFiles == ASSUME IInv, FileInv, PollStep PROVE FileInv'
<1>0. /\ poll \in PollType /\ rows \subseteq Messages \cup Buttons
      /\ Messages \cap Buttons = {} /\ Quiet.pc = "idle"
  BY KeysAssumption DEF IInv, MemoryInv, Quiet
<1>1. ASSUME UNCHANGED <<file, printed, wait>>,
             \A m \in Messages : m \in stored' \cup acked'
                => m \in stored \cup acked \/ file[m] # "none"
      PROVE  MailInv'
  BY <1>1 DEF FileInv, MailInv
<1>2. ASSUME UNCHANGED <<file, printed, wait, stored, acked>> PROVE MailInv'
  BY <1>1, <1>2
<1>3. CASE Tick
  <2>1. UNCHANGED <<file, printed, wait, stored, acked>> /\ To("fetch")
    BY <1>3 DEF Tick, history
  <2>2. RowInv'
    BY <2>1, PollFrame DEF RowInv
  <2> QED BY <1>2, <2>1, <2>2 DEF FileInv
<1>4. CASE Fetch
  <2>1. UNCHANGED <<file, printed, wait, stored, acked>>
        /\ poll'.pc \in {"idle", "next"}
    BY <1>0, <1>4 DEF Fetch, boxVars, history
  <2>2. RowInv'
    BY <2>1 DEF RowInv
  <2> QED BY <1>2, <2>1, <2>2 DEF FileInv
<1>5. CASE NextRow
  <2>1. UNCHANGED <<file, printed, wait, stored, acked>>
    BY <1>5 DEF NextRow, boxVars, history
  <2>4. RowInv'
    <3>1. CASE poll' = Quiet
      BY <1>0, <3>1 DEF RowInv
    <3>2. ASSUME NEW r \in poll.todo,
                 poll' = [pc |-> IF r \in Messages THEN "look" ELSE "button",
                          todo |-> poll.todo \ {r}, row |-> r]
          PROVE  RowInv'
      <4>1. r \in Messages \cup Buttons
        BY <1>0 DEF PollType
      <4>2. poll'.row = r /\ poll'.pc = IF r \in Messages THEN "look" ELSE "button"
        BY <3>2
      <4> QED BY <4>1, <4>2 DEF RowInv
    <3> QED BY <1>5, <3>1, <3>2 DEF NextRow
  <2> QED BY <1>2, <2>1, <2>4 DEF FileInv
<1>6. CASE MessageDone
  <2>1. UNCHANGED <<file, printed, wait, stored, acked>>
    BY <1>6 DEF MessageDone, boxVars, history
  <2>2. CASE poll.pc = "look"
    <3>1. To(IF file[poll.row] = "unread" THEN "ackDone" ELSE "lookRead")
      BY <1>6, <2>2 DEF MessageDone, Unread
    <3> QED BY <1>2, <2>1, <2>2, <3>1, PollFrame DEF FileInv, RowInv, MailInv
  <2>3. CASE poll.pc = "lookRead"
    <3>1. To(IF file[poll.row] = "read" THEN "ackDone" ELSE "store")
      BY <1>6, <2>3 DEF MessageDone, Read
    <3> QED BY <1>2, <2>1, <2>3, <3>1, PollFrame DEF FileInv, RowInv, MailInv
  <2> QED BY <1>6, <2>2, <2>3 DEF MessageDone
<1>7. CASE Store
  <2>1. UNCHANGED <<printed, wait, stored, acked>> /\ poll.pc = "store"
    BY <1>7 DEF Store, history
  <2>2. poll.row \in Messages /\ file[poll.row] = "none"
    BY <2>1 DEF FileInv, RowInv
  <2>3. CASE UNCHANGED file /\ To("next")
    BY <1>2, <2>1, <2>3, PollFrame DEF FileInv, RowInv
  <2>4. CASE file' = [file EXCEPT ![poll.row] = "unread"] /\ To("ack")
    <3>1. poll'.pc = "ack" /\ poll'.row = poll.row
      BY <2>4, PollFrame
    <3>2. /\ file' \in [Messages -> {"none", "unread", "read"}]
          /\ file'[poll.row] = "unread"
          /\ \A m \in Messages \ {poll.row} : file'[m] = file[m]
      BY <2>2, <2>4 DEF FileInv, MailInv
    <3>3. RowInv'
      BY <2>2, <3>1, <3>2 DEF RowInv
    <3>4. MailInv'
      BY <2>1, <2>2, <3>2 DEF FileInv, MailInv
    <3> QED BY <3>3, <3>4 DEF FileInv
  <2> QED BY <1>7, <2>3, <2>4 DEF Store
<1>8. CASE AckMessage
  <2>1. /\ UNCHANGED <<file, printed, wait>> /\ poll.pc \in {"ack", "ackDone"}
        /\ stored' = stored \cup {poll.row}
        /\ acked' \subseteq acked \cup {poll.row}
        /\ \E pc \in {"wake", "next"} : To(pc)
    BY <1>8 DEF AckMessage, Acknowledge
  <2>2. poll.row \in Messages /\ file[poll.row] # "none"
    BY <2>1 DEF FileInv, RowInv
  <2>3. RowInv'
    BY <2>1, <2>2, PollFrame DEF RowInv
  <2>4. MailInv'
    BY <1>1, <2>1, <2>2
  <2> QED BY <2>3, <2>4 DEF FileInv
<1>9. CASE WakeForMessage
  <2>1. UNCHANGED <<file, printed, wait, stored, acked>> /\ To("next")
    BY <1>9 DEF WakeForMessage, boxVars, history
  <2>2. RowInv'
    BY <2>1, PollFrame DEF RowInv
  <2> QED BY <1>2, <2>1, <2>2 DEF FileInv
<1>10. CASE Button
  <2>1. UNCHANGED <<file, printed, wait, stored, acked>> /\ To("ackButton")
        /\ poll.pc = "button"
    BY <1>10 DEF Button, boxVars, history
  <2>2. RowInv'
    BY <2>1, PollFrame DEF FileInv, RowInv
  <2> QED BY <1>2, <2>1, <2>2 DEF FileInv
<1>11. CASE AckButton
  <2>1. /\ UNCHANGED <<file, printed, wait, stored>> /\ To("next")
        /\ acked' \subseteq acked \cup {poll.row} /\ poll.pc = "ackButton"
    BY <1>11 DEF AckButton, Acknowledge, history
  <2>2. poll.row \notin Messages
    BY <1>0, <2>1 DEF FileInv, RowInv
  <2>3. RowInv'
    BY <2>1, PollFrame DEF RowInv
  <2>4. MailInv'
    BY <1>1, <2>1, <2>2
  <2> QED BY <2>3, <2>4 DEF FileInv
<1> QED BY <1>3, <1>4, <1>5, <1>6, <1>7, <1>8, <1>9, <1>10, <1>11 DEF PollStep

\* The steps of the readers.
LEMMA WaitFiles == ASSUME IInv, FileInv, WaitStep PROVE FileInv'
<1>0. /\ UNCHANGED <<poll, stored, acked>>
      /\ \A h \in Hosts : h \in Pids
      /\ wait \in [Pids -> WaitType]
  BY DEF WaitStep, StartWait, Look, Inbox, Rename, PrintMessages, memory,
     history, Pids, FileInv, MailInv
<1>1. ASSUME UNCHANGED <<file, printed>>, NEW p \in Pids,
             wait' = [wait EXCEPT ![p] = wait'[p]], wait'[p] \in WaitType,
             wait'[p].got \subseteq wait[p].got
      PROVE  FileInv'
  <2>1. RowInv'
    BY <1>0, <1>1 DEF FileInv, RowInv
  <2>2. /\ wait' \in [Pids -> WaitType]
        /\ \A q \in Pids : wait'[q].got \subseteq wait[q].got
    BY <1>0, <1>1
  <2>3. MailInv'
    BY <1>0, <1>1, <2>2 DEF FileInv, MailInv
  <2> QED BY <2>1, <2>3 DEF FileInv
<1>2. UnreadFiles \subseteq Messages
  BY DEF UnreadFiles
<1>4. ASSUME NEW p \in Pids, NEW pc \in {"out", "look", "take", "inbox"},
             Move(p, pc), UNCHANGED <<file, printed>>
      PROVE  FileInv'
  <2>1. wait' = [wait EXCEPT ![p] = [wait[p] EXCEPT !.pc = pc]]
    BY <1>4 DEF Move
  <2>2. wait'[p] = [wait[p] EXCEPT !.pc = pc] /\ wait[p] \in WaitType
    BY <1>0, <2>1
  <2>3. wait'[p] \in WaitType /\ wait'[p].got = wait[p].got
    BY <2>2 DEF WaitType
  <2> QED BY <1>1, <1>4, <2>1, <2>2, <2>3
<1>5. ASSUME NEW p \in Pids, wait' = [wait EXCEPT ![p] = Out],
             UNCHANGED <<file, printed>>
      PROVE  FileInv'
  <2>1. wait'[p] = Out
    BY <1>0, <1>5
  <2>2. Out \in WaitType /\ Out.got = {}
    BY DEF Out, WaitType
  <2> QED BY <1>1, <1>5, <2>1, <2>2
<1>6. ASSUME NEW h \in Hosts, StartWait(h) PROVE FileInv'
  BY <1>0, <1>4, <1>6 DEF StartWait, boxVars, history
<1>7. ASSUME NEW h \in Hosts, Look(h) PROVE FileInv'
  <2>1. UNCHANGED <<file, printed>>
    BY <1>7 DEF Look, boxVars, history
  <2>2. CASE wait' = [wait EXCEPT ![h] = Out]
    BY <1>0, <1>5, <2>1, <2>2
  <2>3. CASE UNCHANGED wait
    BY <1>0, <2>1, <2>3 DEF FileInv, RowInv, MailInv
  <2>4. CASE wait' = [wait EXCEPT ![h].pc = "take", ![h].todo = UnreadFiles]
    <3> DEFINE w == [wait[h] EXCEPT !.pc = "take", !.todo = UnreadFiles]
    <3>2. wait[h] \in WaitType
      BY <1>0
    <3>3. w \in WaitType /\ w.got = wait[h].got
      BY <1>2, <3>2 DEF WaitType
    <3>4. wait' = [wait EXCEPT ![h] = w]
      BY <1>0, <2>4
    <3> HIDE DEF w
    <3>5. wait'[h] = w
      BY <1>0, <3>4
    <3> QED BY <1>0, <1>1, <2>1, <3>3, <3>4, <3>5
  <2> QED BY <1>7, <2>2, <2>3, <2>4 DEF Look, Exit
<1>8. ASSUME NEW p \in Pids, Inbox(p) PROVE FileInv'
  <2>1. UNCHANGED <<file, printed>>
    BY <1>8 DEF Inbox, boxVars, history
  <2> DEFINE w == [wait[p] EXCEPT !.pc = "inbox", !.todo = UnreadFiles]
  <2>2. wait[p] \in WaitType
    BY <1>0
  <2>3. w \in WaitType /\ w.got = wait[p].got
    BY <1>2, <2>2 DEF WaitType
  <2>4. wait' = [wait EXCEPT ![p] = w]
    BY <1>0, <1>8 DEF Inbox
  <2> HIDE DEF w
  <2>5. wait'[p] = w
    BY <1>0, <2>4
  <2> QED BY <1>0, <1>1, <2>1, <2>3, <2>4, <2>5
<1>9. ASSUME NEW p \in Pids, NEW m \in Messages, Rename(p, m) PROVE FileInv'
  <2>1. UNCHANGED printed /\ wait[p] \in WaitType
    BY <1>0, <1>9 DEF Rename, history
  <2>2. CASE ~Unread(m)
    <3>1. UNCHANGED file
      BY <1>9, <2>2 DEF Rename
    <3>2. wait' = [wait EXCEPT ![p].todo = @ \ {m}, ![p].got = @]
      BY <1>9, <2>2 DEF Rename
    <3>3. wait' = [wait EXCEPT ![p] = [wait[p] EXCEPT !.todo = wait[p].todo \ {m}]]
      BY <1>0, <2>1, <3>2 DEF WaitType
    <3>4. wait'[p] = [wait[p] EXCEPT !.todo = wait[p].todo \ {m}]
      BY <1>0, <3>3
    <3>5. wait'[p] \in WaitType /\ wait'[p].got = wait[p].got
      BY <2>1, <3>4 DEF WaitType
    <3> QED BY <1>1, <2>1, <3>1, <3>3, <3>4, <3>5
  <2>3. CASE Unread(m)
    <3>1. file' = [file EXCEPT ![m] = "read"]
      BY <1>9, <2>3 DEF Rename
    <3>2. wait' = [wait EXCEPT ![p].todo = @ \ {m}, ![p].got = @ \cup {m}]
      BY <1>9, <2>3 DEF Rename
    <3> DEFINE w == [wait[p] EXCEPT !.todo = wait[p].todo \ {m},
                                    !.got = wait[p].got \cup {m}]
    <3>3. wait' = [wait EXCEPT ![p] = w]
      BY <1>0, <3>2
    <3>4. w \in WaitType /\ w.got = wait[p].got \cup {m}
      BY <2>1 DEF WaitType
    <3> HIDE DEF w
    <3>5. /\ wait' \in [Pids -> WaitType] /\ wait'[p].got = wait[p].got \cup {m}
          /\ \A q \in Pids \ {p} : wait'[q] = wait[q]
      BY <1>0, <3>3, <3>4
    <3>6. /\ file[m] = "unread" /\ file'[m] = "read"
          /\ file' \in [Messages -> {"none", "unread", "read"}]
          /\ \A n \in Messages \ {m} : file'[n] = file[n]
      BY <2>3, <3>1 DEF Unread, FileInv, MailInv
    <3>7. RowInv'
      BY <1>0, <3>6 DEF FileInv, RowInv
    <3>8. printed[m] = 0 /\ \A q \in Pids : m \notin wait[q].got
      BY <3>6 DEF FileInv, MailInv
    <3>9. ASSUME NEW n \in Messages
          PROVE  /\ n \in stored' \cup acked' => file'[n] # "none"
                 /\ file'[n] # "read" =>
                      printed'[n] = 0 /\ \A q \in Pids : n \notin wait'[q].got
                 /\ \A q \in Pids : n \in wait'[q].got => printed'[n] = 0
                 /\ \A q, r \in Pids :
                      n \in wait'[q].got \cap wait'[r].got => q = r
                 /\ printed'[n] <= 1
      <4>1. CASE n = m
        BY <2>1, <3>5, <3>6, <3>8, <4>1
      <4>2. CASE n # m
        <5>1. \A q \in Pids : n \in wait'[q].got <=> n \in wait[q].got
          BY <3>5, <4>2
        <5> QED BY <1>0, <2>1, <3>6, <4>2, <5>1 DEF FileInv, MailInv
      <4> QED BY <4>1, <4>2
    <3>10. MailInv'
      BY <2>1, <3>5, <3>6, <3>9 DEF FileInv, MailInv
    <3> QED BY <3>7, <3>10 DEF FileInv
  <2> QED BY <2>2, <2>3
<1>10. ASSUME NEW p \in Pids, PrintMessages(p) PROVE FileInv'
  <2>1. /\ UNCHANGED file
        /\ printed' = [m \in Messages |->
                         printed[m] + IF m \in wait[p].got THEN 1 ELSE 0]
    BY <1>10 DEF PrintMessages, boxVars
  <2>2. CASE wait[p].got = {}
    <3>1. printed' = printed
      BY <2>1, <2>2 DEF FileInv, MailInv
    <3>2. \/ wait' = [wait EXCEPT ![p] = Out]
          \/ Move(p, "look")
      BY <1>10 DEF PrintMessages, Exit
    <3> QED BY <1>4, <1>5, <2>1, <3>1, <3>2
  <2>3. CASE wait[p].got # {}
    <3>1. wait' = [wait EXCEPT ![p] = Out]
      BY <1>10, <2>3 DEF PrintMessages, Exit
    <3>2. Out \in WaitType /\ Out.got = {}
      BY DEF Out, WaitType
    <3>3. /\ wait' \in [Pids -> WaitType] /\ wait'[p].got = {}
          /\ \A q \in Pids \ {p} : wait'[q] = wait[q]
      BY <1>0, <3>1, <3>2
    <3>4. RowInv'
      BY <1>0, <2>1 DEF FileInv, RowInv
    <3>5. printed' \in [Messages -> Nat]
      BY <2>1 DEF FileInv, MailInv
    <3>6. ASSUME NEW n \in Messages
          PROVE  /\ n \in stored' \cup acked' => file'[n] # "none"
                 /\ file'[n] # "read" =>
                      printed'[n] = 0 /\ \A q \in Pids : n \notin wait'[q].got
                 /\ \A q \in Pids : n \in wait'[q].got => printed'[n] = 0
                 /\ \A q, r \in Pids :
                      n \in wait'[q].got \cap wait'[r].got => q = r
                 /\ printed'[n] <= 1
      <4>1. CASE n \in wait[p].got
        <5>1. printed[n] = 0 /\ printed'[n] = 1 /\ file[n] = "read"
          BY <2>1, <4>1 DEF FileInv, MailInv
        <5>2. \A q \in Pids : n \notin wait'[q].got
          BY <3>3, <4>1 DEF FileInv, MailInv
        <5> QED BY <2>1, <5>1, <5>2
      <4>2. CASE n \notin wait[p].got
        <5>1. printed'[n] = printed[n]
          BY <2>1, <4>2 DEF FileInv, MailInv
        <5>2. \A q \in Pids : wait'[q].got \subseteq wait[q].got
          BY <3>3
        <5> QED BY <1>0, <2>1, <5>1, <5>2 DEF FileInv, MailInv
      <4> QED BY <4>1, <4>2
    <3>7. MailInv'
      BY <2>1, <3>3, <3>5, <3>6 DEF FileInv, MailInv
    <3> QED BY <3>4, <3>7 DEF FileInv
  <2> QED BY <2>2, <2>3
<1> QED BY <1>6, <1>7, <1>8, <1>9, <1>10 DEF WaitStep

\* Every step keeps the messages and their files together.
LEMMA FileNext == ASSUME IInv, FileInv, [Next]_vars PROVE FileInv'
<1>1. CASE PollStep
  BY <1>1, PollFiles
<1>2. CASE WaitStep
  BY <1>2, WaitFiles
<1>3. ASSUME UNCHANGED <<file, printed, wait, stored>>,
             UNCHANGED <<poll, acked>> \/ (poll' = Quiet /\ acked' = {})
      PROVE  FileInv'
  <2>1. Quiet.pc = "idle"
    BY DEF Quiet
  <2>2. RowInv'
    BY <1>3, <2>1 DEF FileInv, RowInv
  <2>3. MailInv'
    BY <1>3 DEF FileInv, MailInv
  <2> QED BY <2>2, <2>3 DEF FileInv
<1>4. CASE WakeSteps
  <2> PICK t \in Threads : WakeStep(t)
    BY <1>4 DEF WakeSteps
  <2>1. CASE Enter(t) \/ Limits(t) \/ WriteStamp(t)
    BY <1>3, <2>1 DEF Enter, Limits, WriteStamp, boxVars, history
  <2>2. CASE Launch(t) \/ LoseAgent(t) \/ GetLease(t)
    BY <1>3, <2>2 DEF Launch, LoseAgent, GetLease, boxVars, history
  <2>3. CASE Patch(t) \/ Decide(t)
    BY <1>3, <2>3 DEF Patch, Decide, boxVars, history
  <2> QED BY <2>1, <2>2, <2>3 DEF WakeStep
<1>5. CASE MainStep
  BY <1>3, <1>5 DEF MainStep, Ask, WakeForQuestion, Finish, Answered, memory,
     boxVars, history
<1>6. CASE Environment
  <2>1. CASE Crash
    BY <1>3, <2>1 DEF Crash, boxVars, history
  <2>2. CASE ~Crash
    BY <1>3, <1>6, <2>2 DEF Environment, SendRow, RequestWake, OtherWakes,
       Resume, Time, Dies, memory, boxVars, history
  <2> QED BY <2>1, <2>2
<1>7. CASE UNCHANGED vars
  BY <1>3, <1>7 DEF vars, memory, boxVars, history
<1> QED BY <1>1, <1>2, <1>4, <1>5, <1>6, <1>7 DEF Next

\* A row is deleted at the relay only when its message is in a file, and no
\* message is printed twice, however often its row is delivered.
THEOREM MessagesAreReadOnce == Spec => []ReadOnce
<1>1. Init => FileInv
  <2> SUFFICES ASSUME Init PROVE FileInv
    OBVIOUS
  <2>1. /\ poll.pc = "idle" /\ Out \in WaitType /\ Out.got = {}
    BY DEF Init, Quiet, Out, WaitType
  <2>2. RowInv
    BY <2>1 DEF RowInv
  <2>3. wait \in [Pids -> WaitType] /\ \A p \in Pids : wait[p].got = {}
    BY <2>1 DEF Init
  <2>4. MailInv
    BY <2>3 DEF Init, MailInv
  <2> QED BY <2>2, <2>4 DEF FileInv
<1>2. IInv /\ MutexInv /\ FileInv /\ [Next]_vars => FileInv'
  BY FileNext
<1>3. FileInv => ReadOnce
  BY DEF FileInv, MailInv, ReadOnce
<1> QED BY <1>1, <1>2, <1>3, LockCorrect, PTL DEF Spec
=============================================================================
