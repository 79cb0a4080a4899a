--------------------------- MODULE Commands_proofs ---------------------------
(***************************************************************************)
(* Proofs about Commands: what the relay shows of the commands of a run is *)
(* a life of Order, and a command is not lost under a watcher that works   *)
(* on it.  The second half follows the processes that the watcher and      *)
(* people start: a resume kills only who has hung, a command that is done  *)
(* has made its owner, and refused resumes do not lose an answer.          *)
(***************************************************************************)
EXTENDS Commands, TLAPS

USE CommandsAssumption

AtWork == {"taken", "ready", "attempt", "post"}
RowType == [st : Statuses, age : Nat, text : BOOLEAN]
JobType == [pc : JobPCs, flag : BOOLEAN, tries : Nat,
            proc : Procs \cup {Nobody}, aged : BOOLEAN, code : Nat]

TypeInv == cmd \in [Ids -> RowType] /\ job \in [Ids -> JobType]

OneOpen == \A i, j \in Ids :
              cmd[i].st \in Open /\ cmd[j].st \in Open => i = j

\* The age of a command is paid for by the attempts made at it.
Paid(i) == cmd[i].age <= job[i].tries + (IF job[i].aged THEN 1 ELSE 0)
JobInv == \A i \in Ids :
             /\ cmd[i].st \in {"none", "pending"} => job[i] = NoJob
             /\ job[i].pc \in AtWork
                   => cmd[i].st = "taken" /\ job[i].tries <= Retries /\ Paid(i)

IInv == TypeInv /\ OneOpen /\ JobInv

\* What a request makes of the rows before it looks at them: at most the open
\* one ends, and none that a job works on.
LEMMA RowsFacts ==
    ASSUME IInv
    PROVE  /\ Rows \in [Ids -> RowType]
           /\ \A i \in Ids :
                 \/ Rows[i] = cmd[i]
                 \/ cmd[i].st = "pending" /\ Rows[i].st = "expired"
                 \/ cmd[i].st = "taken" /\ Rows[i].st = "lost"
           /\ \A i \in Ids : job[i].pc \in AtWork => Rows[i] = cmd[i]
<1>1. \A i \in Ids : Expired(cmd[i]) \in RowType
  BY DEF IInv, TypeInv, RowType, Statuses, Expired, Closed, NoRow
<1>2. \A i \in Ids : \/ Expired(cmd[i]) = cmd[i]
                     \/ /\ cmd[i].st = "pending"
                        /\ Expired(cmd[i]).st = "expired"
                     \/ /\ cmd[i].st = "taken"
                        /\ Expired(cmd[i]).st = "lost"
  BY DEF IInv, TypeInv, RowType, Statuses, Expired, Closed, NoRow
<1>3. ASSUME NEW i \in Ids, job[i].pc \in AtWork
      PROVE  Expired(cmd[i]) = cmd[i]
  <2>1. cmd[i].st = "taken" /\ job[i].tries <= 3 /\ Paid(i)
    BY <1>3 DEF IInv, JobInv, Retries
  <2>2. cmd[i] \in RowType /\ job[i] \in JobType
    BY DEF IInv, TypeInv
  <2>3. cmd[i].age <= 4
    BY <2>1, <2>2 DEF Paid, RowType, JobType
  <2>. QED BY <2>1, <2>2, <2>3 DEF Expired, Ttl, RowType
<1>. QED BY <1>1, <1>2, <1>3 DEF Rows

\* One row moves, the others keep their status.
LEMMA Moved ==
    ASSUME NEW i \in Ids, NEW from, NEW to, cmd[i].st = from, cmd'[i].st = to,
           \A j \in Ids \ {i} : cmd'[j].st = cmd[j].st
    PROVE  O!Move(i, from, to)
BY DEF O!Move

LEMMA Stays ==
    ASSUME \A j \in Ids : cmd'[j].st = cmd[j].st
    PROVE  UNCHANGED [i \in Ids |-> cmd[i].st]
OBVIOUS

\* A request that does nothing else is a step of Order.
LEMMA Expiring ==
    ASSUME IInv, cmd' = Rows
    PROVE  [O!Next]_([i \in Ids |-> cmd[i].st])
<1>1. CASE \A j \in Ids : cmd'[j].st = cmd[j].st
  BY <1>1, Stays
<1>2. CASE \E i \in Ids : cmd'[i].st # cmd[i].st
  <2>1. PICK i \in Ids : cmd'[i].st # cmd[i].st
    BY <1>2
  <2>2. \/ cmd[i].st = "pending" /\ cmd'[i].st = "expired"
        \/ cmd[i].st = "taken" /\ cmd'[i].st = "lost"
    BY <2>1, RowsFacts
  <2>3. \A j \in Ids \ {i} : cmd'[j].st = cmd[j].st
    <3>1. cmd[i].st \in Open
      BY <2>2 DEF Open
    <3>2. \A j \in Ids \ {i} : cmd[j].st \notin Open
      BY <3>1 DEF IInv, OneOpen
    <3>. QED BY <3>2, RowsFacts DEF Open
  <2>4. \/ O!Move(i, "pending", "expired") \/ O!Move(i, "taken", "lost")
    BY <2>2, <2>3, Moved
  <2>. QED BY <2>4 DEF O!Next, O!Expire
<1>. QED BY <1>1, <1>2

LEMMA InitIInv == Init => IInv
BY DEF Init, IInv, TypeInv, RowType, JobType, OneOpen, JobInv, NoRow, NoJob,
       Open, AtWork, Statuses, JobPCs

\* A request that leaves the jobs alone.
LEMMA ExpiringKeeps ==
    ASSUME IInv, cmd' = Rows, UNCHANGED job
    PROVE  IInv'
<1>1. TypeInv'
  BY RowsFacts DEF IInv, TypeInv
<1>2. OneOpen'
  BY RowsFacts DEF IInv, OneOpen, Open
<1>3. JobInv'
  BY RowsFacts DEF IInv, JobInv, Paid
<1>. QED BY <1>1, <1>2, <1>3 DEF IInv

LEMMA InsertKeeps ==
    ASSUME IInv, NEW p \in Phones, PostInserts(p)
    PROVE  IInv' /\ [O!Next]_([i \in Ids |-> cmd[i].st])
<1>1. CASE UNCHANGED cmd
  BY <1>1, Stays DEF PostInserts, watchVars, IInv, TypeInv, OneOpen, JobInv, Paid
<1>2. CASE Free /\ \E i \in Ids, text \in BOOLEAN : Inserted(i, text)
  <2>1. PICK i \in Ids, text \in BOOLEAN : Inserted(i, text)
    BY <1>2
  <2>2. cmd[i].st = "none" /\ \A j \in Ids : cmd[j].st \notin Open
    BY <1>2, <2>1 DEF Inserted, Free, NoneOpen
  <2>3. /\ cmd' = [cmd EXCEPT ![i] = [st |-> "pending", age |-> 0,
                                      text |-> text]]
        /\ UNCHANGED job
    BY <2>1 DEF Inserted, PostInserts, watchVars
  <2>4. TypeInv'
    BY <2>3 DEF IInv, TypeInv, RowType, Statuses
  <2>5. OneOpen'
    BY <2>2, <2>3 DEF IInv, TypeInv, OneOpen, Open
  <2>6. JobInv'
    BY <2>2, <2>3 DEF IInv, TypeInv, JobInv, Paid, AtWork, NoJob
  <2>7. O!Move(i, "none", "pending")
    BY <2>2, <2>3, Moved DEF IInv, TypeInv
  <2>8. O!NoneOpen
    BY <2>2 DEF O!NoneOpen, O!Open, Open
  <2>. QED BY <2>4, <2>5, <2>6, <2>7, <2>8 DEF IInv, O!Next, O!Post
<1>. QED BY <1>1, <1>2 DEF PostInserts

LEMMA TickKeeps ==
    ASSUME IInv, Tick
    PROVE  IInv' /\ UNCHANGED [i \in Ids |-> cmd[i].st]
<1>. USE DEF IInv, TypeInv
<1>1. \A i \in Ids : /\ cmd[i] \in RowType /\ job[i] \in JobType
                     /\ cmd'[i] \in RowType
                     /\ cmd'[i].st = cmd[i].st
                     /\ cmd'[i].age \in {cmd[i].age, cmd[i].age + 1}
  BY DEF Tick, RowType
<1>2. \A i \in Ids : job'[i] = IF job[i].pc = "attempt"
                               THEN [job[i] EXCEPT !.aged = TRUE] ELSE job[i]
  BY DEF Tick
<1>3. \A i \in Ids : /\ job'[i] \in JobType
                     /\ job'[i].pc = job[i].pc /\ job'[i].tries = job[i].tries
                     /\ job[i].pc = "attempt" => job'[i].aged
  BY <1>1, <1>2 DEF JobType
<1>4. TypeInv'
  BY <1>1, <1>3 DEF Tick
<1>5. OneOpen'
  BY <1>1 DEF OneOpen
<1>6. JobInv'
  <2>. SUFFICES ASSUME NEW i \in Ids
                PROVE  /\ cmd'[i].st \in {"none", "pending"} => job'[i] = NoJob
                       /\ job'[i].pc \in AtWork
                             => /\ cmd'[i].st = "taken"
                                /\ job'[i].tries <= Retries /\ Paid(i)'
    BY DEF JobInv
  <2>1. ASSUME cmd'[i].st \in {"none", "pending"} PROVE job'[i] = NoJob
    <3>1. job[i] = NoJob
      BY <2>1, <1>1 DEF JobInv
    <3>2. job[i].pc = "none"
      BY <3>1 DEF NoJob
    <3>. QED BY <3>1, <3>2, <1>2
  <2>2. ASSUME job'[i].pc \in AtWork
        PROVE  cmd'[i].st = "taken" /\ job'[i].tries <= Retries /\ Paid(i)'
    <3>1. job[i].pc = "attempt" /\ ~job[i].aged
      BY <2>2, <1>3 DEF Tick, Timed, AtWork
    <3>2. cmd[i].st = "taken" /\ job[i].tries <= Retries
          /\ cmd[i].age <= job[i].tries
      BY <3>1, <1>1 DEF JobInv, Paid, AtWork, RowType, JobType
    <3>3. Paid(i)'
      BY <3>1, <3>2, <1>1, <1>3 DEF Paid, RowType, JobType
    <3>. QED BY <3>2, <3>3, <1>1, <1>3
  <2>. QED BY <2>1, <2>2
<1>. QED BY <1>1, <1>4, <1>5, <1>6, Stays

LEMMA TakeKeeps ==
    ASSUME IInv, NEW i \in Ids, Take(i)
    PROVE  IInv' /\ [O!Next]_([j \in Ids |-> cmd[j].st])
<1>1. CASE ~MayTake(Rows[i])
  <2>1. cmd' = Rows /\ UNCHANGED job
    BY <1>1 DEF Take
  <2>. QED BY <2>1, ExpiringKeeps, Expiring
<1>2. CASE MayTake(Rows[i])
  <2>1. cmd' = [Rows EXCEPT ![i].st = "taken", ![i].age = 0]
    BY <1>2 DEF Take
  <2>2. \/ job' = [job EXCEPT ![i].pc = "taken"]
        \/ UNCHANGED job
    BY <1>2 DEF Take
  <2>3. cmd[i].st = "pending" /\ job[i] = NoJob
    BY <1>2, RowsFacts DEF MayTake, IInv, JobInv
  <2>4. \A j \in Ids \ {i} : /\ cmd[j].st \notin Open /\ cmd'[j] = cmd[j]
                             /\ job'[j] = job[j]
    <3>1. \A j \in Ids \ {i} : cmd[j].st \notin Open
      BY <2>3 DEF IInv, OneOpen, Open
    <3>2. \A j \in Ids \ {i} : Rows[j] = cmd[j]
      BY <3>1, RowsFacts DEF Open
    <3>. QED BY <2>1, <2>2, <3>1, <3>2, RowsFacts DEF IInv, TypeInv
  <2>5. /\ cmd'[i].st = "taken" /\ cmd'[i].age = 0 /\ cmd' \in [Ids -> RowType]
    BY <2>1, RowsFacts DEF RowType, Statuses
  <2>6. /\ job'[i].pc \in {"none", "taken"} /\ job'[i].tries = 0
        /\ ~job'[i].aged /\ job' \in [Ids -> JobType]
    <3>1. job[i] \in JobType /\ job[i].pc = "none" /\ job[i].tries = 0
          /\ ~job[i].aged
      BY <2>3 DEF JobType, JobPCs, NoJob
    <3>2. CASE UNCHANGED job
      BY <3>1, <3>2 DEF IInv, TypeInv
    <3>3. CASE job' = [job EXCEPT ![i].pc = "taken"]
      BY <3>1, <3>3 DEF IInv, TypeInv, JobType, JobPCs
    <3>. QED BY <2>2, <3>2, <3>3
  <2>7. OneOpen'
    BY <2>4, <2>5 DEF OneOpen
  <2>8. JobInv'
    <3>1. Paid(i)'
      BY <2>5, <2>6 DEF Paid
    <3>2. \A j \in Ids \ {i} : Paid(j)' <=> Paid(j)
      BY <2>4 DEF Paid
    <3>. QED BY <2>4, <2>5, <2>6, <3>1, <3>2 DEF IInv, JobInv, AtWork, Retries
  <2>9. O!Move(i, "pending", "taken")
    BY <2>3, <2>4, <2>5, Moved
  <2>. QED BY <2>5, <2>6, <2>7, <2>8, <2>9 DEF IInv, TypeInv, O!Next, O!Take
<1>. QED BY <1>1, <1>2

\* Steps of a job that leave the relay alone.
LEMMA JobKeeps ==
    ASSUME IInv, NEW i \in Ids, UNCHANGED cmd, NEW r \in JobType,
           job[i].pc \in AtWork,
           job' = [job EXCEPT ![i] = r],
           r.pc \in AtWork => /\ r.tries <= Retries
                              /\ cmd[i].age <= r.tries + (IF r.aged THEN 1 ELSE 0)
    PROVE  IInv'
<1>1. job' \in [Ids -> JobType] /\ job'[i] = r
      /\ \A j \in Ids \ {i} : job'[j] = job[j]
  BY DEF IInv, TypeInv
<1>2. cmd[i].st = "taken"
  BY DEF IInv, JobInv
<1>3. JobInv'
  BY <1>1, <1>2 DEF IInv, JobInv, Paid
<1>. QED BY <1>1, <1>3 DEF IInv, TypeInv, OneOpen

LEMMA PrepareKeeps ==
    ASSUME IInv, NEW i \in Ids, Prepare(i)
    PROVE  IInv' /\ UNCHANGED cmd
<1>1. UNCHANGED cmd /\ job[i].pc = "taken"
  BY DEF Prepare, relayVars
<1>2. PICK flag \in BOOLEAN :
         job' = [job EXCEPT ![i].pc = "ready", ![i].flag = flag]
  <2>1. (state.status = "needs" /\ cmd[i].text) \in BOOLEAN
    BY DEF IInv, TypeInv, RowType
  <2>. QED BY <2>1 DEF Prepare
<1>3. job' = [job EXCEPT ![i] = [job[i] EXCEPT !.pc = "ready", !.flag = flag]]
  BY <1>2 DEF IInv, TypeInv
<1>4. [job[i] EXCEPT !.pc = "ready", !.flag = flag] \in JobType
  BY DEF IInv, TypeInv, JobType, JobPCs
<1>5. job[i].tries <= Retries /\ Paid(i)
  BY <1>1 DEF IInv, JobInv, AtWork
<1>6. [job[i] EXCEPT !.pc = "ready", !.flag = flag].tries = job[i].tries
      /\ [job[i] EXCEPT !.pc = "ready", !.flag = flag].aged = job[i].aged
  BY DEF IInv, TypeInv, JobType
<1>. QED BY <1>1, <1>3, <1>4, <1>5, <1>6, JobKeeps DEF Paid, AtWork

LEMMA AttemptKeeps ==
    ASSUME IInv, NEW i \in Ids, NEW p \in Procs, Attempt(i, p)
    PROVE  IInv' /\ UNCHANGED cmd
<1>1. UNCHANGED cmd /\ job[i].pc = "ready"
  BY DEF Attempt, relayVars
<1>2. job' = [job EXCEPT ![i] = [job[i] EXCEPT !.pc = "attempt", !.proc = p]]
  BY DEF Attempt, IInv, TypeInv
<1>3. [job[i] EXCEPT !.pc = "attempt", !.proc = p] \in JobType
  BY DEF IInv, TypeInv, JobType, JobPCs
<1>4. job[i].tries <= Retries /\ Paid(i)
  BY <1>1 DEF IInv, JobInv, AtWork
<1>5. [job[i] EXCEPT !.pc = "attempt", !.proc = p].tries = job[i].tries
      /\ [job[i] EXCEPT !.pc = "attempt", !.proc = p].aged = job[i].aged
  BY DEF IInv, TypeInv, JobType
<1>. QED BY <1>1, <1>2, <1>3, <1>4, <1>5, JobKeeps DEF Paid, AtWork

\* To the report, with whatever code.
LEMMA EndsKeeps ==
    ASSUME IInv, NEW i \in Ids, UNCHANGED cmd, job[i].pc = "attempt",
           NEW code \in Nat, Ends(i, code)
    PROVE  IInv'
<1>1. job' = [job EXCEPT ![i] = [job[i] EXCEPT !.pc = "post", !.code = code]]
  BY DEF Ends, IInv, TypeInv
<1>2. [job[i] EXCEPT !.pc = "post", !.code = code] \in JobType
  BY DEF IInv, TypeInv, JobType, JobPCs
<1>3. job[i].tries <= Retries /\ Paid(i)
  BY DEF IInv, JobInv, AtWork
<1>4. [job[i] EXCEPT !.pc = "post", !.code = code].tries = job[i].tries
      /\ [job[i] EXCEPT !.pc = "post", !.code = code].aged = job[i].aged
  BY DEF IInv, TypeInv, JobType
<1>. QED BY <1>1, <1>2, <1>3, <1>4, JobKeeps DEF Paid, AtWork

LEMMA AttemptEndsKeeps ==
    ASSUME IInv, NEW i \in Ids, AttemptEnds(i)
    PROVE  IInv' /\ UNCHANGED cmd
<1>1. UNCHANGED cmd /\ job[i].pc = "attempt"
  BY DEF AttemptEnds, relayVars
<1>2. \/ \E code \in Nat : Ends(i, code)
      \/ /\ job[i].tries < Retries
         /\ job' = [job EXCEPT ![i].pc = "ready", ![i].tries = @ + 1,
                               ![i].aged = FALSE]
  BY DEF AttemptEnds, Busy
<1>3. CASE \E code \in Nat : Ends(i, code)
  BY <1>1, <1>3, EndsKeeps
<1>4. CASE /\ job[i].tries < Retries
           /\ job' = [job EXCEPT ![i].pc = "ready", ![i].tries = @ + 1,
                                 ![i].aged = FALSE]
  <2> DEFINE r == [job[i] EXCEPT !.pc = "ready", !.tries = job[i].tries + 1,
                                 !.aged = FALSE]
  <2>1. job[i] \in JobType /\ cmd[i] \in RowType
        /\ job[i].tries <= Retries /\ Paid(i)
    BY <1>1 DEF IInv, TypeInv, JobInv, AtWork
  <2>2. r \in JobType /\ r.tries = job[i].tries + 1 /\ ~r.aged
    <3>1. PICK n \in Nat : n = job[i].tries + 1
      BY <2>1 DEF JobType
    <3>2. r = [job[i] EXCEPT !.pc = "ready", !.tries = n, !.aged = FALSE]
      BY <3>1
    <3> HIDE DEF r
    <3>3. r \in JobType /\ r.tries = n /\ r.aged = FALSE
      BY <2>1, <3>2 DEF JobType, JobPCs
    <3>. QED BY <3>1, <3>3
  <2>3. job' = [job EXCEPT ![i] = r]
    BY <1>4 DEF IInv, TypeInv
  <2>4. r.tries <= Retries
    BY <2>1, <2>2, <1>4 DEF Retries, JobType
  <2>5. cmd[i].age <= r.tries + (IF r.aged THEN 1 ELSE 0)
    BY <2>1, <2>2 DEF Paid, JobType, RowType
  <2>6. job[i].pc \in AtWork
    BY <1>1 DEF AtWork
  <2>7. r.pc \in AtWork => /\ r.tries <= Retries
                           /\ cmd[i].age <= r.tries + (IF r.aged THEN 1 ELSE 0)
    BY <2>4, <2>5
  <2> HIDE DEF r
  <2>. QED BY <1>1, <2>2, <2>3, <2>6, <2>7, JobKeeps
<1>. QED BY <1>1, <1>2, <1>3, <1>4

LEMMA TimesOutKeeps ==
    ASSUME IInv, NEW i \in Ids, AttemptTimesOut(i)
    PROVE  IInv' /\ UNCHANGED cmd
BY EndsKeeps DEF AttemptTimesOut, relayVars

LEMMA ReportKeeps ==
    ASSUME IInv, NEW i \in Ids, Report(i)
    PROVE  IInv' /\ [O!Next]_([j \in Ids |-> cmd[j].st])
<1> DEFINE r == [NoJob EXCEPT !.pc = "gone"]
<1>1. /\ job[i].pc = "post" /\ job' = [job EXCEPT ![i] = r]
      /\ r \in JobType /\ r.pc = "gone"
  BY DEF Report, JobType, JobPCs, NoJob
<1>2. Rows[i] = cmd[i] /\ cmd[i].st = "taken"
  BY <1>1, RowsFacts DEF IInv, JobInv, AtWork
<1>3. \A j \in Ids \ {i} : /\ cmd[j].st \notin Open /\ Rows[j] = cmd[j]
                           /\ job'[j] = job[j]
  <2>1. \A j \in Ids \ {i} : cmd[j].st \notin Open
    BY <1>2 DEF IInv, OneOpen, Open
  <2>. QED BY <2>1, <1>1, RowsFacts DEF Open, IInv, TypeInv
<1>4. job' \in [Ids -> JobType] /\ job'[i].pc = "gone"
  BY <1>1 DEF IInv, TypeInv
<1>5. CASE UNCHANGED cmd
  <2>1. JobInv'
    BY <1>2, <1>3, <1>4, <1>5 DEF IInv, JobInv, Paid, AtWork
  <2>. QED BY <1>4, <1>5, <2>1, Stays DEF IInv, TypeInv, OneOpen
<1>6. CASE ~(UNCHANGED cmd)
  <2>1. PICK end \in {"done", "failed"} :
           cmd' = [Rows EXCEPT ![i] = Closed(end)]
    BY <1>2, <1>6 DEF Report
  <2>2. Closed(end) \in RowType /\ Closed(end).st = end
    BY <2>1 DEF Closed, NoRow, RowType, Statuses
  <2>3. /\ cmd' \in [Ids -> RowType] /\ cmd'[i].st = end
        /\ \A j \in Ids \ {i} : cmd'[j] = cmd[j]
    BY <2>1, <2>2, <1>3, RowsFacts
  <2>4. OneOpen'
    BY <2>3, <1>3 DEF OneOpen, Open
  <2>5. JobInv'
    BY <2>3, <1>3, <1>4 DEF IInv, JobInv, Paid, AtWork
  <2>6. O!Move(i, "taken", end)
    BY <1>2, <2>3, Moved
  <2>. QED BY <1>4, <2>3, <2>4, <2>5, <2>6 DEF IInv, TypeInv, O!Next, O!Report
<1>. QED BY <1>5, <1>6

LEMMA WatcherDiesKeeps ==
    ASSUME IInv, WatcherDies
    PROVE  IInv' /\ UNCHANGED cmd
<1>1. UNCHANGED cmd
  BY DEF WatcherDies, relayVars
<1>2. \A i \in Ids : /\ job'[i] \in JobType /\ job'[i].pc \notin AtWork
                     /\ job[i] = NoJob => job'[i] = NoJob
  <2> DEFINE r == [NoJob EXCEPT !.pc = "gone"]
  <2>1. NoJob \in JobType /\ NoJob.pc = "none"
    BY DEF JobType, JobPCs, NoJob
  <2>2. r \in JobType /\ r.pc = "gone"
    BY DEF JobType, JobPCs, NoJob
  <2>3. \A i \in Ids : job'[i] = IF job[i].pc = "none" THEN NoJob ELSE r
    BY DEF WatcherDies
  <2> HIDE DEF r
  <2>. QED BY <2>1, <2>2, <2>3 DEF AtWork
<1>3. job' \in [Ids -> JobType]
  BY <1>2 DEF WatcherDies
<1>4. JobInv'
  BY <1>1, <1>2 DEF IInv, JobInv
<1>. QED BY <1>1, <1>3, <1>4 DEF IInv, TypeInv, OneOpen

\* What neither the relay nor a job sees.
LEMMA SameKeeps ==
    ASSUME IInv, UNCHANGED <<cmd, job>>
    PROVE  IInv'
BY DEF IInv, TypeInv, OneOpen, JobInv, Paid

LEMMA ProcSame ==
    ASSUME NEW p \in Procs, LocalResume(p) \/ ProcStep(p) \/ OwnerStep(p)
    PROVE  UNCHANGED <<cmd, job>>
BY DEF LocalResume, ProcStep, OwnerStep, Read, Try, Kill, Wait, GitLocked,
       Persist, Unlink, Begin, WorkEnds, OwnerDies, OwnerHangs, OwnerWakes,
       relayVars, watchVars

\* Every step keeps the invariant and is one of Order, or none.
LEMMA StepKeeps ==
    ASSUME IInv, [Next]_vars
    PROVE  IInv' /\ [O!Next]_([i \in Ids |-> cmd[i].st])
<1>1. CASE UNCHANGED <<cmd, job>>
  BY <1>1, SameKeeps, Stays
<1>2. ASSUME NEW p \in Phones, PostLooks(p) PROVE IInv' /\ cmd' = Rows
  BY <1>2, ExpiringKeeps DEF PostLooks, watchVars
<1>3. ASSUME NEW p \in Phones, PostInserts(p)
      PROVE  IInv' /\ [O!Next]_([i \in Ids |-> cmd[i].st])
  BY <1>3, InsertKeeps
<1>4. ASSUME Last \/ Poll PROVE IInv' /\ cmd' = Rows
  BY <1>4, ExpiringKeeps DEF Last, Poll, watchVars
<1>5. CASE Tick
  BY <1>5, TickKeeps
<1>6. CASE WatcherDies
  BY <1>6, WatcherDiesKeeps, Stays
<1>7. ASSUME NEW i \in Ids, Take(i)
      PROVE  IInv' /\ [O!Next]_([j \in Ids |-> cmd[j].st])
  BY <1>7, TakeKeeps
<1>8. ASSUME NEW i \in Ids, JobStep(i)
      PROVE  IInv' /\ [O!Next]_([j \in Ids |-> cmd[j].st])
  <2>1. \/ Prepare(i) \/ AttemptEnds(i) \/ AttemptTimesOut(i) \/ Report(i)
        \/ \E p \in Procs : Attempt(i, p)
    BY <1>8 DEF JobStep
  <2>. QED BY <2>1, PrepareKeeps, AttemptEndsKeeps, TimesOutKeeps, ReportKeeps,
              AttemptKeeps, Stays
<1>9. ASSUME WatcherStarts \/ OtherEnds PROVE UNCHANGED <<cmd, job>>
  BY <1>9 DEF WatcherStarts, OtherEnds, relayVars, watchVars
<1>10. CASE UNCHANGED vars
  BY <1>1, <1>10 DEF vars, relayVars, watchVars
<1>11. CASE Next
  BY <1>1, <1>2, <1>3, <1>4, <1>5, <1>6, <1>7, <1>8, <1>9, <1>11, ProcSame,
     Expiring DEF Next
<1>. QED BY <1>10, <1>11

THEOREM Invariant == Spec => []IInv
<1>1. Init => IInv
  BY InitIInv
<1>2. IInv /\ [Next]_vars => IInv'
  BY StepKeeps
<1>. QED BY <1>1, <1>2, PTL DEF Spec

\* A command is not lost under the watcher that works on it: what the watcher
\* may take for all its attempts stays within the relay's patience.
THEOREM CommandsAreNotLost == Spec => []NotLostWhileWatched
<1>1. IInv => NotLostWhileWatched
  BY DEF IInv, JobInv, AtWork, NotLostWhileWatched
<1>. QED BY <1>1, Invariant, PTL

\* What the relay shows of a run's commands is a life of Order, whatever
\* phones, watchers and owners do.
THEOREM CommandsImplementOrder == Spec => OrderLife
<1>1. Init => O!Init
  BY DEF Init, O!Init, NoRow
<1>2. IInv /\ [Next]_vars => [O!Next]_([i \in Ids |-> cmd[i].st])
  BY StepKeeps
<1>. QED BY <1>1, <1>2, Invariant, PTL DEF Spec, OrderLife, O!Spec

----------------------------------------------------------------------------
(* The processes of owners.                                                *)

Running == {"work", "hung"}
Beginning == {"new", "try", "kill", "wait", "held", "unlink", "begin"}
Gone == {"off", "exit"}
ProcType == [pc : ProcPCs, by : {0} \cup Ids, flag : BOOLEAN,
             seen : RunStatuses, pid : Procs \cup {Nobody}, text : Nat,
             code : Nat, hung : BOOLEAN]
MachineType ==
    /\ proc \in [Procs -> ProcType]
    /\ state \in [status : RunStatuses, pid : Procs \cup {Nobody}]
    /\ saved \in Nat /\ file \in Nat

\* Who is about to be killed has hung, as long as the process exists.
HungInv ==
    /\ MachineType
    /\ \A p \in Procs :
          /\ proc[p].hung => proc[p].pc \in Running
          /\ proc[p].pc = "hung" => proc[p].hung
          /\ proc[p].pc = "kill" /\ Exists(proc[p].pid) => proc[proc[p].pid].hung
    /\ OnlyTheHungAreKilled

\* An attempt is followed to its process, and that one to state.json.
AttemptInv ==
    /\ \A p \in Procs : /\ proc[p].pc = "off" => proc[p].by = 0
                        /\ proc[p].pc \in {"held", "unlink"} => proc[p].flag
                        /\ state.pid = p => proc[p].pc \notin Beginning
    /\ \A i \in Ids :
          /\ job[i].pc = "attempt" =>
                /\ job[i].proc \in Procs /\ proc[job[i].proc].by = i
                /\ state.pid = job[i].proc \/ proc[job[i].proc].pc \in Running
                      => i \in begun
          /\ job[i].pc = "post" /\ job[i].code = 0 => i \in begun
          /\ cmd[i].st = "done" => i \in begun

\* Unless a command was given up too early, only its own process may take the
\* text of the command that is attempted.
TextInv == ~late =>
    /\ \A p \in Procs :
          /\ proc[p].pc \in Beginning /\ proc[p].flag
                => /\ proc[p].by \in Ids /\ job[proc[p].by].pc = "attempt"
                   /\ job[proc[p].by].proc = p
          /\ proc[p].pc = "unlink" => proc[p].text = file
    /\ \A i \in Ids :
          job[i].pc \in {"ready", "attempt"} /\ job[i].flag =>
              /\ file \in {0, i}
              /\ \/ file = i \/ i \in begun
                 \/ \E p \in Procs : /\ proc[p].flag /\ proc[p].text = i
                                     /\ proc[p].pc \in {"unlink", "begin"}

\* What a step of one process leaves alone.
OthersKept(p) == \A q \in Procs \ {p} : proc'[q] = proc[q]

LEMMA OffType == Off \in ProcType /\ Ids \subseteq Nat /\ 0 \notin Ids
BY DEF Off, ProcType, ProcPCs, RunStatuses, Ids

\* A process goes on with what it has.
LEMMA GotoFrame ==
    ASSUME MachineType, NEW p \in Procs, NEW pc \in ProcPCs, Goto(p, pc)
    PROVE  /\ proc' \in [Procs -> ProcType] /\ OthersKept(p)
           /\ proc'[p] = [proc[p] EXCEPT !.pc = pc]
           /\ proc'[p].pc = pc /\ proc'[p].by = proc[p].by
           /\ proc'[p].flag = proc[p].flag /\ proc'[p].pid = proc[p].pid
           /\ proc'[p].text = proc[p].text /\ proc'[p].hung = proc[p].hung
<1> DEFINE w == [proc[p] EXCEPT !.pc = pc]
<1>1. proc[p] \in ProcType
  BY DEF MachineType
<1>2. proc' = [proc EXCEPT ![p] = w]
  BY DEF Goto, MachineType
<1>3. /\ w \in ProcType /\ w.pc = pc /\ w.by = proc[p].by
      /\ w.flag = proc[p].flag /\ w.pid = proc[p].pid
      /\ w.text = proc[p].text /\ w.hung = proc[p].hung
  BY <1>1 DEF ProcType
<1>4. w = [proc[p] EXCEPT !.pc = pc]
  OBVIOUS
<1> HIDE DEF w
<1> QED BY <1>2, <1>3, <1>4 DEF MachineType, OthersKept

\* A process ends: it is kept for the one that waits for it.
Exited(r, code) ==
    IF r.by = 0 THEN Off ELSE [Off EXCEPT !.pc = "exit", !.by = r.by, !.code = code]

LEMMA ExitedFrame ==
    ASSUME NEW r \in ProcType, NEW code \in Nat
    PROVE  /\ Exited(r, code) \in ProcType /\ Exited(r, code).pc \in Gone
           /\ Exited(r, code).by = r.by /\ Exited(r, code).hung = FALSE
           /\ Exited(r, code).pc = "off" => Exited(r, code).by = 0
BY OffType DEF Exited, ProcType, ProcPCs, Off, Gone

LEMMA ExitFrame ==
    ASSUME MachineType, NEW p \in Procs, NEW code \in Nat, proc' = Exit(p, code)
    PROVE  /\ proc' \in [Procs -> ProcType] /\ OthersKept(p)
           /\ proc'[p].pc \in Gone /\ proc'[p].by = proc[p].by
           /\ proc'[p].hung = FALSE
           /\ proc'[p].pc = "off" => proc'[p].by = 0
<1>1. proc' = [proc EXCEPT ![p] = Exited(proc[p], code)]
  BY DEF Exit, Exited
<1>2. proc[p] \in ProcType
  BY DEF MachineType
<1>3. PICK w : w = Exited(proc[p], code)
  OBVIOUS
<1>4. /\ w \in ProcType /\ w.pc \in Gone /\ w.by = proc[p].by
      /\ w.hung = FALSE /\ (w.pc = "off" => w.by = 0)
  BY <1>2, <1>3, ExitedFrame
<1> QED BY <1>1, <1>3, <1>4 DEF MachineType, OthersKept

\* One that is waited for no more.
LEMMA ForgottenFrame ==
    ASSUME NEW r \in ProcType
    PROVE  /\ Forgotten(r) \in ProcType /\ Forgotten(r).by = 0
           /\ IF r.pc = "exit" THEN Forgotten(r) = Off
              ELSE /\ Forgotten(r).pc = r.pc /\ Forgotten(r).flag = r.flag
                   /\ Forgotten(r).pid = r.pid /\ Forgotten(r).text = r.text
                   /\ Forgotten(r).hung = r.hung
BY OffType DEF Forgotten, ProcType, Off

\* What a step does to the processes of owners: none comes into being or gets
\* back to the beginning, an owner has begun, a text is passed on.
Moves(p) ==
    LET r == proc[p]
        s == proc'[p]
        Done == r.by = 0 \/ r.by \in begun'
    IN  /\ r.pc \notin Gone /\ s.by = r.by /\ (s.pc = "off" => s.by = 0)
        /\ s.pc \in Beginning => /\ r.pc \in Beginning /\ s.flag = r.flag
                                 /\ UNCHANGED state
        /\ s.pc \in {"held", "unlink"} => s.flag
        /\ s.pc = "unlink" => s.text = file'
        /\ s.pc \in Running \/ state' # state => r.pc \in Running \/ Done
        /\ r.flag /\ r.pc \in {"unlink", "begin"}
              => \/ s.flag /\ s.pc \in {"unlink", "begin"} /\ s.text = r.text
                 \/ Done
        /\ s.hung => s.pc \in Running
        /\ s.pc = "hung" => s.hung
        /\ r.hung => s.hung \/ s.pc \in Gone
        /\ s.pc = "kill" /\ Exists(s.pid) => proc[s.pid].hung

\* The file is left alone, or emptied by the one that has its text.
FileMoves ==
    \/ UNCHANGED file
    \/ \E p \in Procs : /\ proc[p].pc = "unlink" /\ proc'[p].pc = "begin"
                        /\ proc'[p].text = proc[p].text
                        /\ proc'[p].flag = proc[p].flag /\ file' = 0
MachineMoves ==
    /\ MachineType' /\ UNCHANGED <<cmd, job, late>>
    /\ begun \subseteq begun' /\ FALSE \notin victims'
    /\ FileMoves
    /\ \E p \in Procs : state' # state => state'.pid = p /\ Moves(p)
    /\ \A q \in Procs : proc'[q] = proc[q] \/ Moves(q)

\* The steps of a process that wants to own the run.
LEMMA BeginningMoves ==
    ASSUME HungInv, AttemptInv, NEW p \in Procs, ProcStep(p)
    PROVE  MachineMoves
<1> USE DEF Running, Beginning, Gone
<1>0. /\ MachineType /\ proc[p] \in ProcType /\ FALSE \notin victims
      /\ (proc[p].hung => proc[p].pc \in Running)
      /\ (proc[p].pc \in {"held", "unlink"} => proc[p].flag)
  BY DEF HungInv, MachineType, AttemptInv, OnlyTheHungAreKilled
<1>1. ASSUME MachineType', UNCHANGED <<cmd, job, late, state, begun>>,
             FALSE \notin victims', FileMoves,
             \A q \in Procs : proc'[q] = proc[q] \/ Moves(q)
      PROVE  MachineMoves
  BY <1>1 DEF MachineMoves
<1>2. ASSUME NEW code \in Nat, proc' = Exit(p, code), UNCHANGED <<cmd, job, late,
             state, begun, victims, file, saved>>,
             proc[p].pc \notin {"unlink", "off", "exit"},
             proc[p].pc = "begin" => ~proc[p].flag
      PROVE  MachineMoves
  <2>1. /\ proc' \in [Procs -> ProcType] /\ \A q \in Procs \ {p} : proc'[q] = proc[q]
        /\ proc'[p].pc \in Gone /\ proc'[p].by = proc[p].by /\ proc'[p].hung = FALSE
        /\ proc'[p].pc = "off" => proc'[p].by = 0
    BY <1>0, <1>2, ExitFrame DEF OthersKept
  <2>2. Moves(p)
    BY <1>2, <2>1 DEF Moves
  <2>3. MachineType' /\ FileMoves
    BY <1>0, <1>2, <2>1 DEF MachineType, FileMoves
  <2> QED BY <1>0, <1>1, <1>2, <2>1, <2>2, <2>3
<1>3. ASSUME NEW pc \in Beginning \ {"kill", "unlink"}, Goto(p, pc), UNCHANGED <<cmd, job,
             late, state, begun, victims, file, saved>>,
             proc[p].pc \in Beginning \ {"unlink", "begin"},
             pc = "held" => proc[p].flag
      PROVE  MachineMoves
  <2>0. pc \in ProcPCs
    BY <1>3 DEF ProcPCs
  <2>1. /\ proc' \in [Procs -> ProcType] /\ OthersKept(p)
        /\ proc'[p].pc = pc /\ proc'[p].by = proc[p].by
        /\ proc'[p].flag = proc[p].flag /\ proc'[p].hung = proc[p].hung
    BY <1>0, <1>3, <2>0, GotoFrame
  <2>2. Moves(p)
    BY <1>0, <1>3, <2>1 DEF Moves
  <2>3. MachineType' /\ FileMoves
    BY <1>0, <1>3, <2>1 DEF MachineType, FileMoves
  <2> QED BY <1>0, <1>1, <1>3, <2>1, <2>2, <2>3 DEF OthersKept
<1>4. CASE Read(p)
  <2>1. /\ UNCHANGED <<cmd, job, late, state, begun, victims, file, saved>>
        /\ proc[p].pc = "new"
    BY <1>4 DEF Read, relayVars, watchVars, history, Peeked
  <2>2. CASE proc' = Exit(p, 1)
    BY <1>2, <2>1, <2>2
  <2>3. CASE proc' = [proc EXCEPT ![p].pc = "try", ![p].seen = state.status,
                                  ![p].pid = state.pid, ![p].text = AnswerSeen(p)]
    <3> DEFINE w == [proc[p] EXCEPT !.pc = "try", !.seen = state.status,
                                    !.pid = state.pid, !.text = AnswerSeen(p)]
    <3>1. AnswerSeen(p) \in Nat
      BY <1>0 DEF AnswerSeen, MachineType, ProcType
    <3>2. /\ w \in ProcType /\ w.pc = "try" /\ w.by = proc[p].by
          /\ w.flag = proc[p].flag /\ w.hung = proc[p].hung
      <4> HIDE DEF w
      <4>1. PICK text \in Nat : text = AnswerSeen(p)
        BY <3>1
      <4>2. w = [proc[p] EXCEPT !.pc = "try", !.seen = state.status,
                                !.pid = state.pid, !.text = text]
        BY <4>1 DEF w
      <4> QED BY <1>0, <4>2 DEF MachineType, ProcType, ProcPCs
    <3>3. proc' = [proc EXCEPT ![p] = w]
      BY <1>0, <2>3 DEF MachineType
    <3> HIDE DEF w
    <3>4. /\ proc' \in [Procs -> ProcType] /\ proc'[p] = w
          /\ \A q \in Procs \ {p} : proc'[q] = proc[q]
      BY <1>0, <3>2, <3>3 DEF MachineType
    <3>5. Moves(p)
      BY <1>0, <2>1, <3>2, <3>4 DEF Moves
    <3>6. MachineType' /\ FileMoves
      BY <1>0, <2>1, <3>4 DEF MachineType, FileMoves
    <3> QED BY <1>0, <1>1, <2>1, <3>4, <3>5, <3>6
  <2> QED BY <1>4, <2>2, <2>3 DEF Read
<1>5. CASE Try(p)
  <2>1. /\ UNCHANGED <<cmd, job, late, state, begun, victims, file, saved>>
        /\ proc[p].pc = "try"
    BY <1>5 DEF Try, relayVars, watchVars, runVars, history
  <2>2. CASE Goto(p, Entry(p))
    BY <1>3, <2>1, <2>2 DEF Entry
  <2>3. CASE proc' = Exit(p, Busy)
    BY <1>2, <2>1, <2>3 DEF Busy
  <2>4. CASE Goto(p, "kill") /\ Exists(proc[p].pid) /\ IsHung(proc[p].pid)
    <3>1. /\ proc' \in [Procs -> ProcType] /\ OthersKept(p)
          /\ proc'[p].pc = "kill" /\ proc'[p].by = proc[p].by
          /\ proc'[p].flag = proc[p].flag /\ proc'[p].pid = proc[p].pid
          /\ proc'[p].hung = proc[p].hung
      BY <1>0, <2>4, GotoFrame DEF ProcPCs
    <3>2. proc[proc[p].pid].hung
      BY <2>4 DEF HungInv, Exists, IsHung
    <3>3. Moves(p)
      BY <1>0, <2>1, <3>1, <3>2 DEF Moves
    <3>4. MachineType' /\ FileMoves
      BY <1>0, <2>1, <3>1 DEF MachineType, FileMoves
    <3> QED BY <1>0, <1>1, <2>1, <3>1, <3>3, <3>4 DEF OthersKept
  <2> QED BY <1>5, <2>2, <2>3, <2>4 DEF Try
<1>6. CASE Kill(p)
  <2>1. /\ UNCHANGED <<cmd, job, late, state, begun, file, saved>>
        /\ proc[p].pc = "kill"
    BY <1>6 DEF Kill, relayVars, watchVars, runVars
  <2>2. CASE Goto(p, "wait") /\ UNCHANGED victims
    BY <1>3, <2>1, <2>2
  <2>3. CASE /\ Exists(proc[p].pid) /\ proc[p].pid # p
             /\ proc' = [Exit(proc[p].pid, 1) EXCEPT ![p].pc = "wait"]
             /\ victims' = victims \cup {proc[proc[p].pid].hung}
    <3> DEFINE v == proc[p].pid
               f == Exit(v, 1)
    <3>1. v \in Procs /\ v # p /\ proc[v].hung /\ proc[v].pc \in Running
          /\ proc[v] \in ProcType
      BY <2>1, <2>3 DEF HungInv, Exists, MachineType
    <3>2. proc' = [f EXCEPT ![p].pc = "wait"] /\ victims' = victims \cup {proc[v].hung}
      BY <2>3
    <3> HIDE DEF v
    <3>3. /\ f \in [Procs -> ProcType] /\ \A q \in Procs \ {v} : f[q] = proc[q]
          /\ f[v].pc \in Gone /\ f[v].by = proc[v].by /\ f[v].hung = FALSE
          /\ f[v].pc = "off" => f[v].by = 0
      <4>1. f = [proc EXCEPT ![v] = Exited(proc[v], 1)]
        BY DEF Exit, Exited
      <4>2. PICK w : w = Exited(proc[v], 1)
        OBVIOUS
      <4>3. /\ w \in ProcType /\ w.pc \in Gone /\ w.by = proc[v].by
            /\ w.hung = FALSE /\ (w.pc = "off" => w.by = 0)
        BY <3>1, <4>2, ExitedFrame
      <4> HIDE DEF f
      <4> QED BY <1>0, <3>1, <4>1, <4>2, <4>3 DEF MachineType
    <3> HIDE DEF f
    <3> DEFINE w == [proc[p] EXCEPT !.pc = "wait"]
    <3>4. /\ w \in ProcType /\ w.pc = "wait" /\ w.by = proc[p].by
          /\ w.flag = proc[p].flag /\ w.hung = proc[p].hung
      BY <1>0 DEF ProcType, ProcPCs
    <3>5. proc' = [f EXCEPT ![p] = w]
      BY <3>1, <3>2, <3>3
    <3> HIDE DEF w
    <3>6. /\ proc' \in [Procs -> ProcType] /\ proc'[p] = w /\ proc'[v] = f[v]
          /\ \A q \in Procs \ {p, v} : proc'[q] = proc[q]
      BY <3>1, <3>3, <3>4, <3>5
    <3>7. Moves(p)
      BY <1>0, <2>1, <3>4, <3>6 DEF Moves
    <3>8. Moves(v)
      BY <2>1, <3>1, <3>3, <3>6 DEF Moves
    <3>9. MachineType' /\ FileMoves
      BY <1>0, <2>1, <3>6 DEF MachineType, FileMoves
    <3>10. FALSE \notin victims'
      <4>1. proc[v].hung # FALSE
        BY <3>1
      <4> QED BY <1>0, <3>2, <4>1
    <3> QED BY <1>1, <2>1, <3>6, <3>7, <3>8, <3>9, <3>10
  <2> QED BY <1>6, <2>2, <2>3 DEF Kill, Victim
<1>7. CASE Wait(p)
  <2>1. /\ UNCHANGED <<cmd, job, late, state, begun, victims, file, saved>>
        /\ proc[p].pc = "wait"
    BY <1>7 DEF Wait, relayVars, watchVars, runVars, history
  <2>2. CASE Goto(p, Entry(p))
    BY <1>3, <2>1, <2>2 DEF Entry
  <2>3. CASE proc' = Exit(p, Busy)
    BY <1>2, <2>1, <2>3 DEF Busy
  <2> QED BY <1>7, <2>2, <2>3 DEF Wait
<1>8. CASE GitLocked(p)
  <2>1. /\ UNCHANGED <<cmd, job, late, state, begun, victims, file, saved>>
        /\ proc[p].pc = Entry(p) /\ proc' = Exit(p, 1)
    BY <1>8 DEF GitLocked, relayVars, watchVars, runVars, history
  <2> QED BY <1>2, <2>1 DEF Entry
<1>9. CASE Persist(p)
  <2>1. /\ UNCHANGED <<cmd, job, late, state, begun, victims, file>>
        /\ proc[p].pc = "held" /\ saved' \in Nat
    BY <1>0, <1>9 DEF Persist, relayVars, watchVars, history, MachineType
  <2>2. CASE Goto(p, "begin") /\ UNCHANGED saved
    BY <1>3, <2>1, <2>2
  <2>3. CASE proc' = [proc EXCEPT ![p].pc = "unlink", ![p].text = file]
    <3> DEFINE w == [proc[p] EXCEPT !.pc = "unlink", !.text = file]
    <3>1. /\ w \in ProcType /\ w.pc = "unlink" /\ w.by = proc[p].by
          /\ w.flag = proc[p].flag /\ w.hung = proc[p].hung /\ w.text = file
      BY <1>0 DEF MachineType, ProcType, ProcPCs
    <3>2. proc' = [proc EXCEPT ![p] = w]
      BY <1>0, <2>3 DEF MachineType
    <3> HIDE DEF w
    <3>3. /\ proc' \in [Procs -> ProcType] /\ proc'[p] = w
          /\ \A q \in Procs \ {p} : proc'[q] = proc[q]
      BY <1>0, <3>1, <3>2 DEF MachineType
    <3>4. Moves(p)
      BY <1>0, <2>1, <3>1, <3>3 DEF Moves
    <3>5. MachineType' /\ FileMoves
      BY <1>0, <2>1, <3>3 DEF MachineType, FileMoves
    <3> QED BY <1>0, <1>1, <2>1, <3>3, <3>4, <3>5
  <2> QED BY <1>9, <2>2, <2>3 DEF Persist
<1>10. CASE Unlink(p)
  <2>1. /\ UNCHANGED <<cmd, job, late, state, begun, victims, saved>>
        /\ proc[p].pc = "unlink" /\ file' = 0 /\ Goto(p, "begin")
    BY <1>10 DEF Unlink, relayVars, watchVars, history
  <2>2. /\ proc' \in [Procs -> ProcType] /\ OthersKept(p)
        /\ proc'[p].pc = "begin" /\ proc'[p].by = proc[p].by
        /\ proc'[p].flag = proc[p].flag /\ proc'[p].text = proc[p].text
        /\ proc'[p].hung = proc[p].hung
    BY <1>0, <2>1, GotoFrame DEF ProcPCs
  <2>3. Moves(p)
    BY <1>0, <2>1, <2>2 DEF Moves
  <2>4. MachineType' /\ FileMoves
    BY <1>0, <2>1, <2>2 DEF MachineType, FileMoves
  <2> QED BY <1>0, <1>1, <2>1, <2>2, <2>3, <2>4 DEF OthersKept
<1>11. CASE Begin(p)
  <2>1. /\ UNCHANGED <<cmd, job, late, victims, file, saved>>
        /\ proc[p].pc = "begin" /\ begun' = begun \cup ({proc[p].by} \ {0})
        /\ state' \in [status : RunStatuses, pid : Procs \cup {Nobody}]
        /\ state'.pid = p
    BY <1>0, <1>11 DEF Begin, relayVars, watchVars, ProcType, RunStatuses
  <2>2. /\ proc' \in [Procs -> ProcType] /\ proc'[p].by = proc[p].by
        /\ proc'[p].pc \in {"work", "exit", "off"} /\ ~proc'[p].hung
        /\ (proc'[p].pc = "off" => proc'[p].by = 0)
        /\ \A q \in Procs \ {p} : proc'[q] = proc[q]
    <3>1. CASE proc' = Exit(p, 1)
      BY <1>0, <3>1, ExitFrame DEF OthersKept
    <3>2. CASE proc' = [proc EXCEPT ![p] = [Off EXCEPT !.pc = "work",
                                                       !.by = proc[p].by]]
      <4> DEFINE w == [Off EXCEPT !.pc = "work", !.by = proc[p].by]
      <4>1. w \in ProcType /\ w.pc = "work" /\ w.by = proc[p].by /\ w.hung = FALSE
        BY <1>0, OffType DEF Off, ProcType, ProcPCs
      <4> HIDE DEF w
      <4> QED BY <1>0, <3>2, <4>1 DEF MachineType, w
    <3> QED BY <1>11, <3>1, <3>2 DEF Begin
  <2>3. proc[p].by = 0 \/ proc[p].by \in begun'
    BY <2>1
  <2>4. Moves(p)
    BY <1>0, <2>1, <2>2, <2>3 DEF Moves
  <2>5. MachineType' /\ FileMoves
    BY <1>0, <2>1, <2>2 DEF MachineType, FileMoves
  <2> QED BY <1>0, <2>1, <2>2, <2>4, <2>5 DEF MachineMoves
<1> QED BY <1>4, <1>5, <1>6, <1>7, <1>8, <1>9, <1>10, <1>11 DEF ProcStep

\* The steps of an owner.
LEMMA OwnerMoves ==
    ASSUME HungInv, AttemptInv, NEW p \in Procs, OwnerStep(p)
    PROVE  MachineMoves
<1> USE DEF Running, Beginning, Gone
<1>0. /\ MachineType /\ proc[p] \in ProcType /\ FALSE \notin victims
      /\ (proc[p].hung => proc[p].pc \in Running)
      /\ (proc[p].pc = "hung" => proc[p].hung)
  BY DEF HungInv, MachineType, OnlyTheHungAreKilled
<1>1. /\ UNCHANGED <<cmd, job, late, begun, victims, file>>
      /\ saved' \in Nat /\ proc[p].pc \in Running
      /\ \/ UNCHANGED state
         \/ /\ state' \in [status : RunStatuses, pid : Procs \cup {Nobody}]
            /\ state'.pid = p
  BY <1>0 DEF OwnerStep, WorkEnds, OwnerDies, OwnerHangs, OwnerWakes, relayVars,
     watchVars, runVars, history, MachineType, RunStatuses
<1>2. /\ proc' \in [Procs -> ProcType] /\ proc'[p].by = proc[p].by
      /\ proc'[p].pc \in Running \cup Gone
      /\ (proc'[p].pc = "off" => proc'[p].by = 0)
      /\ (proc'[p].hung => proc'[p].pc \in Running)
      /\ (proc'[p].pc = "hung" => proc'[p].hung)
      /\ (proc[p].hung => proc'[p].hung \/ proc'[p].pc \in Gone)
      /\ \A q \in Procs \ {p} : proc'[q] = proc[q]
  <2>1. CASE \E code \in Nat : proc' = Exit(p, code)
    BY <1>0, <2>1, ExitFrame DEF OthersKept
  <2>2. CASE Goto(p, "work") /\ proc[p].pc = "hung"
    BY <1>0, <2>2, GotoFrame DEF ProcPCs, OthersKept
  <2>3. CASE proc' = [proc EXCEPT ![p].pc = "hung", ![p].hung = TRUE]
    <3> DEFINE w == [proc[p] EXCEPT !.pc = "hung", !.hung = TRUE]
    <3>1. w \in ProcType /\ w.pc = "hung" /\ w.by = proc[p].by /\ w.hung
      BY <1>0 DEF ProcType, ProcPCs
    <3>2. proc' = [proc EXCEPT ![p] = w]
      BY <1>0, <2>3 DEF MachineType
    <3> HIDE DEF w
    <3> QED BY <1>0, <3>1, <3>2 DEF MachineType
  <2> QED BY <2>1, <2>2, <2>3 DEF OwnerStep, WorkEnds, OwnerDies, OwnerHangs,
             OwnerWakes
<1>3. Moves(p)
  BY <1>0, <1>1, <1>2 DEF Moves
<1>4. MachineType' /\ FileMoves
  BY <1>0, <1>1, <1>2 DEF MachineType, FileMoves
<1> QED BY <1>0, <1>1, <1>2, <1>3, <1>4 DEF MachineMoves

\* One command is worked on at a time.
LEMMA OneAtWork ==
    ASSUME IInv, NEW i \in Ids, NEW j \in Ids,
           job[i].pc \in AtWork, job[j].pc \in AtWork
    PROVE  i = j
BY DEF IInv, OneOpen, JobInv, Open

\* The moves of processes keep the three invariants.
LEMMA MovesKeepHung ==
    ASSUME HungInv, MachineMoves
    PROVE  HungInv'
<1> USE DEF HungInv, MachineMoves, Moves, Running, Gone
<1>1. ASSUME NEW p \in Procs
      PROVE  /\ proc'[p].hung => proc'[p].pc \in Running
             /\ proc'[p].pc = "hung" => proc'[p].hung
  BY <1>1
<1>2. ASSUME NEW p \in Procs, proc'[p].pc = "kill", Exists(proc[p].pid)'
      PROVE  proc'[proc'[p].pid].hung
  <2> DEFINE v == proc'[p].pid
  <2>1. v \in Procs /\ proc'[v].pc \notin Gone
    BY <1>2 DEF Exists
  <2>2. proc[v].pc \notin Gone
    BY <2>1
  <2>3. Exists(v)
    BY <2>1, <2>2 DEF Exists
  <2>4. proc[v].hung
    <3>1. CASE proc'[p] = proc[p]
      BY <1>2, <2>3, <3>1
    <3>2. CASE Moves(p)
      BY <1>2, <2>3, <3>2
    <3> QED BY <3>1, <3>2
  <2> HIDE DEF v
  <2>5. proc'[v].hung
    BY <2>1, <2>4
  <2> QED BY <2>5 DEF v
<1>3. OnlyTheHungAreKilled'
  BY DEF OnlyTheHungAreKilled
<1> QED BY <1>1, <1>2, <1>3

LEMMA MovesKeepAttempts ==
    ASSUME AttemptInv, MachineMoves
    PROVE  AttemptInv'
<1>1. ASSUME NEW p \in Procs
      PROVE  /\ proc'[p].pc = "off" => proc'[p].by = 0
             /\ proc'[p].pc \in {"held", "unlink"} => proc'[p].flag
  BY <1>1 DEF AttemptInv, MachineMoves, Moves
<1>2. ASSUME NEW p \in Procs, state'.pid = p, proc'[p].pc \in Beginning
      PROVE  FALSE
  <2>1. proc[p].pc \in Beginning /\ UNCHANGED state
    BY <1>2 DEF MachineMoves, Moves, AttemptInv
  <2> QED BY <1>2, <2>1 DEF AttemptInv
<1>3. ASSUME NEW i \in Ids, job[i].pc = "attempt"
      PROVE  /\ proc'[job[i].proc].by = i
             /\ state'.pid = job[i].proc \/ proc'[job[i].proc].pc \in Running
                   => i \in begun'
  <2> DEFINE p == job[i].proc
  <2>1. /\ p \in Procs /\ proc[p].by = i /\ i # 0 /\ begun \subseteq begun'
        /\ (state.pid = p \/ proc[p].pc \in Running => i \in begun)
    BY <1>3 DEF AttemptInv, MachineMoves, Ids
  <2> HIDE DEF p
  <2>2. proc'[p].by = i
    BY <2>1 DEF MachineMoves, Moves
  <2>3. proc'[p].pc \in Running => i \in begun'
    BY <2>1 DEF MachineMoves, Moves
  <2>4. state'.pid = p => i \in begun'
    BY <2>1 DEF MachineMoves, Moves
  <2> QED BY <2>2, <2>3, <2>4 DEF p
<1>4. ASSUME NEW i \in Ids
      PROVE  /\ job'[i].pc = "post" /\ job'[i].code = 0 => i \in begun'
             /\ cmd'[i].st = "done" => i \in begun'
  BY <1>4 DEF AttemptInv, MachineMoves
<1>5. UNCHANGED job
  BY DEF MachineMoves
<1>6. \A i \in Ids : job[i].pc = "attempt" => job[i].proc \in Procs
  BY DEF AttemptInv
<1> QED BY <1>1, <1>2, <1>3, <1>4, <1>5, <1>6 DEF AttemptInv

LEMMA MovesKeepTexts ==
    ASSUME IInv, AttemptInv, TextInv, MachineMoves
    PROVE  TextInv'
<1> SUFFICES ASSUME ~late' PROVE TextInv'
  BY DEF TextInv
<1>0. ~late /\ UNCHANGED <<cmd, job>> /\ begun \subseteq begun'
  BY DEF MachineMoves
\* Two processes that begin for commands under attempt are one.
<1>1. ASSUME NEW p \in Procs, NEW q \in Procs,
             proc[p].pc \in Beginning, proc[p].flag,
             proc[q].pc \in Beginning, proc[q].flag
      PROVE  p = q
  <2>1. /\ proc[p].by \in Ids /\ job[proc[p].by].pc \in AtWork
        /\ job[proc[p].by].proc = p
        /\ proc[q].by \in Ids /\ job[proc[q].by].pc \in AtWork
        /\ job[proc[q].by].proc = q
    BY <1>0, <1>1 DEF TextInv, AtWork
  <2> QED BY <2>1, OneAtWork
<1>2. ASSUME NEW p \in Procs, proc'[p].pc \in Beginning, proc'[p].flag
      PROVE  /\ proc'[p].by \in Ids /\ job[proc'[p].by].pc = "attempt"
             /\ job[proc'[p].by].proc = p
  BY <1>0, <1>2 DEF TextInv, MachineMoves, Moves
<1>3. ASSUME NEW p \in Procs, proc'[p].pc = "unlink"
      PROVE  proc'[p].text = file'
  <2>1. CASE Moves(p)
    BY <1>3, <2>1 DEF Moves
  <2>2. CASE proc'[p] = proc[p] /\ UNCHANGED file
    BY <1>0, <1>3, <2>2 DEF TextInv
  <2>3. CASE proc'[p] = proc[p] /\ ~UNCHANGED file
    <3>1. PICK q \in Procs : proc[q].pc = "unlink" /\ proc'[q].pc = "begin"
      BY <2>3 DEF MachineMoves, FileMoves
    <3>2. proc[p].flag /\ proc[q].flag
      BY <1>3, <2>3, <3>1 DEF AttemptInv
    <3>3. p = q
      BY <1>1, <1>3, <2>3, <3>1, <3>2 DEF Beginning
    <3> QED BY <1>3, <3>1, <3>3
  <2> QED BY <2>1, <2>2, <2>3 DEF MachineMoves
<1>4. ASSUME NEW i \in Ids, job[i].pc \in {"ready", "attempt"}, job[i].flag
      PROVE  /\ file' \in {0, i}
             /\ \/ file' = i \/ i \in begun'
                \/ \E p \in Procs : /\ proc'[p].flag /\ proc'[p].text = i
                                    /\ proc'[p].pc \in {"unlink", "begin"}
  <2>1. /\ file \in {0, i}
        /\ \/ file = i \/ i \in begun
           \/ \E p \in Procs : /\ proc[p].flag /\ proc[p].text = i
                               /\ proc[p].pc \in {"unlink", "begin"}
    BY <1>0, <1>4 DEF TextInv
  <2>2. file' \in {0, i}
    BY <2>1 DEF MachineMoves, FileMoves
  <2>3. CASE i \in begun
    BY <1>0, <2>2, <2>3
  <2>4. CASE file = i
    <3>1. CASE UNCHANGED file
      BY <2>2, <2>4, <3>1
    <3>2. ASSUME NEW p \in Procs, proc[p].pc = "unlink", proc'[p].pc = "begin",
                 proc'[p].text = proc[p].text, proc'[p].flag = proc[p].flag
          PROVE  proc'[p].flag /\ proc'[p].text = i
      BY <1>0, <2>4, <3>2 DEF TextInv, AttemptInv
    <3> QED BY <2>2, <3>1, <3>2 DEF MachineMoves, FileMoves
  <2>5. ASSUME NEW p \in Procs, proc[p].flag, proc[p].text = i,
               proc[p].pc \in {"unlink", "begin"}
        PROVE  \/ i \in begun'
               \/ /\ proc'[p].flag /\ proc'[p].text = i
                  /\ proc'[p].pc \in {"unlink", "begin"}
    <3>1. /\ proc[p].by \in Ids /\ job[proc[p].by].pc = "attempt"
      BY <1>0, <2>5 DEF TextInv, Beginning
    <3>2. proc[p].by = i
      BY <1>4, <3>1, OneAtWork DEF AtWork
    <3>3. i # 0
      BY DEF Ids
    <3> QED BY <2>5, <3>2, <3>3 DEF MachineMoves, Moves
  <2> QED BY <2>1, <2>2, <2>3, <2>4, <2>5
<1> QED BY <1>0, <1>2, <1>3, <1>4 DEF TextInv

AllInv == HungInv /\ AttemptInv /\ TextInv

\* A step of relay and watcher that no process notices.
LEMMA QuietKeeps ==
    ASSUME AllInv, UNCHANGED <<proc, runVars, history>>,
           \A i \in Ids :
              /\ \/ /\ job'[i].pc = job[i].pc /\ job'[i].flag = job[i].flag
                    /\ job'[i].proc = job[i].proc /\ job'[i].code = job[i].code
                 \/ /\ job[i].pc # "attempt"
                    /\ job'[i].pc \notin {"ready", "attempt", "post"}
              /\ cmd'[i].st = "done" => i \in begun
    PROVE  AllInv'
<1> USE DEF runVars, history
<1>1. HungInv'
  BY DEF AllInv, HungInv, MachineType, Exists, OnlyTheHungAreKilled
<1>2. AttemptInv'
  BY DEF AllInv, AttemptInv
<1>3. TextInv'
  BY DEF AllInv, TextInv
<1> QED BY <1>1, <1>2, <1>3 DEF AllInv

\* The relay's own steps.
LEMMA RelayKeeps ==
    ASSUME IInv, AllInv,
           \/ \E p \in Phones : PostLooks(p) \/ PostInserts(p)
           \/ Last \/ Tick \/ Poll \/ WatcherStarts \/ OtherEnds
    PROVE  AllInv'
<1>1. \A i \in Ids : /\ cmd[i].st = "done" => i \in begun
                     /\ Rows[i].st = "done" => i \in begun
  BY RowsFacts DEF AllInv, AttemptInv
<1>2. /\ cmd \in [Ids -> RowType] /\ job \in [Ids -> JobType]
  BY DEF IInv, TypeInv
<1>3. ASSUME cmd' = cmd \/ cmd' = Rows, UNCHANGED <<job, proc, runVars, history>>
      PROVE  AllInv'
  BY <1>1, <1>3, QuietKeeps
<1>4. ASSUME NEW p \in Phones, PostLooks(p) PROVE AllInv'
  BY <1>3, <1>4 DEF PostLooks, watchVars
<1>5. ASSUME NEW p \in Phones, PostInserts(p) PROVE AllInv'
  <2>1. UNCHANGED <<job, proc, runVars, history>>
    BY <1>5 DEF PostInserts, watchVars
  <2>2. CASE UNCHANGED cmd
    BY <1>3, <2>1, <2>2
  <2>3. ASSUME NEW i \in Ids, NEW text \in BOOLEAN,
               cmd' = [cmd EXCEPT ![i] = [st |-> "pending", age |-> 0,
                                          text |-> text]]
        PROVE  AllInv'
    <3>1. \A j \in Ids : cmd'[j].st = "done" => j \in begun
      BY <1>1, <1>2, <2>3
    <3> QED BY <2>1, <3>1, QuietKeeps
  <2> QED BY <1>5, <2>2, <2>3 DEF PostInserts, Inserted
<1>6. CASE Last \/ Poll
  BY <1>3, <1>6 DEF Last, Poll, watchVars
<1>7. CASE WatcherStarts \/ OtherEnds
  BY <1>3, <1>7 DEF WatcherStarts, OtherEnds, relayVars, watchVars
<1>8. CASE Tick
  <2>1. \A i \in Ids :
           /\ job'[i].pc = job[i].pc /\ job'[i].flag = job[i].flag
           /\ job'[i].proc = job[i].proc /\ job'[i].code = job[i].code
    BY <1>2, <1>8 DEF Tick, JobType
  <2>2. \A i \in Ids : cmd'[i].st = cmd[i].st
    BY <1>2, <1>8 DEF Tick, RowType
  <2>3. UNCHANGED <<proc, runVars, history>>
    BY <1>8 DEF Tick
  <2> QED BY <1>1, <2>1, <2>2, <2>3, QuietKeeps
<1> QED BY <1>4, <1>5, <1>6, <1>7, <1>8

\* The watcher takes a command, and reports it.
LEMMA TakeQuiet == ASSUME IInv, AllInv, NEW i \in Ids, Take(i) PROVE AllInv'
<1>1. /\ \A j \in Ids : /\ job[j] \in JobType
                        /\ Rows[j].st = "done" => j \in begun
      /\ job \in [Ids -> JobType] /\ Rows \in [Ids -> RowType]
  BY RowsFacts DEF AllInv, AttemptInv, IInv, TypeInv
<1>2. UNCHANGED <<proc, runVars, history>>
  BY DEF Take
<1>3. \A j \in Ids : cmd'[j].st = "done" => j \in begun
  BY <1>1 DEF Take, RowType
<1>4. CASE UNCHANGED job
  BY <1>2, <1>3, <1>4, QuietKeeps
<1>5. CASE job' = [job EXCEPT ![i].pc = "taken"] /\ MayTake(Rows[i])
  <2>0. cmd[i].st = "pending"
    BY <1>5, RowsFacts DEF MayTake
  <2>1. job[i].pc = "none"
    BY <2>0 DEF IInv, JobInv, NoJob
  <2>2. job'[i].pc = "taken" /\ \A j \in Ids \ {i} : job'[j] = job[j]
    BY <1>1, <1>5 DEF JobType
  <2> QED BY <1>2, <1>3, <2>1, <2>2, QuietKeeps
<1> QED BY <1>4, <1>5 DEF Take

LEMMA ReportQuiet == ASSUME IInv, AllInv, NEW i \in Ids, Report(i) PROVE AllInv'
<1> DEFINE r == [NoJob EXCEPT !.pc = "gone"]
<1>1. /\ job[i].pc = "post" /\ job' = [job EXCEPT ![i] = r] /\ r.pc = "gone"
      /\ UNCHANGED <<proc, runVars, history>>
  BY DEF Report, NoJob
<1> HIDE DEF r
<1>2. job'[i].pc = "gone" /\ \A j \in Ids \ {i} : job'[j] = job[j]
  BY <1>1 DEF IInv, TypeInv
<1>3. \A j \in Ids : /\ cmd[j].st = "done" => j \in begun
                     /\ Rows[j].st = "done" => j \in begun
  BY RowsFacts DEF AllInv, AttemptInv
<1>4. \A j \in Ids : cmd'[j].st = "done" => j \in begun
  <2>1. CASE UNCHANGED cmd \/ cmd' = Rows
    BY <1>3, <2>1
  <2>2. CASE cmd' = [Rows EXCEPT ![i] = Closed(IF job[i].code = 0 THEN "done"
                                                                  ELSE "failed")]
    <3>1. PICK end \in {"done", "failed"} :
             /\ cmd' = [Rows EXCEPT ![i] = Closed(end)]
             /\ end = "done" => job[i].code = 0
      BY <2>2
    <3>2. Closed(end).st = end
      BY DEF Closed, NoRow
    <3>3. cmd'[i].st = end /\ \A j \in Ids \ {i} : cmd'[j] = Rows[j]
      BY <3>1, <3>2, RowsFacts
    <3>4. end = "done" => i \in begun
      BY <1>1, <3>1 DEF AllInv, AttemptInv
    <3> QED BY <1>3, <3>3, <3>4
  <2> QED BY <2>1, <2>2 DEF Report
<1> QED BY <1>1, <1>2, <1>4, QuietKeeps

\* The text of the command goes into the file.
LEMMA PrepareQuiet == ASSUME IInv, AllInv, NEW i \in Ids, Prepare(i) PROVE AllInv'
<1>1. /\ job[i].pc = "taken" /\ UNCHANGED <<cmd, proc, state, saved, history>>
      /\ IInv /\ job \in [Ids -> JobType] /\ i \in Nat
  BY DEF Prepare, relayVars, IInv, TypeInv, Ids
<1>2. PICK flag \in BOOLEAN :
         /\ job' = [job EXCEPT ![i].pc = "ready", ![i].flag = flag]
         /\ file' = IF flag THEN i ELSE file
  <2>1. (state.status = "needs" /\ cmd[i].text) \in BOOLEAN
    BY DEF IInv, TypeInv, RowType
  <2> QED BY <2>1 DEF Prepare, Written
<1>3. /\ job'[i].pc = "ready" /\ job'[i].flag = flag
      /\ \A j \in Ids \ {i} : job'[j] = job[j] /\ job[j].pc \notin AtWork
  <2>1. job[i] \in JobType
    BY <1>1
  <2>2. job' = [job EXCEPT ![i] = [job[i] EXCEPT !.pc = "ready", !.flag = flag]]
    BY <1>1, <1>2
  <2>3. job'[i] = [job[i] EXCEPT !.pc = "ready", !.flag = flag]
    BY <1>1, <2>2
  <2> QED BY <1>1, <2>1, <2>2, <2>3, OneAtWork DEF JobType, AtWork
<1>4. HungInv'
  BY <1>1, <1>2 DEF history, AllInv, HungInv, MachineType, Exists,
     OnlyTheHungAreKilled
<1>5. AttemptInv'
  BY <1>1, <1>3 DEF history, AllInv, AttemptInv
<1>6. ~late => \A p \in Procs : ~(proc[p].pc \in Beginning /\ proc[p].flag)
  BY <1>1, <1>3 DEF AllInv, TextInv, AtWork
<1>7. ~late => \A p \in Procs : proc[p].pc # "unlink"
  BY <1>6 DEF AllInv, AttemptInv, Beginning
<1>8. TextInv'
  BY <1>1, <1>2, <1>3, <1>6, <1>7 DEF history, TextInv, AtWork
<1> QED BY <1>4, <1>5, <1>8 DEF AllInv

\* A slot gets a new process; who meant the old one means nobody.
LEMMA SpawnFrame ==
    ASSUME MachineType, NEW p \in Procs, NEW by \in {0} \cup Ids,
           NEW flag \in BOOLEAN, NEW text \in Nat, Spawn(p, by, flag, text)
    PROVE  /\ proc' \in [Procs -> ProcType]
           /\ proc[p].pc = "off" /\ state.pid # p
           /\ proc'[p].pc = "new" /\ proc'[p].by = by /\ proc'[p].flag = flag
           /\ ~proc'[p].hung
           /\ \A q \in Procs \ {p} :
                 /\ proc'[q].pc = proc[q].pc /\ proc'[q].by = proc[q].by
                 /\ proc'[q].flag = proc[q].flag /\ proc'[q].text = proc[q].text
                 /\ proc'[q].hung = proc[q].hung
                 /\ proc'[q].pid = IF proc[q].pid = p THEN Nobody ELSE proc[q].pid
<1> DEFINE w == [Off EXCEPT !.pc = "new", !.by = by, !.flag = flag, !.text = text]
           n(q) == IF q = p THEN w
                   ELSE IF proc[q].pid = p THEN [proc[q] EXCEPT !.pid = Nobody]
                   ELSE proc[q]
<1>1. proc' = [q \in Procs |-> n(q)] /\ proc[p].pc = "off" /\ state.pid # p
  BY DEF Spawn
<1>2. /\ w \in ProcType /\ w.pc = "new" /\ w.by = by /\ w.flag = flag
      /\ w.hung = FALSE
  BY OffType DEF ProcType, ProcPCs, Off
<1> HIDE DEF w
<1>3. \A q \in Procs : proc[q] \in ProcType
  BY DEF MachineType
<1>4. ASSUME NEW q \in Procs, q # p
      PROVE  /\ n(q) \in ProcType
             /\ n(q).pc = proc[q].pc /\ n(q).by = proc[q].by
             /\ n(q).flag = proc[q].flag /\ n(q).text = proc[q].text
             /\ n(q).hung = proc[q].hung
             /\ n(q).pid = IF proc[q].pid = p THEN Nobody ELSE proc[q].pid
  BY <1>3, <1>4 DEF ProcType
<1>5. n(p) = w
  OBVIOUS
<1> HIDE DEF n
<1> QED BY <1>1, <1>2, <1>4, <1>5

\* The new process is not yet anything to anybody.
LEMMA SpawnKeepsHung ==
    ASSUME HungInv, NEW p \in Procs, NEW by \in {0} \cup Ids,
           NEW flag \in BOOLEAN, NEW text \in Nat, Spawn(p, by, flag, text),
           UNCHANGED <<runVars, victims>>
    PROVE  HungInv'
<1>0. MachineType
  BY DEF HungInv
<1>1. /\ proc' \in [Procs -> ProcType]
      /\ proc[p].pc = "off" /\ proc'[p].pc = "new" /\ ~proc'[p].hung
      /\ \A q \in Procs \ {p} :
            /\ proc'[q].pc = proc[q].pc /\ proc'[q].hung = proc[q].hung
            /\ proc'[q].pid = IF proc[q].pid = p THEN Nobody ELSE proc[q].pid
  BY <1>0, SpawnFrame
<1>2. MachineType'
  BY <1>0, <1>1 DEF MachineType, runVars
<1>3. ASSUME NEW q \in Procs, proc'[q].pc = "kill", Exists(proc[q].pid)'
      PROVE  proc'[proc'[q].pid].hung
  <2>1. q # p /\ proc[q].pc = "kill"
    BY <1>1, <1>3
  <2>2. proc'[q].pid = proc[q].pid /\ proc[q].pid # p
    BY <1>1, <1>3, <2>1 DEF Exists
  <2>3. proc[q].pid \in Procs \ {p} /\ Exists(proc[q].pid)
    BY <1>1, <1>3, <2>2 DEF Exists
  <2>4. proc[proc[q].pid].hung
    BY <2>1, <2>3 DEF HungInv
  <2> QED BY <1>1, <2>2, <2>3, <2>4
<1>4. ASSUME NEW q \in Procs
      PROVE  /\ proc'[q].hung => proc'[q].pc \in Running
             /\ proc'[q].pc = "hung" => proc'[q].hung
  BY <1>1, <1>4 DEF HungInv
<1> QED BY <1>2, <1>3, <1>4 DEF HungInv, OnlyTheHungAreKilled

\* A resume from a terminal.
LEMMA LocalKeeps ==
    ASSUME AllInv, NEW p \in Procs, LocalResume(p) PROVE AllInv'
<1>0. MachineType /\ Local \in Nat
  BY DEF AllInv, HungInv, Local
<1>1. PICK text \in {0, Local} : Spawn(p, 0, FALSE, text)
  BY DEF LocalResume
<1>2. UNCHANGED <<cmd, job, runVars, history>> /\ text \in Nat
  BY <1>0, <1>1 DEF LocalResume, relayVars, watchVars
<1>3. HungInv'
  BY <1>1, <1>2, SpawnKeepsHung DEF AllInv, history
<1>4. /\ proc[p].pc = "off" /\ state.pid # p
      /\ proc'[p].pc = "new" /\ proc'[p].flag = FALSE
      /\ \A q \in Procs \ {p} :
            /\ proc'[q].pc = proc[q].pc /\ proc'[q].by = proc[q].by
            /\ proc'[q].flag = proc[q].flag /\ proc'[q].text = proc[q].text
  <2>1. PICK by \in {0} \cup Ids, flag \in BOOLEAN :
           by = 0 /\ flag = FALSE /\ Spawn(p, by, flag, text)
    BY <1>1
  <2>2. /\ proc[p].pc = "off" /\ state.pid # p
        /\ proc'[p].pc = "new" /\ proc'[p].flag = flag
        /\ \A q \in Procs \ {p} :
              /\ proc'[q].pc = proc[q].pc /\ proc'[q].by = proc[q].by
              /\ proc'[q].flag = proc[q].flag /\ proc'[q].text = proc[q].text
    BY <1>0, <1>2, <2>1, SpawnFrame
  <2> QED BY <2>1, <2>2
<1>5. AttemptInv'
  BY <1>2, <1>4 DEF AllInv, AttemptInv, runVars, history, Ids
<1>6. TextInv'
  BY <1>2, <1>4 DEF AllInv, TextInv, runVars, history, Beginning
<1> QED BY <1>3, <1>5, <1>6 DEF AllInv

\* A resume by the watcher.
LEMMA AttemptQuiet ==
    ASSUME IInv, AllInv, NEW i \in Ids, NEW p \in Procs, Attempt(i, p)
    PROVE  AllInv'
<1>0. MachineType /\ job \in [Ids -> JobType] /\ job[i] \in JobType /\ i # 0
  BY DEF AllInv, HungInv, IInv, TypeInv, Ids
<1>1. /\ Spawn(p, i, job[i].flag, 0) /\ job[i].pc = "ready"
      /\ UNCHANGED <<cmd, runVars, history>>
  BY DEF Attempt, relayVars
<1>2. job[i].flag \in BOOLEAN
  BY <1>0 DEF JobType
<1>3. HungInv'
  BY <1>1, <1>2, SpawnKeepsHung DEF AllInv, history
<1>4. /\ proc[p].pc = "off" /\ state.pid # p
      /\ proc'[p].pc = "new" /\ proc'[p].by = i
      /\ \A q \in Procs \ {p} :
            /\ proc'[q].pc = proc[q].pc /\ proc'[q].by = proc[q].by
            /\ proc'[q].flag = proc[q].flag /\ proc'[q].text = proc[q].text
  <2>1. PICK by \in {0} \cup Ids, flag \in BOOLEAN, text \in Nat :
           by = i /\ Spawn(p, by, flag, text)
    BY <1>1, <1>2
  <2>2. /\ proc[p].pc = "off" /\ state.pid # p
        /\ proc'[p].pc = "new" /\ proc'[p].by = by
        /\ \A q \in Procs \ {p} :
              /\ proc'[q].pc = proc[q].pc /\ proc'[q].by = proc[q].by
              /\ proc'[q].flag = proc[q].flag /\ proc'[q].text = proc[q].text
    BY <1>0, <2>1, SpawnFrame
  <2> QED BY <2>1, <2>2
<1>5. /\ job'[i].pc = "attempt" /\ job'[i].proc = p /\ job'[i].flag = job[i].flag
      /\ \A j \in Ids \ {i} : job'[j] = job[j]
  <2>1. job' = [job EXCEPT ![i] = [job[i] EXCEPT !.pc = "attempt", !.proc = p]]
    BY <1>0 DEF Attempt
  <2>2. job'[i] = [job[i] EXCEPT !.pc = "attempt", !.proc = p]
    BY <1>0, <2>1
  <2> QED BY <1>0, <2>1, <2>2 DEF JobType
<1>6. AttemptInv'
  <2>1. ASSUME NEW q \in Procs
        PROVE  /\ proc'[q].pc = "off" => proc'[q].by = 0
               /\ proc'[q].pc \in {"held", "unlink"} => proc'[q].flag
               /\ state'.pid = q => proc'[q].pc \notin Beginning
    BY <1>1, <1>4 DEF AllInv, AttemptInv, runVars
  <2>2. ASSUME NEW j \in Ids, job'[j].pc = "attempt"
        PROVE  /\ job'[j].proc \in Procs /\ proc'[job'[j].proc].by = j
               /\ state'.pid = job'[j].proc \/ proc'[job'[j].proc].pc \in Running
                     => j \in begun'
    <3>1. CASE j = i
      BY <1>1, <1>4, <1>5, <3>1 DEF runVars, Running
    <3>2. CASE j # i
      <4>1. /\ job'[j] = job[j] /\ job[j].proc \in Procs
            /\ proc[job[j].proc].by = j /\ j # 0
        BY <1>5, <2>2, <3>2 DEF AllInv, AttemptInv, Ids
      <4>2. job[j].proc # p
        BY <1>4, <4>1 DEF AllInv, AttemptInv
      <4> QED BY <1>1, <1>4, <2>2, <4>1, <4>2 DEF AllInv, AttemptInv, runVars, history
    <3> QED BY <3>1, <3>2
  <2>3. ASSUME NEW j \in Ids
        PROVE  /\ job'[j].pc = "post" /\ job'[j].code = 0 => j \in begun'
               /\ cmd'[j].st = "done" => j \in begun'
    BY <1>1, <1>5 DEF AllInv, AttemptInv, history
  <2> QED BY <2>1, <2>2, <2>3 DEF AttemptInv
<1>7. TextInv'
  <2> SUFFICES ASSUME ~late PROVE TextInv'
    BY <1>1 DEF TextInv, history
  <2>1. ASSUME NEW q \in Procs, proc'[q].pc \in Beginning, proc'[q].flag
        PROVE  /\ proc'[q].by \in Ids /\ job'[proc'[q].by].pc = "attempt"
               /\ job'[proc'[q].by].proc = q
    <3>1. CASE q = p
      BY <1>4, <1>5, <3>1
    <3>2. CASE q # p
      <4>1. /\ proc[q].by \in Ids /\ job[proc[q].by].pc = "attempt"
            /\ job[proc[q].by].proc = q
        BY <1>4, <2>1, <3>2 DEF AllInv, TextInv
      <4> QED BY <1>1, <1>4, <1>5, <3>2, <4>1
    <3> QED BY <3>1, <3>2
  <2>2. ASSUME NEW q \in Procs, proc'[q].pc = "unlink" PROVE proc'[q].text = file'
    BY <1>1, <1>4, <2>2 DEF AllInv, TextInv, runVars
  <2>3. ASSUME NEW j \in Ids, job'[j].pc \in {"ready", "attempt"}, job'[j].flag
        PROVE  /\ file' \in {0, j}
               /\ \/ file' = j \/ j \in begun'
                  \/ \E q \in Procs : /\ proc'[q].flag /\ proc'[q].text = j
                                      /\ proc'[q].pc \in {"unlink", "begin"}
    <3>1. job[j].pc \in {"ready", "attempt"} /\ job[j].flag
      BY <1>1, <1>5, <2>3
    <3>2. /\ file \in {0, j}
          /\ \/ file = j \/ j \in begun
             \/ \E q \in Procs : /\ proc[q].flag /\ proc[q].text = j
                                 /\ proc[q].pc \in {"unlink", "begin"}
      BY <3>1 DEF AllInv, TextInv
    <3> QED BY <1>1, <1>4, <3>2 DEF runVars, history
  <2> QED BY <2>1, <2>2, <2>3 DEF TextInv
<1> QED BY <1>3, <1>6, <1>7 DEF AllInv

\* Processes that nobody waits for any more.
LEMMA ForgetFacts ==
    ASSUME MachineType, NEW S \in SUBSET Procs,
           proc' = [q \in Procs |-> IF q \in S THEN Forgotten(proc[q])
                                               ELSE proc[q]]
    PROVE  /\ proc' \in [Procs -> ProcType]
           /\ \A q \in Procs \ S : proc'[q] = proc[q]
           /\ \A q \in S :
                 /\ proc'[q].by = 0
                 /\ IF proc[q].pc = "exit" THEN proc'[q] = Off
                    ELSE /\ proc'[q].pc = proc[q].pc
                         /\ proc'[q].flag = proc[q].flag
                         /\ proc'[q].pid = proc[q].pid
                         /\ proc'[q].text = proc[q].text
                         /\ proc'[q].hung = proc[q].hung
<1>1. \A q \in Procs : proc[q] \in ProcType
  BY DEF MachineType
<1>2. \A q \in Procs : Forgotten(proc[q]) \in ProcType
  BY <1>1, ForgottenFrame
<1>3. proc' \in [Procs -> ProcType]
  BY <1>1, <1>2
<1>4. ASSUME NEW q \in S
      PROVE  /\ proc'[q].by = 0
             /\ IF proc[q].pc = "exit" THEN proc'[q] = Off
                ELSE /\ proc'[q].pc = proc[q].pc
                     /\ proc'[q].flag = proc[q].flag
                     /\ proc'[q].pid = proc[q].pid
                     /\ proc'[q].text = proc[q].text
                     /\ proc'[q].hung = proc[q].hung
  <2>1. proc'[q] = Forgotten(proc[q]) /\ proc[q] \in ProcType
    BY <1>1
  <2> QED BY <2>1, ForgottenFrame
<1> QED BY <1>3, <1>4

LEMMA ForgetKeeps ==
    ASSUME AllInv, NEW S \in SUBSET Procs,
           proc' = [q \in Procs |-> IF q \in S THEN Forgotten(proc[q])
                                               ELSE proc[q]],
           UNCHANGED <<cmd, runVars, begun, victims>>,
           ~late' => ~late /\ \A p \in S : proc[p].pc \notin Beginning,
           \A j \in Ids :
              \/ /\ job'[j] = job[j]
                 /\ job[j].pc = "attempt" => job[j].proc \notin S
              \/ /\ job[j].pc = "attempt" => job[j].proc \in S
                 /\ job'[j].pc # "attempt"
                 /\ job'[j].pc = "ready" => /\ job[j].pc = "attempt"
                                            /\ job'[j].flag = job[j].flag
                 /\ job'[j].pc = "post" /\ job'[j].code = 0 => j \in begun
    PROVE  AllInv'
<1>0. MachineType /\ UNCHANGED <<state, saved, file>>
  BY DEF AllInv, HungInv, runVars
<1>1. /\ proc' \in [Procs -> ProcType]
      /\ \A q \in Procs \ S : proc'[q] = proc[q]
      /\ \A q \in S : proc'[q].by = 0
      /\ \A q \in Procs :
            \/ proc[q].pc = "exit" /\ proc'[q] = Off
            \/ /\ proc'[q].pc = proc[q].pc /\ proc'[q].flag = proc[q].flag
               /\ proc'[q].pid = proc[q].pid /\ proc'[q].text = proc[q].text
               /\ proc'[q].hung = proc[q].hung
  BY <1>0, ForgetFacts
<1>2. /\ Off.pc = "off" /\ Off.by = 0 /\ Off.hung = FALSE
  BY DEF Off
<1>3. HungInv'
  <2>1. MachineType'
    BY <1>0, <1>1 DEF MachineType
  <2>2. ASSUME NEW q \in Procs, proc'[q].pc = "kill", Exists(proc[q].pid)'
        PROVE  proc'[proc'[q].pid].hung
    <3>1. proc[q].pc = "kill" /\ proc'[q].pid = proc[q].pid
      BY <1>1, <1>2, <2>2
    <3> DEFINE v == proc[q].pid
    <3>2. v \in Procs /\ proc'[v].pc \notin {"off", "exit"}
      BY <2>2, <3>1 DEF Exists
    <3> HIDE DEF v
    <3>3. proc[v].pc = proc'[v].pc /\ proc'[v].hung = proc[v].hung
      BY <1>1, <1>2, <3>2
    <3>4. proc[v].hung
      BY <3>1, <3>2, <3>3 DEF AllInv, HungInv, Exists, v
    <3> QED BY <3>1, <3>3, <3>4 DEF v
  <2>3. ASSUME NEW q \in Procs
        PROVE  /\ proc'[q].hung => proc'[q].pc \in Running
               /\ proc'[q].pc = "hung" => proc'[q].hung
    BY <1>1, <1>2 DEF AllInv, HungInv
  <2> QED BY <2>1, <2>2, <2>3 DEF AllInv, HungInv, OnlyTheHungAreKilled
<1>4. AttemptInv'
  <2>1. ASSUME NEW q \in Procs
        PROVE  /\ proc'[q].pc = "off" => proc'[q].by = 0
               /\ proc'[q].pc \in {"held", "unlink"} => proc'[q].flag
               /\ state'.pid = q => proc'[q].pc \notin Beginning
    <3>1. /\ proc[q].pc = "off" => proc[q].by = 0
          /\ proc[q].pc \in {"held", "unlink"} => proc[q].flag
          /\ state.pid = q => proc[q].pc \notin Beginning
      BY DEF AllInv, AttemptInv
    <3> QED BY <1>0, <1>1, <1>2, <3>1 DEF Beginning
  <2>2. ASSUME NEW j \in Ids, job'[j].pc = "attempt"
        PROVE  /\ job'[j].proc \in Procs /\ proc'[job'[j].proc].by = j
               /\ state'.pid = job'[j].proc \/ proc'[job'[j].proc].pc \in Running
                     => j \in begun'
    <3>1. job'[j] = job[j] /\ job[j].pc = "attempt" /\ job[j].proc \notin S
      BY <2>2
    <3>2. job[j].proc \in Procs
      BY <3>1 DEF AllInv, AttemptInv
    <3>3. proc'[job[j].proc] = proc[job[j].proc]
      BY <1>1, <3>1, <3>2
    <3> QED BY <1>0, <3>1, <3>2, <3>3 DEF AllInv, AttemptInv
  <2>3. ASSUME NEW j \in Ids
        PROVE  /\ job'[j].pc = "post" /\ job'[j].code = 0 => j \in begun'
               /\ cmd'[j].st = "done" => j \in begun'
    BY DEF AllInv, AttemptInv
  <2> QED BY <2>1, <2>2, <2>3 DEF AttemptInv
<1>5. TextInv'
  <2> SUFFICES ASSUME ~late' PROVE TextInv'
    BY DEF TextInv
  <2>0. ~late /\ \A p \in S : proc[p].pc \notin Beginning
    OBVIOUS
  <2>1. ASSUME NEW q \in Procs, proc'[q].pc \in Beginning, proc'[q].flag
        PROVE  /\ proc'[q].by \in Ids /\ job'[proc'[q].by].pc = "attempt"
               /\ job'[proc'[q].by].proc = q
    <3>1. q \notin S /\ proc'[q] = proc[q]
      BY <1>1, <1>2, <2>0, <2>1 DEF Beginning
    <3>2. /\ proc[q].by \in Ids /\ job[proc[q].by].pc = "attempt"
          /\ job[proc[q].by].proc = q
      BY <2>0, <2>1, <3>1 DEF AllInv, TextInv
    <3> QED BY <3>1, <3>2
  <2>2. ASSUME NEW q \in Procs, proc'[q].pc = "unlink" PROVE proc'[q].text = file'
    BY <1>0, <1>1, <1>2, <2>0, <2>2 DEF AllInv, TextInv
  <2>3. ASSUME NEW j \in Ids, job'[j].pc \in {"ready", "attempt"}, job'[j].flag
        PROVE  /\ file' \in {0, j}
               /\ \/ file' = j \/ j \in begun'
                  \/ \E q \in Procs : /\ proc'[q].flag /\ proc'[q].text = j
                                      /\ proc'[q].pc \in {"unlink", "begin"}
    <3>1. job[j].pc \in {"ready", "attempt"} /\ job[j].flag
      BY <2>3
    <3>2. /\ file \in {0, j}
          /\ \/ file = j \/ j \in begun
             \/ \E q \in Procs : /\ proc[q].flag /\ proc[q].text = j
                                 /\ proc[q].pc \in {"unlink", "begin"}
      BY <2>0, <3>1 DEF AllInv, TextInv
    <3> QED BY <1>0, <1>1, <3>2
  <2> QED BY <2>1, <2>2, <2>3 DEF TextInv
<1> QED BY <1>3, <1>4, <1>5 DEF AllInv

\* An attempt ends, with an owner, with a retry or without; or it is given up.
LEMMA AttemptEndsQuiet ==
    ASSUME IInv, AllInv, NEW i \in Ids, AttemptEnds(i) \/ AttemptTimesOut(i)
    PROVE  AllInv'
<1> DEFINE p == job[i].proc
<1>0. /\ job \in [Ids -> JobType] /\ job[i] \in JobType /\ job[i].pc = "attempt"
      /\ UNCHANGED <<cmd, runVars, begun, victims>> /\ Forget(p)
  BY DEF AttemptEnds, AttemptTimesOut, relayVars, history, IInv, TypeInv
<1>1. /\ MachineType /\ p \in Procs /\ proc[p].by = i
      /\ (state.pid = p => proc[p].pc \notin Beginning)
      /\ (state.pid = p => i \in begun)
  BY <1>0 DEF AllInv, HungInv, AttemptInv
<1>2. proc' = [q \in Procs |-> IF q \in {p} THEN Forgotten(proc[q]) ELSE proc[q]]
  BY <1>0, <1>1 DEF Forget, MachineType
<1>3. ~late' => ~late /\ proc[p].pc \notin Beginning
  <2>1. CASE AttemptEnds(i)
    <3>1. proc[p].pc \notin Beginning
      BY <1>1, <2>1 DEF AttemptEnds, Ready, Beginning
    <3> QED BY <2>1, <3>1 DEF AttemptEnds, history
  <2>2. CASE AttemptTimesOut(i)
    <3>1. late' = (late \/ Starting(p))
      BY <2>2 DEF AttemptTimesOut
    <3>2. ~Starting(p) => proc[p].pc \notin Beginning
      BY DEF Starting, Beginning
    <3> HIDE DEF p
    <3> QED BY <3>1, <3>2, Zenon
  <2> QED BY <2>1, <2>2
<1>4. /\ job'[i].pc \in {"ready", "post"}
      /\ job'[i].flag = job[i].flag
      /\ job'[i].pc = "post" /\ job'[i].code = 0 => i \in begun
      /\ \A j \in Ids \ {i} : job'[j] = job[j]
  <2>1. ASSUME NEW code \in {0, 1, Busy}, Ends(i, code),
               code = 0 => i \in begun
        PROVE  /\ job'[i].pc = "post" /\ job'[i].flag = job[i].flag
               /\ job'[i].code = 0 => i \in begun
               /\ \A j \in Ids \ {i} : job'[j] = job[j]
    <3> DEFINE w == [job[i] EXCEPT !.pc = "post", !.code = code]
    <3>1. w.pc = "post" /\ w.flag = job[i].flag /\ w.code = code
      BY <1>0 DEF JobType
    <3>2. job' = [job EXCEPT ![i] = w]
      BY <1>0, <2>1 DEF Ends
    <3> HIDE DEF w
    <3> QED BY <1>0, <2>1, <3>1, <3>2
  <2>2. CASE job' = [job EXCEPT ![i].pc = "ready", ![i].tries = @ + 1,
                                ![i].aged = FALSE]
    <3> DEFINE w == [job[i] EXCEPT !.pc = "ready", !.tries = job[i].tries + 1,
                                   !.aged = FALSE]
    <3>1. w.pc = "ready" /\ w.flag = job[i].flag
      BY <1>0 DEF JobType
    <3>2. job' = [job EXCEPT ![i] = w]
      BY <1>0, <2>2
    <3> HIDE DEF w
    <3> QED BY <1>0, <3>1, <3>2
  <2>3. CASE \E code \in {0, 1, Busy} : Ends(i, code) /\ (code = 0 => i \in begun)
    BY <2>1, <2>3
  <2>4. CASE AttemptTimesOut(i)
    BY <2>3, <2>4 DEF AttemptTimesOut
  <2>5. CASE AttemptEnds(i)
    <3>1. CASE Ready(p) /\ Ends(i, 0)
      BY <1>1, <2>3, <3>1 DEF Ready
    <3>2. CASE Ends(i, IF proc[p].code = Busy THEN Busy ELSE 1)
      BY <2>3, <3>2 DEF Busy
    <3> QED BY <2>2, <2>5, <3>1, <3>2 DEF AttemptEnds
  <2> QED BY <2>4, <2>5
<1>5. \A j \in Ids \ {i} : job[j].pc # "attempt"
  BY <1>0, OneAtWork DEF AtWork
<1> HIDE DEF p
<1>6. {p} \in SUBSET Procs
  BY <1>1
<1>7. \A j \in Ids :
         \/ /\ job'[j] = job[j]
            /\ job[j].pc = "attempt" => job[j].proc \notin {p}
         \/ /\ job[j].pc = "attempt" => job[j].proc \in {p}
            /\ job'[j].pc # "attempt"
            /\ job'[j].pc = "ready" => /\ job[j].pc = "attempt"
                                       /\ job'[j].flag = job[j].flag
            /\ job'[j].pc = "post" /\ job'[j].code = 0 => j \in begun
  BY <1>0, <1>4, <1>5 DEF p
<1> QED BY <1>0, <1>2, <1>3, <1>6, <1>7, ForgetKeeps

\* The watcher dies, and with it all it had taken.
LEMMA WatcherDiesQuiet ==
    ASSUME IInv, AllInv, WatcherDies PROVE AllInv'
<1> DEFINE S == {job[i].proc : i \in {j \in Ids : job[j].pc = "attempt"}}
<1>1. S \in SUBSET Procs
  BY DEF AllInv, AttemptInv
<1>2. /\ proc' = [q \in Procs |-> IF q \in S THEN Forgotten(proc[q]) ELSE proc[q]]
      /\ UNCHANGED <<cmd, runVars, begun, victims>>
      /\ late' = (late \/ \E p \in S : Starting(p))
      /\ job' = [i \in Ids |-> IF job[i].pc = "none" THEN NoJob
                               ELSE [NoJob EXCEPT !.pc = "gone"]]
  BY DEF WatcherDies, relayVars
<1>3. \A j \in Ids : /\ job[j].pc = "attempt" => job[j].proc \in S
                     /\ job'[j].pc \in {"none", "gone"}
  BY <1>2 DEF NoJob
<1> HIDE DEF S
<1>4. ~late' => ~late /\ \A p \in S : proc[p].pc \notin Beginning
  <2>1. \A p \in S : ~Starting(p) => proc[p].pc \notin Beginning
    BY DEF Starting, Beginning
  <2> QED BY <1>2, <2>1, Zenon
<1> QED BY <1>1, <1>2, <1>3, <1>4, ForgetKeeps

LEMMA InitAllInv == Init => AllInv
<1> SUFFICES ASSUME Init PROVE AllInv
  OBVIOUS
<1>1. /\ Off \in ProcType /\ Off.pc = "off" /\ Off.by = 0 /\ Off.hung = FALSE
  BY OffType DEF Off
<1> DEFINE w == [Off EXCEPT !.pc = "work"]
<1>2. w \in ProcType /\ w.pc = "work" /\ w.by = 0 /\ w.hung = FALSE
  BY OffType DEF Off, ProcType, ProcPCs
<1> HIDE DEF w
<1>3. /\ MachineType
      /\ \A p \in Procs : /\ proc[p].pc \in {"off", "work"}
                          /\ proc[p].by = 0 /\ proc[p].hung = FALSE
  <2>1. saved = 0 /\ file = 0
    BY DEF Init
  <2>2. ASSUME NEW p \in Procs,
               proc = [[q \in Procs |-> Off] EXCEPT ![p].pc = "work"],
               state = [status |-> "running", pid |-> p]
        PROVE  /\ MachineType
               /\ \A q \in Procs : /\ proc[q].pc \in {"off", "work"}
                                   /\ proc[q].by = 0 /\ proc[q].hung = FALSE
    <3>1. proc = [[q \in Procs |-> Off] EXCEPT ![p] = w]
      BY <2>2 DEF w
    <3>2. proc = [q \in Procs |-> IF q = p THEN w ELSE Off]
      BY <3>1
    <3> QED BY <1>1, <1>2, <2>1, <2>2, <3>2 DEF MachineType, RunStatuses
  <2>3. ASSUME proc = [p \in Procs |-> Off],
               \E status \in Starts \cap {"stopped", "needs", "running"} :
                  state = [status |-> status, pid |-> Nobody]
        PROVE  /\ MachineType
               /\ \A q \in Procs : /\ proc[q].pc \in {"off", "work"}
                                   /\ proc[q].by = 0 /\ proc[q].hung = FALSE
    BY <1>1, <2>1, <2>3 DEF MachineType, RunStatuses
  <2> QED BY <2>2, <2>3 DEF Init
<1>4. /\ \A i \in Ids : job[i].pc = "none" /\ cmd[i].st = "none"
      /\ victims = {}
  BY DEF Init, NoJob, NoRow
<1>5. HungInv
  BY <1>3, <1>4 DEF HungInv, Running, OnlyTheHungAreKilled
<1>6. AttemptInv
  BY <1>3, <1>4 DEF AttemptInv, Beginning
<1>7. TextInv
  BY <1>3, <1>4 DEF TextInv, Beginning
<1> QED BY <1>5, <1>6, <1>7 DEF AllInv

LEMMA AllNext == IInv /\ AllInv /\ [Next]_vars => AllInv'
<1> SUFFICES ASSUME IInv, AllInv, [Next]_vars PROVE AllInv'
  OBVIOUS
<1>0. HungInv /\ AttemptInv /\ TextInv
  BY DEF AllInv
<1>1. CASE UNCHANGED vars
  BY <1>1 DEF vars, relayVars, watchVars, runVars, history, AllInv, HungInv,
     MachineType, Exists, OnlyTheHungAreKilled, AttemptInv, TextInv
<1>2. CASE \/ \E p \in Phones : PostLooks(p) \/ PostInserts(p)
           \/ Last \/ Tick \/ Poll \/ WatcherStarts \/ OtherEnds
  BY <1>2, RelayKeeps
<1>3. CASE WatcherDies
  BY <1>3, WatcherDiesQuiet
<1>4. ASSUME NEW i \in Ids, Take(i) \/ JobStep(i) PROVE AllInv'
  BY <1>4, TakeQuiet, PrepareQuiet, AttemptEndsQuiet, ReportQuiet, AttemptQuiet
     DEF JobStep
<1>5. ASSUME NEW p \in Procs, LocalResume(p) PROVE AllInv'
  BY <1>5, LocalKeeps
<1>6. ASSUME NEW p \in Procs, ProcStep(p) \/ OwnerStep(p) PROVE AllInv'
  <2>1. MachineMoves
    BY <1>0, <1>6, BeginningMoves, OwnerMoves
  <2> QED BY <1>0, <2>1, MovesKeepHung, MovesKeepAttempts, MovesKeepTexts
          DEF AllInv
<1> QED BY <1>1, <1>2, <1>3, <1>4, <1>5, <1>6 DEF Next

THEOREM MachineInvariant == Spec => []AllInv
<1>1. Init => AllInv
  BY InitAllInv
<1>2. IInv /\ AllInv /\ [Next]_vars => AllInv'
  BY AllNext
<1> QED BY <1>1, <1>2, Invariant, PTL DEF Spec

\* A resume kills no owner but one that had hung, though it kills by a pid it
\* read before, and the owner may have come to itself or gone meanwhile.
THEOREM OnlyTheHungDie == Spec => []OnlyTheHungAreKilled
<1>1. AllInv => OnlyTheHungAreKilled
  BY DEF AllInv, HungInv
<1> QED BY <1>1, MachineInvariant, PTL

\* A command that the phones see as done has made an owner of the process it
\* started.
THEOREM DoneHasItsOwner == Spec => []DoneMeansOwner
<1>1. AllInv => DoneMeansOwner
  BY DEF AllInv, AttemptInv, DoneMeansOwner
<1> QED BY <1>1, MachineInvariant, PTL

\* Resumes that are refused, retried or killed do not lose the answer that
\* came with the command, until its owner has begun.
THEOREM TextsAreKept == Spec => []TextKept
<1>1. ASSUME AllInv PROVE TextKept
  <2>1. ASSUME NEW i \in Ids, job[i].pc \in {"ready", "attempt"}, job[i].flag,
               ~late
        PROVE  \/ i \in {file, saved} \/ i \in begun
               \/ \E p \in Procs : proc[p].pc \in {"unlink", "begin"}
                                      /\ proc[p].text = i
    BY <1>1, <2>1 DEF AllInv, TextInv
  <2> QED BY <2>1 DEF TextKept
<1> QED BY <1>1, MachineInvariant, PTL

----------------------------------------------------------------------------
(* run.lock and the name of its owner in state.json.                       *)

\* The places of a process that is past the lock.
Locked == {"held", "unlink", "begin", "work", "hung"}

\* A step that moves no process over the lock or back, and names nobody.
LEMMA NobodyPasses ==
    ASSUME OneOwner, UNCHANGED state, holder' = holder \/ holder \notin Procs,
           \A q \in Procs : proc'[q].pc = proc[q].pc \/ proc'[q].pc \notin Locked
    PROVE  OneOwner'
  BY DEF OneOwner, Locked

\* A step of one process: it stays outside or goes out, with the lock if it
\* has it, or it is inside by a free lock or by its own.
LEMMA OnePasses ==
    ASSUME OneOwner, NEW p \in Procs, OthersKept(p), Nobody \notin Procs,
           \/ /\ proc'[p].pc \notin Locked
              /\ holder' = holder \/ proc[p].pc \in Locked
              /\ state' = state \/ proc[p].pc \in Locked
           \/ /\ proc'[p].pc \in Locked /\ holder' = p
              /\ holder = Nobody \/ proc[p].pc \in Locked
              /\ state' = state \/ proc[p].pc \in Locked
              /\ proc'[p].pc \in {"work", "hung"} => state'.pid = p
    PROVE  OneOwner'
<1> SUFFICES ASSUME NEW q \in Procs, proc'[q].pc \in Locked
             PROVE  /\ holder' = q
                    /\ proc'[q].pc \in {"work", "hung"} => state'.pid = q
  BY Zenon DEF OneOwner, Locked
<1>1. CASE q = p
  BY <1>1
<1>2. CASE q # p
  <2>1. proc'[q] = proc[q] /\ holder = q
    BY <1>2 DEF OthersKept, OneOwner, Locked
  <2>2. proc[p].pc \notin Locked
    BY <1>2, <2>1 DEF OneOwner, Locked
  <2>3. holder' = holder /\ state' = state
    BY <2>1, <2>2
  <2> QED
    BY <2>1, <2>3 DEF OneOwner, Locked
<1> QED
  BY <1>1, <1>2

\* The steps of a resume: it gets the lock when it is free, and who leaves
\* with the lock gives it back.
LEMMA ResumeLocks ==
    ASSUME MachineType, OneOwner, NEW p \in Procs,
           \/ Read(p) \/ Try(p) \/ Wait(p) \/ GitLocked(p) \/ Persist(p)
           \/ Unlink(p) \/ Begin(p)
    PROVE  OneOwner'
<1>0. proc[p] \in ProcType /\ {0, 1, Busy} \subseteq Nat
  BY DEF MachineType, Busy
<1>1. ASSUME NEW code \in Nat, proc' = Exit(p, code)
      PROVE  OthersKept(p) /\ proc'[p].pc \notin Locked
  BY <1>1, ExitFrame DEF Gone, Locked
<1>2. ASSUME NEW pc \in ProcPCs, Goto(p, pc)
      PROVE  OthersKept(p) /\ proc'[p].pc = pc
  BY <1>2, GotoFrame
<1>3. Entry(p) \in {"held", "begin"} /\ Entry(p) \in ProcPCs
  BY DEF Entry, ProcPCs
<1>4. CASE Read(p)
  <2>1. UNCHANGED <<holder, state>>
    BY <1>4 DEF Read
  <2>2. CASE proc' = Exit(p, 1)
    BY <1>0, <1>1, <2>1, <2>2, OnePasses
  <2>3. CASE proc' = [proc EXCEPT ![p].pc = "try", ![p].seen = state.status,
                                  ![p].pid = state.pid, ![p].text = AnswerSeen(p)]
    <3>1. OthersKept(p) /\ proc'[p].pc = "try"
      BY <1>0, <2>3 DEF MachineType, OthersKept, ProcType
    <3> QED
      BY <2>1, <3>1, OnePasses DEF Locked
  <2> QED
    BY <1>4, <2>2, <2>3 DEF Read
<1>5. CASE Try(p)
  <2>1. UNCHANGED state
    BY <1>5 DEF Try, runVars
  <2>2. CASE Locks(p) /\ Goto(p, Entry(p))
    <3>1. OthersKept(p) /\ proc'[p].pc = Entry(p)
      BY <1>2, <1>3, <2>2
    <3> QED
      BY <1>3, <2>1, <2>2, <3>1, OnePasses DEF Locks, Locked
  <2>3. CASE UNCHANGED holder /\ Goto(p, "kill")
    <3>1. OthersKept(p) /\ proc'[p].pc = "kill"
      BY <1>2, <2>3 DEF ProcPCs
    <3> QED
      BY <2>1, <2>3, <3>1, OnePasses DEF Locked
  <2>4. CASE UNCHANGED holder /\ proc' = Exit(p, Busy)
    BY <1>0, <1>1, <2>1, <2>4, OnePasses
  <2> QED
    BY <1>5, <2>2, <2>3, <2>4 DEF Try
<1>6. CASE Wait(p)
  <2>1. UNCHANGED state
    BY <1>6 DEF Wait, runVars
  <2>2. CASE Locks(p) /\ Goto(p, Entry(p))
    <3>1. OthersKept(p) /\ proc'[p].pc = Entry(p)
      BY <1>2, <1>3, <2>2
    <3> QED
      BY <1>3, <2>1, <2>2, <3>1, OnePasses DEF Locks, Locked
  <2>3. CASE UNCHANGED holder /\ proc' = Exit(p, Busy)
    BY <1>0, <1>1, <2>1, <2>3, OnePasses
  <2> QED
    BY <1>6, <2>2, <2>3 DEF Wait
<1>7. CASE GitLocked(p)
  <2>1. UNCHANGED state /\ proc' = Exit(p, 1) /\ proc[p].pc = Entry(p)
    BY <1>7 DEF GitLocked, runVars
  <2> QED
    BY <1>0, <1>1, <1>3, <2>1, OnePasses DEF Locked
<1>8. CASE Persist(p)
  <2>1. UNCHANGED <<holder, state>> /\ proc[p].pc = "held" /\ holder = p
    BY <1>8 DEF Persist, OneOwner
  <2>2. OthersKept(p) /\ proc'[p].pc \in {"unlink", "begin"}
    <3>1. CASE proc' = [proc EXCEPT ![p].pc = "unlink", ![p].text = file]
      BY <1>0, <3>1 DEF MachineType, OthersKept, ProcType
    <3>2. CASE Goto(p, "begin")
      BY <1>2, <3>2 DEF ProcPCs
    <3> QED
      BY <1>8, <3>1, <3>2 DEF Persist
  <2> QED
    BY <2>1, <2>2, OnePasses DEF Locked
<1>9. CASE Unlink(p)
  <2>1. UNCHANGED <<holder, state>> /\ proc[p].pc = "unlink" /\ holder = p
    BY <1>9 DEF Unlink, OneOwner
  <2>2. OthersKept(p) /\ proc'[p].pc = "begin"
    BY <1>2, <1>9 DEF Unlink, ProcPCs
  <2> QED
    BY <2>1, <2>2, OnePasses DEF Locked
<1>10. CASE Begin(p)
  <2>1. proc[p].pc = "begin" /\ holder = p
    BY <1>10 DEF Begin, OneOwner
  <2>2. CASE /\ state' = [status |-> "running", pid |-> p]
             /\ proc' = [proc EXCEPT ![p] = [Off EXCEPT !.pc = "work",
                                                        !.by = proc[p].by]]
             /\ UNCHANGED holder
    <3>1. OthersKept(p) /\ proc'[p].pc = "work" /\ state'.pid = p
      BY <2>2 DEF MachineType, OthersKept, Off
    <3> QED
      BY <2>1, <2>2, <3>1, OnePasses DEF Locked
  <2>3. CASE proc' = Exit(p, 1) /\ holder' = Nobody
    BY <1>0, <1>1, <2>1, <2>3, OnePasses DEF Locked
  <2> QED
    BY <1>10, <2>2, <2>3 DEF Begin
<1> QED
  BY <1>4, <1>5, <1>6, <1>7, <1>8, <1>9, <1>10

\* A kill takes the lock from the one that is killed, and from nobody else.
LEMMA KillUnlocks ==
    ASSUME MachineType, OneOwner, NEW p \in Procs, Kill(p)
    PROVE  OneOwner'
<1>1. UNCHANGED state /\ proc[p].pc = "kill"
  BY DEF Kill, runVars
<1>2. CASE Goto(p, "wait") /\ UNCHANGED holder
  <2>1. OthersKept(p) /\ proc'[p].pc = "wait"
    BY <1>2, GotoFrame DEF ProcPCs
  <2> QED
    BY <1>1, <1>2, <2>1, OnePasses DEF Locked
<1>3. CASE /\ Exists(proc[p].pid) /\ proc[p].pid # p
           /\ proc' = [Exit(proc[p].pid, 1) EXCEPT ![p].pc = "wait"]
           /\ holder' = IF holder = proc[p].pid THEN Nobody ELSE holder
  <2> DEFINE v == proc[p].pid
             f == Exit(v, 1)
             x == Exited(proc[v], 1)
  <2>1. v \in Procs /\ v # p /\ proc[v] \in ProcType
    BY <1>3 DEF Exists, MachineType
  <2>2. proc' = [f EXCEPT ![p].pc = "wait"]
        /\ holder' = IF holder = v THEN Nobody ELSE holder
    BY <1>3
  <2> HIDE DEF v
  <2>3. x.pc \notin Locked
    BY <2>1, ExitedFrame DEF Gone, Locked
  <2>4. f = [proc EXCEPT ![v] = x]
    BY DEF Exit, Exited
  <2> HIDE DEF f, x
  <2>5. /\ DOMAIN f = Procs /\ f[v].pc \notin Locked
        /\ \A q \in Procs \ {v} : f[q] = proc[q]
    BY <2>1, <2>3, <2>4 DEF MachineType
  <2>6. f[p] \in ProcType
    BY <2>1, <2>5 DEF MachineType
  <2>7. /\ proc'[p].pc = "wait"
        /\ \A q \in Procs \ {p} : proc'[q] = f[q]
    BY <2>2, <2>5, <2>6 DEF ProcType
  <2>8. ASSUME NEW q \in Procs, proc'[q].pc \in Locked
        PROVE  proc'[q] = proc[q] /\ q # v
    BY <2>5, <2>7, <2>8 DEF Locked
  <2>9. ASSUME NEW q \in Procs, proc'[q].pc \in Locked
        PROVE  /\ holder' = q
               /\ proc'[q].pc \in {"work", "hung"} => state'.pid = q
    <3>1. proc'[q] = proc[q] /\ q # v
      BY <2>8, <2>9
    <3>2. /\ holder = q
          /\ proc[q].pc \in {"work", "hung"} => state.pid = q
      BY <2>9, <3>1 DEF OneOwner, Locked
    <3> QED
      BY <1>1, <2>2, <3>1, <3>2
  <2> QED
    BY <2>9, Zenon DEF OneOwner, Locked
<1> QED
  BY <1>2, <1>3 DEF Kill, Victim

\* An owner ends with the lock and stays with it.
LEMMA OwnerUnlocks ==
    ASSUME MachineType, OneOwner, NEW p \in Procs, OwnerStep(p)
    PROVE  OneOwner'
<1>0. proc[p] \in ProcType /\ proc[p].pc \in Running
  BY DEF MachineType, OwnerStep, WorkEnds, OwnerDies, OwnerHangs, OwnerWakes, Running
<1>1. holder = p /\ state.pid = p
  BY <1>0 DEF OneOwner, Running
<1>2. CASE WorkEnds(p) \/ OwnerDies(p)
  <2>1. PICK code \in {0, 1} : proc' = Exit(p, code)
    BY <1>2 DEF WorkEnds, OwnerDies
  <2>2. OthersKept(p) /\ proc'[p].pc \notin Locked
    BY <2>1, ExitFrame DEF Gone, Locked
  <2> QED
    BY <1>0, <2>2, OnePasses DEF Running, Locked
<1>3. CASE OwnerHangs(p) \/ OwnerWakes(p)
  <2>1. UNCHANGED <<holder, state>>
    BY <1>3 DEF OwnerHangs, OwnerWakes, runVars
  <2>2. OthersKept(p) /\ proc'[p].pc \in {"work", "hung"}
    <3>1. CASE OwnerHangs(p)
      BY <1>0, <3>1 DEF OwnerHangs, MachineType, OthersKept, ProcType
    <3>2. CASE OwnerWakes(p)
      BY <3>2, GotoFrame DEF OwnerWakes, ProcPCs
    <3> QED
      BY <1>3, <3>1, <3>2
  <2> QED
    BY <1>0, <1>1, <2>1, <2>2, OnePasses DEF Running, Locked
<1> QED
  BY <1>2, <1>3 DEF OwnerStep

\* The relay, the watcher and the terminal move nobody over the lock.
LEMMA WatcherLocksNothing ==
    ASSUME MachineType, TypeInv, OneOwner, [Next]_vars,
           ~(\E p \in Procs : ProcStep(p) \/ OwnerStep(p))
    PROVE  OneOwner'
<1>0. \A q \in Procs : proc[q] \in ProcType
  BY DEF MachineType
<1>1. CASE UNCHANGED <<proc, holder, state>>
  BY <1>1 DEF OneOwner
<1>2. CASE OtherEnds
  <2>1. UNCHANGED <<proc, state>> /\ holder \notin Procs
    BY <1>2 DEF OtherEnds, runVars
  <2> QED
    BY <2>1, NobodyPasses
<1>3. ASSUME NEW p \in Procs, NEW by \in {0} \cup Ids, NEW flag \in BOOLEAN,
             NEW text \in Nat, Spawn(p, by, flag, text), UNCHANGED <<holder, state>>
      PROVE  OneOwner'
  <2>1. \A q \in Procs : proc'[q].pc = proc[q].pc \/ proc'[q].pc \notin Locked
    BY <1>3, SpawnFrame DEF Locked
  <2> QED
    BY <1>3, <2>1, NobodyPasses
<1>4. ASSUME NEW i \in Ids, NEW p \in Procs, Attempt(i, p) PROVE OneOwner'
  <2>1. /\ Spawn(p, i, job[i].flag, 0) /\ job[i].flag \in BOOLEAN
        /\ UNCHANGED <<holder, state>>
    BY <1>4 DEF Attempt, runVars, TypeInv, JobType
  <2>2. i \in {0} \cup Ids /\ 0 \in Nat
    OBVIOUS
  <2> QED
    BY <1>3, <2>1, <2>2, Zenon
<1>5. ASSUME NEW p \in Procs, LocalResume(p) PROVE OneOwner'
  <2>1. PICK text \in {0, Local} : Spawn(p, 0, FALSE, text)
    BY <1>5 DEF LocalResume
  <2>2. text \in Nat /\ UNCHANGED <<holder, state>>
    BY <1>5 DEF LocalResume, Local, runVars
  <2> QED
    BY <1>3, <2>1, <2>2
<1>6. ASSUME NEW S, \A q \in Procs : proc'[q] = IF q \in S THEN Forgotten(proc[q])
                                                ELSE proc[q],
             UNCHANGED <<holder, state>>
      PROVE  OneOwner'
  <2>1. \A q \in Procs : proc'[q].pc = proc[q].pc \/ proc'[q].pc \notin Locked
    BY <1>0, <1>6, ForgottenFrame DEF Off, Locked
  <2> QED
    BY <1>6, <2>1, NobodyPasses
<1>7. ASSUME NEW i \in Ids, AttemptEnds(i) \/ AttemptTimesOut(i)
      PROVE  OneOwner'
  <2>1. Forget(job[i].proc) /\ UNCHANGED <<holder, state>>
    BY <1>7 DEF AttemptEnds, AttemptTimesOut, runVars
  <2>2. \A q \in Procs : proc'[q] = IF q \in {job[i].proc} THEN Forgotten(proc[q])
                                    ELSE proc[q]
    BY <2>1 DEF Forget, MachineType
  <2> QED
    BY <1>6, <2>1, <2>2
<1>8. CASE WatcherDies
  BY <1>6, <1>8 DEF WatcherDies, runVars
<1> QED
  BY <1>1, <1>2, <1>4, <1>5, <1>7, <1>8
     DEF Next, JobStep, PostLooks, PostInserts, Last, Tick, Poll, WatcherStarts,
         Take, Prepare, Report, vars, runVars, watchVars, relayVars

LEMMA InitOwner == Init => OneOwner
<1> SUFFICES ASSUME Init PROVE OneOwner
  OBVIOUS
<1>1. ASSUME NEW p \in Procs,
             proc = [[q \in Procs |-> Off] EXCEPT ![p].pc = "work"],
             holder = p, state = [status |-> "running", pid |-> p]
      PROVE  OneOwner
  <2>1. \A q \in Procs \ {p} : proc[q] = Off
    BY <1>1
  <2> QED
    BY <1>1, <2>1 DEF OneOwner, Off
<1>2. CASE proc = [p \in Procs |-> Off]
  BY <1>2 DEF OneOwner, Off
<1> QED
  BY <1>1, <1>2 DEF Init

\* However many resumes, retries and kills go on, one process at a time is past
\* run.lock, and the one at work is the one state.json names (lock.py,
\* detach.py, run.resume).
THEOREM OneProcessOwnsTheRun == Spec => []OneOwner
<1>1. ASSUME MachineType, TypeInv, OneOwner, [Next]_vars PROVE OneOwner'
  <2>1. ASSUME NEW p \in Procs, ProcStep(p) \/ OwnerStep(p) PROVE OneOwner'
    BY <1>1, <2>1, ResumeLocks, KillUnlocks, OwnerUnlocks DEF ProcStep
  <2> QED
    BY <1>1, <2>1, WatcherLocksNothing
<1>2. AllInv => MachineType
  BY DEF AllInv, HungInv
<1>3. IInv => TypeInv
  BY DEF IInv
<1> QED
  BY <1>1, <1>2, <1>3, InitOwner, Invariant, MachineInvariant, PTL DEF Spec

=============================================================================
