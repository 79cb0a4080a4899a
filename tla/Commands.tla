------------------------------ MODULE Commands ------------------------------
(***************************************************************************)
(* `resume` from the phone: the page posts a command (pult.js), the relay  *)
(* keeps it (worker.js), the watcher of the machine takes it and starts    *)
(* `tero resume --detach` (service.py), whose child becomes the owner of   *)
(* the run when it gets run.lock (detach.py, lock.py, phone_answer.py,     *)
(* run.resume).  People and agents resume the same run from a terminal,    *)
(* and another run of the same repository may hold the lock.               *)
(*                                                                         *)
(* Abstractions:                                                           *)
(*  - one run of one machine; a command is its number, in the order of     *)
(*    posting; the text it carries, if any, is that number too;            *)
(*  - time is the age of a command in units of one attempt of the watcher  *)
(*    and the pause after it (RESUME_TIMEOUT_S + RETRY_PAUSE_S = 130 s),   *)
(*    the longest either may take; other steps of the watcher take no      *)
(*    time, except that a list of commands may become as old as it likes;  *)
(*  - the machine does not sleep while an attempt is on;                   *)
(*  - the work of an owner is one step here (Session has the rest), and    *)
(*    every waiting status of a run is "running";                          *)
(*  - signatures are valid, texts from the phone are allowed, the run is   *)
(*    in the index of the machine and can be resumed (Session has the      *)
(*    refusals).                                                           *)
(***************************************************************************)
EXTENDS Naturals, FiniteSets

CONSTANTS
    N,           \* bound: commands
    Phones,      \* devices with a token
    Procs,       \* slots for processes of owners
    Nobody,      \* no process
    Starts,      \* how the run may be found: its status when it has no owner,
                 \* "owned" when it has one, "other" when another run goes on
    MaxEvents,   \* bound: deaths of the watcher, replies that are lost,
                 \* resumes from a terminal, owners that hang
    MaxUnsaved,  \* bound: writes of state.json that fail
    MaxTurns     \* bound: times an owner's work ends

Ids == 1 .. N
Local == N + 1         \* the text of `tero resume --answer`
Texts == 0 .. N + 1    \* 0: no text
Other == 0             \* the lock is held by another run

ASSUME CommandsAssumption ==
    /\ N \in Nat
    /\ Nobody \notin Procs /\ Other \notin Procs /\ Nobody # Other
    /\ {MaxEvents, MaxUnsaved, MaxTurns} \subseteq Nat

\* RETRIES.  COMMAND_TTL_S is four units and a half.
Retries_Four == 4
Retries == 3
Ttl == 4
Busy == 9              \* BUSY, BUSY_CODE

VARIABLES
    (* the relay *)
    cmd,        \* rows of the table commands
    asking,     \* phones whose request has found no open command
    (* the watcher *)
    up, list, job,
    (* the machine *)
    proc,       \* processes that want to own the run
    holder,     \* of run.lock
    state,      \* state.json: status, pid
    saved,      \* state.json: answer, when it is from the phone
    file,       \* inbox/resume-answer.json
    (* counted for their bounds *)
    used,
    (* history *)
    begun,      \* commands whose owner has written state.json
    late,       \* a command was given up while its owner still started
    victims     \* owners killed by a resume: had they hung?

relayVars == <<cmd, asking>>
watchVars == <<up, list, job>>
runVars == <<state, saved, file>>
history == <<begun, late, victims>>
vars == <<relayVars, watchVars, proc, holder, runVars, used, history>>

Bounds == [event |-> MaxEvents, unsaved |-> MaxUnsaved, turn |-> MaxTurns]
Uses(what) ==
    /\ used[what] < Bounds[what]
    /\ used' = [used EXCEPT ![what] = @ + 1]

NoRow == [st |-> "none", age |-> 0, text |-> FALSE]
NoJob == [pc |-> "none", flag |-> FALSE, tries |-> 0, proc |-> Nobody,
          aged |-> FALSE, code |-> 0]
Off == [pc |-> "off", by |-> 0, flag |-> FALSE, seen |-> "stopped",
        pid |-> Nobody, text |-> 0, code |-> 0, hung |-> FALSE]

\* The run was stopped, with or without a question, or its owner died, or
\* the owner is at work; where it is not, another run may hold the lock.
Init ==
    /\ cmd = [i \in Ids |-> NoRow] /\ asking = {}
    /\ up = TRUE /\ list = {} /\ job = [i \in Ids |-> NoJob]
    /\ \/ /\ "owned" \in Starts
          /\ \E p \in Procs :
                /\ proc = [[q \in Procs |-> Off] EXCEPT ![p].pc = "work"]
                /\ holder = p /\ state = [status |-> "running", pid |-> p]
       \/ /\ proc = [p \in Procs |-> Off]
          /\ holder \in IF "other" \in Starts THEN {Nobody, Other} ELSE {Nobody}
          /\ \E status \in Starts \cap {"stopped", "needs", "running"} :
                state = [status |-> status, pid |-> Nobody]
    /\ saved = 0 /\ file = 0
    /\ used = [what \in DOMAIN Bounds |-> 0]
    /\ begun = {} /\ late = FALSE /\ victims = {}

----------------------------------------------------------------------------
(* The relay: every request first lets old commands expire.                *)

Open == {"pending", "taken"}
NoneOpen(rows) == \A i \in Ids : rows[i].st \notin Open

\* A row that has ended is only read.
Closed(status) == [NoRow EXCEPT !.st = status]

\* expireCommands.
Expired(row) ==
    IF row.st = "taken" /\ row.age > Ttl THEN Closed("lost")
    ELSE IF row.st = "pending" /\ row.age > Ttl THEN Closed("expired")
    ELSE row
Rows == [i \in Ids |-> Expired(cmd[i])]

\* POST /commands: the look for an open command ...
PostLooks(p) ==
    /\ p \notin asking /\ cmd[N].st = "none"
    /\ cmd' = Rows
    /\ asking' = IF NoneOpen(Rows) THEN asking \cup {p} ELSE asking
    /\ UNCHANGED <<watchVars, proc, holder, runVars, used, history>>

\* ... and the insert, which the unique index of open commands may refuse.
\* Mutant: there is no such index.
Free_Always == TRUE
Free == NoneOpen(cmd)
Inserted(i, text) ==
    /\ cmd[i].st = "none" /\ \A j \in Ids : j < i => cmd[j].st # "none"
    /\ cmd' = [cmd EXCEPT ![i] = [st |-> "pending", age |-> 0, text |-> text]]
PostInserts(p) ==
    /\ p \in asking
    /\ asking' = asking \ {p}
    /\ IF Free THEN \E i \in Ids, text \in BOOLEAN : Inserted(i, text)
               ELSE UNCHANGED cmd
    /\ UNCHANGED <<watchVars, proc, holder, runVars, used, history>>

\* GET /commands/last, which every open page asks for.
Last ==
    /\ cmd' = Rows
    /\ UNCHANGED <<asking, watchVars, proc, holder, runVars, used, history>>

\* Time passes, but no further than what may take no longer.
Timed(i) == job[i].pc \in {"taken", "ready", "post"} \/ job[i].aged
Tick ==
    /\ asking = {} /\ \A i \in Ids : ~Timed(i)
    /\ cmd' = [i \in Ids |->
                 IF cmd[i].st \in Open /\ cmd[i].age <= Ttl
                    THEN [cmd[i] EXCEPT !.age = @ + 1] ELSE cmd[i]]
    /\ job' = [i \in Ids |-> IF job[i].pc = "attempt"
                               THEN [job[i] EXCEPT !.aged = TRUE] ELSE job[i]]
    /\ UNCHANGED <<asking, up, list, proc, holder, runVars, used, history>>

----------------------------------------------------------------------------
(* The watcher: cycle, _take, _execute, _resume.                           *)

\* A cycle polls when it has been through the last list; a reply that is
\* lost ends it.
Poll ==
    /\ up /\ list = {}
    /\ cmd' = Rows
    /\ list' = {i \in Ids : Rows[i].st = "pending"}
    /\ UNCHANGED <<asking, up, job, proc, holder, runVars, used, history>>

\* POST /commands/take.
MayTake(row) == row.st = "pending"
Take(i) ==
    /\ up /\ i \in list
    /\ list' = list \ {i}
    /\ IF MayTake(Rows[i])
          THEN /\ cmd' = [Rows EXCEPT ![i].st = "taken", ![i].age = 0]
               /\ \/ job' = [job EXCEPT ![i].pc = "taken"] /\ UNCHANGED used
                  \/ UNCHANGED job /\ Uses("event")
          ELSE cmd' = Rows /\ UNCHANGED <<job, used>>
    /\ UNCHANGED <<asking, up, proc, holder, runVars, history>>

\* The file is replaced.
Written(i) == i

\* The run is read; the text goes into the file when the run waits for it.
Prepare(i) ==
    /\ job[i].pc = "taken"
    /\ LET flag == state.status = "needs" /\ cmd[i].text
       IN  /\ job' = [job EXCEPT ![i].pc = "ready", ![i].flag = flag]
           /\ file' = IF flag THEN Written(i) ELSE file
    /\ UNCHANGED <<relayVars, up, list, proc, holder, state, saved, used,
                   history>>

\* A process in a slot that nothing refers to any more.
Spawn(p, by, flag, text) ==
    /\ proc[p].pc = "off" /\ state.pid # p
    /\ proc' = [q \in Procs |->
                  IF q = p THEN [Off EXCEPT !.pc = "new", !.by = by,
                                            !.flag = flag, !.text = text]
                  ELSE IF proc[q].pid = p THEN [proc[q] EXCEPT !.pid = Nobody]
                  ELSE proc[q]]

\* `resume --detach` starts the owner and waits for it.
Attempt(i, p) ==
    /\ job[i].pc = "ready"
    /\ Spawn(p, i, job[i].flag, 0)
    /\ job' = [job EXCEPT ![i].pc = "attempt", ![i].proc = p]
    /\ UNCHANGED <<relayVars, up, list, holder, runVars, used, history>>

\* detach_go is satisfied by a state.json that the owner has written.
\* Mutant: by one that says the run is running.
Ready_Running(p) == state.status = "running"
Ready(p) == state.pid = p

\* The owner's process is forgotten by the one that waited for it.
Forgotten(r) == IF r.pc = "exit" THEN Off ELSE [r EXCEPT !.by = 0]
Forget(p) == proc' = [proc EXCEPT ![p] = Forgotten(@)]

Ends(i, code) == job' = [job EXCEPT ![i].pc = "post", ![i].code = code]

AttemptEnds(i) ==
    LET p == job[i].proc
    IN  /\ job[i].pc = "attempt"
        /\ \/ Ready(p) /\ Ends(i, 0)
           \/ ~Ready(p) /\ proc[p].pc = "exit"
              /\ IF proc[p].code = Busy /\ job[i].tries < Retries
                    THEN job' = [job EXCEPT ![i].pc = "ready",
                                            ![i].tries = @ + 1,
                                            ![i].aged = FALSE]
                    ELSE Ends(i, IF proc[p].code = Busy THEN Busy ELSE 1)
        /\ Forget(p)
        /\ UNCHANGED <<relayVars, up, list, holder, runVars, used, history>>

\* Not yet an owner.
Starting(p) == proc[p].pc \notin {"work", "hung", "exit"}

\* RESUME_TIMEOUT_S: an error of the command; the owner's process goes on.
AttemptTimesOut(i) ==
    /\ job[i].pc = "attempt" /\ job[i].aged
    /\ Ends(i, 1)
    /\ Forget(job[i].proc)
    /\ late' = (late \/ Starting(job[i].proc))
    /\ UNCHANGED <<relayVars, up, list, holder, runVars, used, begun, victims>>

\* POST /commands/result, sent once.
Report(i) ==
    /\ job[i].pc = "post"
    /\ job' = [job EXCEPT ![i] = [NoJob EXCEPT !.pc = "gone"]]
    /\ \/ /\ cmd' = IF Rows[i].st = "taken"
                       THEN [Rows EXCEPT ![i] =
                               Closed(IF job[i].code = 0 THEN "done"
                                                         ELSE "failed")]
                       ELSE Rows
          /\ UNCHANGED used
       \/ UNCHANGED cmd /\ Uses("event")
    /\ UNCHANGED <<asking, up, list, proc, holder, runVars, history>>

JobStep(i) ==
    Prepare(i) \/ AttemptEnds(i) \/ AttemptTimesOut(i) \/ Report(i)
    \/ \E p \in Procs : Attempt(i, p)

\* The watcher dies with its threads, the owners it started do not.
WatcherDies ==
    /\ up /\ Uses("event")
    /\ up' = FALSE /\ list' = {}
    /\ job' = [i \in Ids |-> IF job[i].pc = "none" THEN NoJob
                             ELSE [NoJob EXCEPT !.pc = "gone"]]
    /\ LET lost == {job[i].proc : i \in {j \in Ids : job[j].pc = "attempt"}}
       IN  /\ proc' = [p \in Procs |->
                         IF p \in lost THEN Forgotten(proc[p]) ELSE proc[p]]
           /\ late' = (late \/ \E p \in lost : Starting(p))
    /\ UNCHANGED <<relayVars, holder, runVars, begun, victims>>

WatcherStarts ==
    /\ ~up
    /\ up' = TRUE
    /\ UNCHANGED <<relayVars, list, job, proc, holder, runVars, used, history>>

----------------------------------------------------------------------------
(* `tero resume`: run_resume, run.resume.                                  *)

\* From a terminal, with or without --answer.
LocalResume(p) ==
    /\ Uses("event")
    /\ \E text \in {0, Local} : Spawn(p, 0, FALSE, text)
    /\ UNCHANGED <<relayVars, watchVars, holder, runVars, history>>

Exit(p, code) ==
    [proc EXCEPT ![p] =
       IF proc[p].by = 0 THEN Off
                   ELSE [Off EXCEPT !.pc = "exit", !.by = proc[p].by, !.code = code]]
Goto(p, pc) == proc' = [proc EXCEPT ![p].pc = pc]
Locks(p) == holder = Nobody /\ holder' = p

\* state.json and the answer are read before the lock; resume_refusal.
\* Mutant: the file is taken before the lock.
Peeked_Taken == file' = 0
Peeked == file' = file
AnswerSeen(p) == IF ~proc[p].flag THEN proc[p].text
                 ELSE IF file # 0 THEN file ELSE saved
Read(p) ==
    /\ proc[p].pc = "new"
    /\ LET text == AnswerSeen(p)
       IN  IF state.status = "done" \/ (state.status = "needs" /\ text = 0)
              THEN proc' = Exit(p, 1) /\ UNCHANGED file
              ELSE /\ proc' = [proc EXCEPT ![p].pc = "try",
                                           ![p].seen = state.status,
                                           ![p].pid = state.pid,
                                           ![p].text = text]
                   /\ IF proc[p].flag THEN Peeked ELSE UNCHANGED file
    /\ UNCHANGED <<relayVars, watchVars, holder, state, saved, used, history>>

\* With the lock: only --answer-from-inbox has something to take over.
Entry(p) == IF proc[p].flag THEN "held" ELSE "begin"
Exists(p) == p \in Procs /\ proc[p].pc \notin {"off", "exit"}

\* is_hung: its pulse is older than its step may take.
IsHung(p) == proc[p].pc = "hung"

\* acquire_for_crash.
Try(p) ==
    /\ proc[p].pc = "try"
    /\ \/ Locks(p) /\ Goto(p, Entry(p))
       \/ /\ holder # Nobody /\ UNCHANGED holder
          /\ LET owner == proc[p].pid
             IN  IF /\ proc[p].seen = "running" /\ Exists(owner)
                    /\ IsHung(owner)
                    THEN Goto(p, "kill")
                    ELSE proc' = Exit(p, Busy)
    /\ UNCHANGED <<relayVars, watchVars, runVars, used, history>>

\* kill_hung_owner, with the pid that was read before.  Mutant: with the pid
\* that is in state.json now.
Victim_Now(p) == state.pid
Victim(p) == proc[p].pid
Kill(p) ==
    /\ proc[p].pc = "kill"
    /\ LET v == Victim(p)
       IN  IF Exists(v) /\ v # p
              THEN /\ proc' = [Exit(v, 1) EXCEPT ![p].pc = "wait"]
                   /\ holder' = IF holder = v THEN Nobody ELSE holder
                   /\ victims' = victims \cup {proc[v].hung}
              ELSE Goto(p, "wait") /\ UNCHANGED <<holder, victims>>
    /\ UNCHANGED <<relayVars, watchVars, runVars, used, begun, late>>

\* The lock is waited for, 10 s at most.
Wait(p) ==
    /\ proc[p].pc = "wait"
    /\ \/ Locks(p) /\ Goto(p, Entry(p))
       \/ proc' = Exit(p, Busy) /\ UNCHANGED holder
    /\ UNCHANGED <<relayVars, watchVars, runVars, used, history>>

\* check_index_lock refuses: a Git process is about.
GitLocked(p) ==
    /\ proc[p].pc = Entry(p)
    /\ proc' = Exit(p, 1) /\ holder' = Nobody
    /\ UNCHANGED <<relayVars, watchVars, runVars, used, history>>

\* owner_answer, persist_inbox_answer: RunState.update never raises.
Persist(p) ==
    /\ proc[p].pc = "held"
    /\ IF file # 0
          THEN /\ proc' = [proc EXCEPT ![p].pc = "unlink", ![p].text = file]
               /\ \/ saved' = file /\ UNCHANGED used
                  \/ UNCHANGED saved /\ Uses("unsaved")
          ELSE Goto(p, "begin") /\ UNCHANGED <<saved, used>>
    /\ UNCHANGED <<relayVars, watchVars, holder, state, file, history>>

Unlink(p) ==
    /\ proc[p].pc = "unlink"
    /\ Goto(p, "begin")
    /\ file' = 0
    /\ UNCHANGED <<relayVars, watchVars, holder, state, saved, used, history>>

\* The first write of the new owner, with its pid: the run goes on, or the
\* setup failed and what was read before the lock is written back.
Begin(p) ==
    /\ proc[p].pc = "begin"
    /\ \/ /\ state' = [status |-> "running", pid |-> p]
          /\ proc' = [proc EXCEPT ![p] = [Off EXCEPT !.pc = "work",
                                                     !.by = proc[p].by]]
          /\ UNCHANGED holder
       \/ /\ state' = [status |-> proc[p].seen, pid |-> p]
          /\ proc' = Exit(p, 1) /\ holder' = Nobody
    /\ begun' = begun \cup ({proc[p].by} \ {0})
    /\ UNCHANGED <<relayVars, watchVars, saved, file, used, late, victims>>

\* The owner stops or finishes; answers to later questions replace the saved
\* one.
WorkEnds(p) ==
    /\ proc[p].pc = "work" /\ Uses("turn")
    /\ \E status \in {"stopped", "needs", "done"} :
          state' = [status |-> status, pid |-> p]
    /\ saved' \in {saved, 0}
    /\ proc' = Exit(p, 0) /\ holder' = Nobody
    /\ UNCHANGED <<relayVars, watchVars, file, history>>

\* The owner dies, or hangs and may come to itself.
OwnerDies(p) ==
    /\ proc[p].pc \in {"work", "hung"} /\ Uses("turn")
    /\ proc' = Exit(p, 1) /\ holder' = Nobody
    /\ UNCHANGED <<relayVars, watchVars, runVars, history>>

OwnerHangs(p) ==
    /\ proc[p].pc = "work" /\ Uses("event")
    /\ proc' = [proc EXCEPT ![p].pc = "hung", ![p].hung = TRUE]
    /\ UNCHANGED <<relayVars, watchVars, holder, runVars, history>>

OwnerWakes(p) ==
    /\ proc[p].pc = "hung"
    /\ Goto(p, "work")
    /\ UNCHANGED <<relayVars, watchVars, holder, runVars, used, history>>

\* `tero go` of another plan in this repository ends.
OtherEnds ==
    /\ holder = Other /\ holder' = Nobody
    /\ UNCHANGED <<relayVars, watchVars, proc, runVars, used, history>>

ProcStep(p) ==
    Read(p) \/ Try(p) \/ Kill(p) \/ Wait(p) \/ GitLocked(p) \/ Persist(p)
    \/ Unlink(p) \/ Begin(p)
OwnerStep(p) == WorkEnds(p) \/ OwnerDies(p) \/ OwnerHangs(p) \/ OwnerWakes(p)

----------------------------------------------------------------------------
Next ==
    \/ \E p \in Phones : PostLooks(p) \/ PostInserts(p)
    \/ Last \/ Tick \/ Poll \/ WatcherDies \/ WatcherStarts
    \/ \E i \in Ids : Take(i) \/ JobStep(i)
    \/ \E p \in Procs : LocalResume(p) \/ ProcStep(p) \/ OwnerStep(p)
    \/ OtherEnds

Spec == Init /\ [][Next]_vars

----------------------------------------------------------------------------
(* Properties.                                                             *)

Statuses == {"none", "pending", "taken", "done", "failed", "expired", "lost"}
JobPCs == {"none", "taken", "ready", "attempt", "post", "gone"}
ProcPCs == {"off", "new", "try", "kill", "wait", "held", "unlink", "begin",
            "work", "hung", "exit"}
RunStatuses == {"stopped", "needs", "running", "done"}

\* The types of all variables: the relay's rows age no further than they
\* expire, a job makes no more than RETRIES retries, a lock has one holder.
TypeOK ==
    /\ cmd \in [Ids -> [st : Statuses, age : 0 .. Ttl + 1, text : BOOLEAN]]
    /\ asking \subseteq Phones
    /\ up \in BOOLEAN /\ list \subseteq Ids
    /\ job \in [Ids -> [pc : JobPCs, flag : BOOLEAN, tries : 0 .. 3,
                        proc : Procs \cup {Nobody}, aged : BOOLEAN,
                        code : {0, 1, Busy}]]
    /\ proc \in [Procs -> [pc : ProcPCs, by : {0} \cup Ids, flag : BOOLEAN,
                           seen : RunStatuses, pid : Procs \cup {Nobody},
                           text : Texts, code : {0, 1, Busy}, hung : BOOLEAN]]
    /\ holder \in Procs \cup {Nobody, Other}
    /\ state \in [status : RunStatuses, pid : Procs \cup {Nobody}]
    /\ saved \in Texts /\ file \in Texts
    /\ used \in [DOMAIN Bounds -> Nat]
    /\ begun \subseteq Ids /\ late \in BOOLEAN /\ victims \subseteq BOOLEAN

\* The commands of the run, as the relay shows them to the phones, live as
\* Order says: one is open at a time though two phones post at once, the
\* watcher takes each at most once, and what was shown as ended stays so.
O == INSTANCE Order WITH Orders <- Ids, order <- [i \in Ids |-> cmd[i].st]
OrderLife == O!Spec

\* A command does not get lost under a watcher that is at it: all retries of
\* a busy run fit into the time the relay gives a taken command.
NotLostWhileWatched ==
    \A i \in Ids :
        job[i].pc \in {"taken", "ready", "attempt", "post"}
            => cmd[i].st = "taken"

\* A command that is done has made its owner: the process it started got the
\* lock and wrote state.json, it was not another one that runs the run.
DoneMeansOwner == \A i \in Ids : cmd[i].st = "done" => i \in begun

\* The answer a phone has sent is not lost by resumes that are refused: until
\* its owner has begun, it is in the file, in state.json or with the process
\* that takes it over, unless a command was given up while its owner started.
TextKept ==
    \A i \in Ids :
        (job[i].pc \in {"ready", "attempt"} /\ job[i].flag /\ ~late)
            => \/ i \in {file, saved} \/ i \in begun
               \/ \E p \in Procs : proc[p].pc \in {"unlink", "begin"}
                                      /\ proc[p].text = i

\* A resume kills no owner but one that had hung: never the one that another
\* resume has made meanwhile.
OnlyTheHungAreKilled == FALSE \notin victims

\* However many resumes, retries and kills go on, one process at a time is
\* past run.lock, and the one at work is the one that state.json names: a
\* resume that finds an owner hung kills the owner, and nobody else takes its
\* name in the meantime (lock.py, detach.py, run.resume).
OneOwner ==
    \A p \in Procs :
        /\ proc[p].pc \in {"held", "unlink", "begin", "work", "hung"}
             => holder = p
        /\ proc[p].pc \in {"work", "hung"} => state.pid = p

=============================================================================
