-------------------------------- MODULE Relay -------------------------------
(***************************************************************************)
(* What a phone can see of a run: its owner writes state.json and a thread *)
(* of the owner (pusher.py, client.py) posts it to the relay, whose worker *)
(* keeps a row of it and sends pushes (worker.js, Push); the cron of the   *)
(* worker tells of a run that has fallen silent (cron.js); the watcher of  *)
(* the machine marks whether its owner is alive (marks.py, service.py).    *)
(*                                                                         *)
(* Abstractions:                                                           *)
(*  - one run, whose states differ in their time, state_at, and in whether *)
(*    the run goes on, has a question, or has ended;                       *)
(*  - a request is in a slot from its sending to its end in the worker,    *)
(*    whether or not its client still waits for the answer;                *)
(*  - the pulse of the pusher is due at any time, and once in a quarter of *)
(*    an hour, in which all marks become due, too; the cron runs at any    *)
(*    time; a poll of the watcher takes no time unless it fails;           *)
(*  - the run has one question, which it may ask again;                    *)
(*  - the subscriptions stay as they are (Devices has the rest);           *)
(*  - the journals and the view that go with a state are left out.         *)
(***************************************************************************)
EXTENDS Push

CONSTANTS
    MaxWrites,    \* bound: writes of state.json
    MaxFaults     \* bound: requests that are lost, killed or unanswered,
                  \* pushes that fail, owners that die

Nobody == "nobody"
Kinds == {"run", "ask", "end"}

\* A reason is the kind of a state, and whether the run has fallen silent: what
\* POST /state and the cron push.
ASSUME RelayAssumption ==
    /\ MaxWrites \in Nat \ {0} /\ MaxFaults \in Nat
    /\ ({"ask", "end"} \X {FALSE}) \cup ({"run", "ask"} \X {TRUE})
          \subseteq Reasons

Threads == {"loop", "flush"}

VARIABLES
    (* the owner and its pusher *)
    owner,       \* up, leaving (its atexit handler runs), left, gone
    disk,        \* state.json
    dirty, sent, busy,
    send,        \* send_once of the two threads
    (* the worker *)
    row,         \* table states
    mark,        \* its columns owner_alive, resume_w, owner_checked_at
    req,         \* requests and runs of the cron
    (* the watcher *)
    last,        \* the mark it sent last
    full,        \* all marks are due
    (* counted for its bound *)
    faults,
    (* history *)
    told,        \* pushes of this silence: none, one, two or skipped
    asked,       \* the question was delivered
    calm,        \* no sending of the newest state has failed
    pulsed       \* the owner has sent a pulse in this quarter

ownerVars == <<owner, disk, dirty, sent, busy, send>>
watchVars == <<last, full>>
history == <<told, asked, calm, pulsed>>
vars == <<pushVars, ownerVars, row, mark, req, watchVars, faults, history>>

NoState == [at |-> 0, kind |-> "run"]
NoRow == [state |-> NoState, stale |-> FALSE, age |-> 0]

\* Was the owner alive, could the run be resumed, is the mark newer than the
\* state?
NoMark == [set |-> FALSE, alive |-> TRUE, ok |-> FALSE, fresh |-> FALSE]

NoSend == [pc |-> "off", sig |-> 0]
NoReq == [pc |-> "off", by |-> Nobody, state |-> NoState, row |-> NoRow,
          mark |-> NoMark]

States == [at : 0 .. MaxWrites, kind : Kinds]
MarkType == [set : BOOLEAN, alive : BOOLEAN, ok : BOOLEAN, fresh : BOOLEAN]
Rows == [state : States, stale : BOOLEAN, age : 0 .. 1]

TypeOK ==
    /\ PushTypeOK
    /\ owner \in {"up", "leaving", "left", "gone"}
    /\ disk \in States
    /\ dirty \in BOOLEAN /\ busy \in BOOLEAN
    /\ sent \in 0 .. MaxWrites
    /\ send \in [Threads -> [pc : {"off", "sig", "wait"}, sig : 0 .. MaxWrites]]
    /\ row \in Rows
    /\ mark \in MarkType
    /\ last \in {"none", "alive", "dead"}
    /\ full \in BOOLEAN
    /\ req \in [Slots -> [pc : {"off", "post", "push", "poll", "claim", "cron"},
                          by : Threads \cup {Nobody},
                          state : States, row : Rows, mark : MarkType]]
    /\ faults \in 0 .. MaxFaults
    /\ told \in {"none", "one", "two", "skipped"}
    /\ {asked, calm, pulsed} \subseteq BOOLEAN

\* A phone is paired and subscribed, an owner has begun the run.
Init ==
    /\ PushInit
    /\ devs = [d \in Devices |-> "live"]
    /\ subs \in [Endpoints -> [dev : Devices, dead : {FALSE}]]
    /\ owner = "up" /\ disk = [at |-> 1, kind |-> "run"]
    /\ dirty = TRUE /\ busy = FALSE /\ sent = 0
    /\ send = [t \in Threads |-> NoSend]
    /\ row = NoRow /\ mark = NoMark
    /\ req = [s \in Slots |-> NoReq]
    /\ last = "none" /\ full = TRUE
    /\ faults = 0
    /\ told = "none" /\ asked = FALSE /\ calm = TRUE
    /\ pulsed = FALSE

At(s, pc) == req[s].pc = pc
Gets(s, r) == req' = [req EXCEPT ![s] = r]
Ends(s) == Gets(s, NoReq)

Fault == /\ faults < MaxFaults
         /\ faults' = faults + 1

\* A request that carries the newest state fails.
FailsWith(state) == Fault /\ calm' = (calm /\ state # disk)

----------------------------------------------------------------------------
(* The owner.                                                              *)

\* A new state; a transition wakes the pusher, too (phase_transition, poke).
Write(kind) ==
    /\ owner = "up" /\ disk.kind # "end" /\ disk.at < MaxWrites
    /\ disk' = [at |-> disk.at + 1, kind |-> kind]
    /\ dirty' = (dirty \/ kind # disk.kind)
    /\ calm' = TRUE
    /\ UNCHANGED <<pushVars, owner, sent, busy, send, row, mark, req,
                   watchVars, faults, told, asked, pulsed>>

\* The run is at its end: its process begins to leave.
Leave ==
    /\ owner = "up" /\ disk.kind = "end"
    /\ owner' = "leaving"
    /\ UNCHANGED <<pushVars, disk, dirty, sent, busy, send, row, mark, req,
                   watchVars, faults, history>>

\* A process is gone: nobody waits for its requests any more.
Gone ==
    /\ owner' = "gone"
    /\ send' = [t \in Threads |-> NoSend]
    /\ req' = [s \in Slots |-> IF req[s].by \in Threads
                               THEN [req[s] EXCEPT !.by = Nobody] ELSE req[s]]
    /\ dirty' = FALSE /\ busy' = FALSE /\ sent' = 0 /\ pulsed' = FALSE
    /\ UNCHANGED <<pushVars, disk, row, mark, watchVars, told, asked>>
Exit == owner = "left" /\ Gone /\ UNCHANGED <<faults, calm>>

\* The owner is killed.
Die == owner # "gone" /\ Fault /\ Gone /\ calm' = FALSE

\* A stopped or dead run is resumed: a new process, which posts at once.
Resume ==
    /\ owner = "gone" /\ disk.at < MaxWrites
    /\ owner' = "up" /\ disk' = [at |-> disk.at + 1, kind |-> "run"]
    /\ dirty' = TRUE /\ calm' = TRUE
    /\ UNCHANGED <<pushVars, sent, busy, send, row, mark, req, watchVars,
                   faults, told, asked, pulsed>>

----------------------------------------------------------------------------
(* The pusher.                                                             *)

\* _due, without the pulse.
Due == dirty \/ disk.at # sent

\* send_once: the signature of the file first, its contents after it.
Begins(t) ==
    /\ send' = [send EXCEPT ![t] = [pc |-> "sig", sig |-> disk.at]]
    /\ busy' = TRUE /\ dirty' = FALSE

Runs == owner \in {"up", "leaving"}

\* _loop, for a change.
Loop ==
    /\ Runs /\ ~busy /\ send["loop"].pc = "off" /\ Due
    /\ Begins("loop")
    /\ UNCHANGED <<pushVars, owner, disk, sent, row, mark, req, watchVars,
                   faults, history>>

\* _loop, for the pulse, which a process that leaves has no time for.
\* Mutant: only a change is sent.
PulseDue_Never == FALSE
PulseDue == ~Due
Pulse ==
    /\ owner = "up" /\ ~busy /\ send["loop"].pc = "off" /\ PulseDue
    /\ Begins("loop")
    /\ pulsed' = TRUE
    /\ UNCHANGED <<pushVars, owner, disk, sent, row, mark, req, watchVars,
                   faults, told, asked, calm>>

\* push_state: the request leaves.
Post(t, s) ==
    /\ send[t].pc = "sig" /\ At(s, "off")
    /\ Gets(s, [NoReq EXCEPT !.pc = "post", !.by = t, !.state = disk])
    /\ send' = [send EXCEPT ![t].pc = "wait"]
    /\ UNCHANGED <<pushVars, owner, disk, dirty, sent, busy, row, mark,
                   watchVars, faults, history>>

\* What send_once remembers as sent, whether or not it was.
Remembered(t) == send[t].sig
SendOver(t) ==
    /\ send' = [send EXCEPT ![t] = NoSend]
    /\ sent' = Remembered(t)
    /\ busy' = FALSE
    /\ owner' = IF t = "flush" THEN "left" ELSE owner

\* _call: a request ends, with an answer or an error, for the client that
\* still waits for it ...
Replies(s) ==
    /\ Ends(s)
    /\ IF req[s].by \in Threads THEN SendOver(req[s].by)
       ELSE UNCHANGED <<send, sent, busy, owner>>

\* ... or the client gives up, though the request may still arrive.
TimesOut(t, s) ==
    /\ req[s].by = t
    /\ FailsWith(req[s].state)
    /\ SendOver(t)
    /\ Gets(s, [req[s] EXCEPT !.by = Nobody])
    /\ UNCHANGED <<pushVars, disk, dirty, row, mark, watchVars, told, asked,
                   pulsed>>

\* flush, at exit: it waits for a sending that is on, though not for ever, and
\* sends what is not sent.  Mutant: it leaves the last state to that sending.
Unsent_NotBusy == Due /\ ~busy
Unsent == Due
Flush ==
    /\ owner = "leaving" /\ send["flush"].pc = "off"
    /\ IF busy THEN Fault ELSE UNCHANGED faults
    /\ IF Unsent
       THEN Begins("flush") /\ UNCHANGED owner
       ELSE owner' = "left" /\ UNCHANGED <<send, busy, dirty>>
    /\ UNCHANGED <<pushVars, disk, sent, row, mark, req, watchVars, history>>

----------------------------------------------------------------------------
(* The worker.                                                             *)

Starts(s, pc, reason) ==
    /\ Gets(s, [req[s] EXCEPT !.pc = pc])
    /\ note' = [note EXCEPT ![s] = Called(reason)]

\* postState: one statement inserts the row, or updates one that is not newer;
\* a question and an end are pushed at once.
\* Mutant: whatever comes last is the state.
Newer_Any(state) == TRUE
Newer(state) == state.at >= row.state.at
PostState(s) ==
    /\ At(s, "post")
    /\ LET state == req[s].state
       IN IF ~Newer(state)
          THEN Replies(s) /\ UNCHANGED <<row, mark, told, note>>
          ELSE /\ row' = [state |-> state, stale |-> FALSE, age |-> 0]
               /\ mark' = [mark EXCEPT !.fresh = FALSE]
               /\ told' = "none"
               /\ IF state.kind = "run"
                  THEN Replies(s) /\ UNCHANGED note
                  ELSE /\ Starts(s, "push", <<state.kind, FALSE>>)
                       /\ UNCHANGED <<send, sent, busy, owner>>
    /\ UNCHANGED <<devs, subs, log, claim, disk, dirty, watchVars, faults,
                   asked, calm, pulsed>>

NoteOver(s) == note[s].pc \in {"sent", "skipped", "failed"}

\* A push that failed does not matter to the handler.
Pushed(s) ==
    /\ At(s, "push") /\ NoteOver(s)
    /\ Replies(s)
    /\ note' = [note EXCEPT ![s] = NoNote]
    /\ UNCHANGED <<devs, subs, log, claim, disk, dirty, row, mark, watchVars,
                   faults, history>>

\* checkStale reads the rows ...
CronReads(s) ==
    /\ At(s, "off")
    /\ row.state.at # 0 /\ row.state.kind # "end" /\ ~row.stale /\ row.age = 1
    /\ Gets(s, [NoReq EXCEPT !.pc = "claim", !.row = row])
    /\ UNCHANGED <<pushVars, ownerVars, row, mark, watchVars, faults, history>>

\* ... marks one, if it is still what was read.
Same(s) == row = req[s].row
Marked(s) == [req[s].row EXCEPT !.stale = TRUE]
CronClaims(s) ==
    /\ At(s, "claim")
    /\ IF Same(s)
       THEN /\ row' = Marked(s)
            /\ Starts(s, "cron", <<req[s].row.state.kind, TRUE>>)
       ELSE Ends(s) /\ UNCHANGED <<row, note>>
    /\ UNCHANGED <<devs, subs, log, claim, ownerVars, mark, watchVars, faults,
                   history>>

\* ... and takes the mark back when the push failed.  Mutant: it does not.
Restored_No(s) == FALSE
Restored(s) == note[s].pc = "failed" /\ row = Marked(s)
CronTold(s) ==
    /\ At(s, "cron") /\ NoteOver(s)
    /\ row' = IF Restored(s) THEN req[s].row ELSE row
    /\ told' = IF note[s].pc = "skipped" /\ told = "none" THEN "skipped" ELSE told
    /\ Ends(s)
    /\ note' = [note EXCEPT ![s] = NoNote]
    /\ UNCHANGED <<devs, subs, log, claim, ownerVars, mark, watchVars, faults,
                   asked, calm, pulsed>>

\* The statements of notify, and a delivery.
Tells(s) == At(s, "cron") /\ row = Marked(s) /\ ~note[s].ok
NotePush(s) ==
    \/ NoteStep(s) /\ UNCHANGED <<ownerVars, row, mark, req, watchVars, faults,
                                  history>>
    \/ \E to \in note[s].left :
          \/ /\ Send(s, to, "ok")
             /\ told' = IF ~Tells(s) THEN told
                        ELSE IF told \in {"one", "two"} THEN "two" ELSE "one"
             /\ asked' = (asked \/ note[s].reason = <<"ask", FALSE>>)
             /\ UNCHANGED <<faults, calm, pulsed>>
          \/ /\ Send(s, to, "error")
             /\ Fault /\ UNCHANGED history
    /\ UNCHANGED <<ownerVars, row, mark, req, watchVars>>

\* A request is lost, or the worker is killed in the middle of it.
Lose(s) ==
    /\ ~At(s, "off")
    /\ IF req[s].by \in Threads THEN FailsWith(req[s].state)
       ELSE Fault /\ UNCHANGED calm
    /\ Replies(s)
    /\ told' = IF At(s, "cron") /\ told = "none" THEN "skipped" ELSE told
    /\ note' = [note EXCEPT ![s] = NoNote]
    /\ UNCHANGED <<devs, subs, log, claim, disk, dirty, row, mark, watchVars,
                   asked, pulsed>>

----------------------------------------------------------------------------
(* The watcher.                                                            *)

Alive == owner # "gone"
Word(alive) == IF alive THEN "alive" ELSE "dead"

\* collect: resume_mark refuses a run that goes on and has an owner.
Collected == [set |-> TRUE, alive |-> Alive, ok |-> ~Alive \/ disk.kind = "end",
              fresh |-> TRUE]

\* postCommandsPoll: an update of the row, if there is one.
Marks(m) == IF row.state.at = 0 THEN mark ELSE m

\* cycle: the mark is sent when it has changed, or all are due; with an answer
\* to the poll the cycle is over.  Mutant: only when it has changed.
Send_Changed == last # Word(Alive)
SendMark == full \/ last # Word(Alive)
Cycle ==
    /\ SendMark
    /\ mark' = Marks(Collected)
    /\ last' = Word(Alive) /\ full' = FALSE
    /\ UNCHANGED <<pushVars, ownerVars, row, req, faults, history>>

\* A poll without an answer: the cycle returns as it was.  The request may
\* have been lost, or may be late.
CycleFails(s) ==
    /\ SendMark /\ At(s, "off")
    /\ Fault
    /\ Gets(s, [NoReq EXCEPT !.pc = "poll", !.mark = Collected, !.row = row])
    /\ UNCHANGED <<pushVars, ownerVars, row, mark, watchVars, history>>
LatePoll(s) ==
    /\ At(s, "poll")
    /\ mark' = Marks([req[s].mark EXCEPT !.fresh =
                         (row.state = req[s].row.state)])
    /\ Ends(s)
    /\ UNCHANGED <<pushVars, ownerVars, row, watchVars, faults, history>>

----------------------------------------------------------------------------
(* What a phone makes of the row and its marks (GET /state).               *)

\* phoneLight: the lamp of the state, unless the owner is dead or the state
\* is old.
Light ==
    IF row.state.kind = "end" THEN "own"
    ELSE IF mark.set /\ ~mark.alive THEN "red"
    ELSE IF row.age = 1 THEN "grey" ELSE "own"

\* resumeButton: a mark that is newer than the state is believed, and else
\* the state.
Button ==
    /\ mark.set
    /\ IF mark.fresh THEN mark.ok ELSE row.state.kind = "end"

\* postOwnerNote: is a message to the owner, or a wake, taken?
Takes == row.state.kind # "end" /\ (mark.set => mark.alive)

----------------------------------------------------------------------------
\* A quarter of an hour, in which an owner that is up has sent a pulse.
Quarter ==
    /\ \A s \in Slots : At(s, "off")
    /\ owner = "gone" \/ (owner = "up" /\ pulsed)
    /\ \A t \in Threads : send[t].pc = "off"
    /\ PushAges
    /\ row' = IF row.state.at = 0 THEN row ELSE [row EXCEPT !.age = 1]
    /\ full' = TRUE /\ pulsed' = FALSE
    /\ UNCHANGED <<devs, subs, note, ownerVars, mark, req, last, faults, told,
                   asked, calm>>

Next ==
    \/ \E kind \in Kinds : Write(kind)
    \/ Leave \/ Exit \/ Die \/ Resume
    \/ Loop \/ Pulse \/ Flush
    \/ \E t \in Threads, s \in Slots :
          Post(t, s) \/ TimesOut(t, s)
    \/ \E s \in Slots :
          \/ PostState(s) \/ Pushed(s) \/ NotePush(s) \/ Lose(s)
          \/ CronReads(s) \/ CronClaims(s) \/ CronTold(s)
          \/ CycleFails(s) \/ LatePoll(s)
    \/ Cycle
    \/ Quarter

Spec == Init /\ [][Next]_vars

\* The threads of the pusher and the handlers of the worker go on; the worker
\* has room for a request again and again; time passes.
Handles(s) ==
    \/ PostState(s) \/ Pushed(s) \/ NotePush(s)
    \/ CronClaims(s) \/ CronTold(s) \/ LatePoll(s)
Fairness ==
    /\ WF_vars(Loop \/ Pulse)
    /\ WF_vars(Flush \/ Exit)
    /\ SF_vars(\E t \in Threads, s \in Slots : Post(t, s))
    /\ \A s \in Slots : WF_vars(Handles(s))
    /\ WF_vars(Cycle)
    /\ SF_vars(Quarter)

FairSpec == Spec /\ Fairness

----------------------------------------------------------------------------
\* When a run has ended and its process has left, the phone sees the end,
\* unless the sending of that very state failed: whatever older requests are
\* still under way (flush, state_at).
FinalIsShown ==
    owner = "gone" /\ calm /\ disk.kind = "end" => row.state = disk

\* The phone never sees an older state after a newer one (state_at in
\* postState).
StateNeverOlder == [][row'.state.at >= row.state.at]_row

\* A run is told of once in a silence, whoever looks at it at the same time; and
\* one that is marked as told of was told of, unless the cooldown of an earlier
\* push or the death of the worker has prevented it (checkStale).
SilenceIsTold ==
    /\ told # "two"
    /\ row.stale /\ (\A s \in Slots : ~At(s, "cron")) => told # "none"

\* In the end the phone sees the state of an owner that goes on, even if the
\* sending of it failed: the pulse repeats it (pusher._due).
StateCatchesUp == <>[](owner = "up" => row.state = disk)

\* In the end the phone knows whether there is an owner, though a mark may
\* come before there is a row, be lost or be late: its lamp is red, and a run
\* can be resumed, just when there is none, and a message to an owner is taken
\* (Watcher.cycle, phoneLight, resumeButton, postOwnerNote).
PhoneIsRight ==
    <>[](row.state.at # 0 /\ disk.kind # "end" =>
            /\ Light = "red" <=> owner = "gone"
            /\ Button <=> owner = "gone"
            /\ owner = "up" => Takes)

\* A question that stays is pushed, though a worker may have died with the
\* claim for it (push_claims).
AskIsPushed == <>[](owner = "up" /\ disk.kind = "ask" => asked)
=============================================================================
