------------------------------- MODULE Agents -------------------------------
(***************************************************************************)
(* One call of a role (LiveAgents.run_role): a CLI is started in a process *)
(* group of its own, its output read to the end, and everything it has     *)
(* started killed, however the attempt ends: with an answer, an error, a   *)
(* silence, a timeout, a compaction, a stop of the owner, or because a     *)
(* player only reads.  Errors of the network are tried again after a       *)
(* pause, others once; an invalid report is repaired once.                 *)
(*                                                                         *)
(* Abstractions:                                                           *)
(*  - of the processes of an attempt there are three: the CLI, a job of    *)
(*    its group, a shell with a session of its own, both started by it;    *)
(*    one that has outlived its attempt carries the tag of no later one    *)
(*    and is nobody's child, so the next attempt forgets it;               *)
(*  - a timeout or a silence may be over at any time;                      *)
(*  - a process starts no other while it is told to end, and a shell of    *)
(*    another session does not hold the pipes of the CLI (Heirs);          *)
(*  - messages matter when they end the reading, and the tools of a player *)
(*    for whether they write.                                              *)
(***************************************************************************)
EXTENDS Naturals, FiniteSets

CONSTANTS
    Retries,      \* attempts after an error of the network (RETRY_DELAYS_S)
    ReadLimit,    \* READ_ONLY_LIMIT
    KickLimit,    \* KICK_LIMIT
    Heirs,        \* which children may hold the pipes of the CLI
    Hiders        \* which children may hide their environment

Children == {"job", "shell"}
Procs == {"cli"} \cup Children
Pipes == {"out", "err"}

ASSUME AgentsAssumption ==
    /\ Retries \in Nat
    /\ {ReadLimit, KickLimit} \subseteq Nat \ {0}
    /\ Heirs \subseteq Children /\ Hiders \subseteq Children

VARIABLES
    player,      \* is the role a player, with a WriteGuard?
    stalls,      \* has the provider a stall timeout?
    callPC,      \* where the call is
    ask,         \* which prompt: after a kick, as a repair?
    tries,       \* network_retry, other_retried
    ends,        \* what the attempt comes to
    (* the processes of the attempt *)
    procs,       \* those that are up
    holds,       \* the ends of its pipes that they have open
    code,        \* how the CLI ended
    reaped,      \* proc.returncode is set
    blind,       \* those whose environment the sweep cannot read
    stalled,
    guard,       \* the WriteGuard
    (* the stop *)
    stop,        \* inbox/stop.json
    step,        \* is there a baseline, _STEP_BEFORE?
    hunt         \* processes the watchdog gives time to end

procVars == <<procs, holds, code, reaped, blind>>
stopVars == <<stop, step, hunt>>
callVars == <<player, stalls, callPC, ask, tries, ends, procVars, stalled,
              guard, stopVars>>

Kinds == {"auth", "quota", "network", "other"}
Awaits == {"stream", "exit", "stderr", "reap"}
Between == {"judge", "pause", "finally", "begin", "back", "over"}
NoTries == [net |-> 0, other |-> FALSE]
NoGuard == [kicked |-> FALSE, streak |-> 0, wrote |-> FALSE, dirty |-> FALSE]

CallTypeOK ==
    /\ {player, stalls, reaped, stalled, stop, step} \subseteq BOOLEAN
    /\ callPC \in Awaits \cup Between \cup {"close", "sweep", "swept"}
    /\ ask \in [kick : BOOLEAN, repair : BOOLEAN]
    /\ tries \in [net : 0 .. Retries, other : BOOLEAN]
    /\ ends \in Kinds \cup {"none", "again", "text", "timeout", "stall",
                            "compacted", "loop", "report", "invalid", "blocked"}
    /\ procs \subseteq Procs /\ holds \subseteq Pipes \X procs
    /\ code \in {"none", "good", "bad"}
    /\ guard \in [kicked : BOOLEAN, streak : Nat, wrote : BOOLEAN,
                  dirty : BOOLEAN]
    /\ hunt \subseteq Procs /\ blind \subseteq procs

CallInit ==
    /\ player \in BOOLEAN /\ stalls \in BOOLEAN
    /\ callPC = "begin" /\ ends = "none"
    /\ ask = [kick |-> FALSE, repair |-> FALSE]
    /\ tries = NoTries
    /\ procs = {} /\ holds = {}
    /\ code = "none" /\ reaped = FALSE /\ stalled = FALSE /\ blind = {}
    /\ guard = NoGuard
    /\ stop = FALSE /\ step = FALSE /\ hunt = {}

Open(pipe) == \E p \in procs : <<pipe, p>> \in holds
Closed == holds = {}

Goes(to) == callPC' = to /\ UNCHANGED <<player, stalls, ask, tries>>

Without(ps) ==
    /\ procs' = procs \ ps
    /\ holds' = {h \in holds : h[2] \notin ps}
    /\ blind' = blind \ ps

\* Processes are killed.
Die(ps) ==
    /\ Without(ps)
    /\ code' = IF "cli" \in ps \cap procs THEN "bad" ELSE code
    /\ UNCHANGED reaped

\* _kill_group.
Group == {"cli", "job"}

\* The processes below the owner: an orphan is not one of them.
Descendants == IF "cli" \in procs THEN procs ELSE {}

----------------------------------------------------------------------------
(* What the CLI does.                                                      *)

\* It starts a child, which may inherit its pipes and hide its environment ...
Fork(p) ==
    /\ "cli" \in procs /\ p \notin procs
    /\ procs' = procs \cup {p}
    /\ \E inherited \in SUBSET {pipe \in Pipes : <<pipe, "cli">> \in holds} :
          /\ p \notin Heirs => inherited = {}
          /\ holds' = holds \cup (inherited \X {p})
    /\ blind' \in {blind, blind \cup ({p} \cap Hiders)}
    /\ UNCHANGED <<code, reaped>>

\* ... closes a pipe ...
Close(pipe) ==
    /\ <<pipe, "cli">> \in holds
    /\ holds' = holds \ {<<pipe, "cli">>}
    /\ UNCHANGED <<procs, code, reaped, blind>>

\* ... ends, well or not, or a child does ...
Exit(p) ==
    /\ p \in procs
    /\ Without({p})
    /\ code' \in IF p = "cli" THEN {"good", "bad"} ELSE {code}
    /\ UNCHANGED reaped

Processes ==
    /\ \/ \E p \in Children : Fork(p)
       \/ \E pipe \in Pipes : Close(pipe)
       \/ \E p \in Procs : Exit(p)
    /\ UNCHANGED <<player, stalls, callPC, ask, tries, ends, stalled, guard,
                   stopVars>>

\* ... and is waited for.
Reap ==
    /\ code # "none" /\ ~reaped
    /\ reaped' = TRUE
    /\ UNCHANGED <<player, stalls, callPC, ask, tries, ends, procs, holds,
                   code, blind, stalled, guard, stopVars>>

----------------------------------------------------------------------------
(* An attempt (_call, _collect_text, the adapters, run_subprocess_jsonl).  *)

\* No attempt is started again after a stop ...
Retried == tries # NoTries
GivesUp ==
    /\ callPC = "begin" /\ Retried /\ stop
    /\ Goes("back") /\ ends' = "none"
    /\ UNCHANGED <<procVars, stalled, guard, stopVars>>

\* ... and else a process is, which may fail.  (The watchdog has nothing more
\* to kill of this attempt.)
Spawn ==
    /\ callPC = "begin" /\ ~(Retried /\ stop)
    /\ step' = TRUE /\ hunt' = {} /\ blind' = {}
    /\ \/ /\ procs' = {"cli"} /\ holds' = Pipes \X {"cli"}
          /\ Goes("stream") /\ ends' = "none"
       \/ /\ procs' = {} /\ holds' = {}
          /\ Goes("sweep") /\ ends' = "other"
    /\ UNCHANGED <<code, reaped, stalled, guard, stop>>

\* The reading is broken off: an event is an error, or the context is full.
Raise(kind) ==
    /\ callPC = "stream"
    /\ Goes("close") /\ ends' = kind
    /\ UNCHANGED <<procVars, stalled, guard, stopVars>>

\* A tool of a player (WriteGuard._tool): it may write with a tool for that,
\* or with another one, which is found out when too many have been called.
Limit == IF guard.kicked THEN KickLimit ELSE ReadLimit
Written == [NoGuard EXCEPT !.wrote = TRUE]
Tool(kind) ==
    /\ callPC = "stream" /\ player
    /\ LET streak == guard.streak + 1
           read == [guard EXCEPT !.streak = streak,
                                 !.dirty = @ \/ kind = "shell"]
       IN IF kind = "write" \/ (streak >= Limit /\ read.dirty)
          THEN guard' = Written /\ UNCHANGED <<callPC, ends>>
          ELSE /\ guard' = read
               /\ IF streak >= Limit THEN callPC' = "close" /\ ends' = "loop"
                                     ELSE UNCHANGED <<callPC, ends>>
    /\ UNCHANGED <<player, stalls, ask, tries, procVars, stalled, stopVars>>

\* proc.wait returns at once when the process has been reaped, and else when
\* its pipes are closed, too; then its group is killed.
Exited ==
    /\ Die(Group)
    /\ Goes("stderr")

\* The end of the output ...
Eof ==
    /\ callPC = "stream" /\ ~Open("out")
    /\ IF reaped THEN Exited ELSE Goes("exit") /\ UNCHANGED procVars
    /\ UNCHANGED <<ends, stalled, guard, stopVars>>

\* ... is followed by the end of the process.
Wait ==
    /\ callPC = "exit" /\ reaped /\ Closed
    /\ Exited
    /\ UNCHANGED <<ends, stalled, guard, stopVars>>

\* The silence was too long (_on_stall).
Stall ==
    /\ stalls /\ ~stalled /\ callPC \in {"stream", "exit"}
    /\ stalled' = TRUE
    /\ Die(Group)
    /\ Goes(IF reaped THEN "stderr" ELSE "exit")
    /\ UNCHANGED <<ends, guard, stopVars>>

\* The rest of stderr, and the exit status (raise_for_exit, classify_error).
Status ==
    /\ callPC = "stderr" /\ ~Open("err")
    /\ ends' \in IF stalled THEN {"stall"}
                 ELSE IF code = "good" THEN {"text"} ELSE Kinds
    /\ Goes("close")
    /\ UNCHANGED <<procVars, stalled, guard, stopVars>>

\* asyncio.wait_for cancels what awaits, once.
TimeOut ==
    /\ callPC \in Awaits /\ ends # "timeout"
    /\ ends' = "timeout"
    /\ Goes(IF callPC = "reap" THEN "sweep" ELSE "close")
    /\ UNCHANGED <<procVars, stalled, guard, stopVars>>

\* The runner's finally.  Mutant: the process, not its group.
Killed_Cli == {"cli"}
Killed == Group
Cleanup ==
    /\ callPC = "close"
    /\ Die(Killed)
    /\ Goes(IF reaped THEN "sweep" ELSE "reap")
    /\ UNCHANGED <<ends, stalled, guard, stopVars>>
Reaped ==
    /\ callPC = "reap" /\ reaped /\ Closed
    /\ Goes("sweep")
    /\ UNCHANGED <<ends, procVars, stalled, guard, stopVars>>

\* sweep: all that are seen to carry the tag are told to end, and killed when
\* they do not.  Mutant: they are only told.  A process that hides its
\* environment is not seen, and none is when the list of processes cannot be
\* read (find_tagged).
Sweep ==
    /\ callPC = "sweep"
    /\ \E ps \in SUBSET (procs \ blind) : Die(ps)
    /\ Goes("swept")
    /\ UNCHANGED <<ends, stalled, guard, stopVars>>
SweepFails ==
    /\ callPC = "sweep"
    /\ blind' = procs
    /\ Goes("swept")
    /\ UNCHANGED <<ends, procs, holds, code, reaped, stalled, guard, stopVars>>
Left_None == {}
Left == procs \ blind
Swept ==
    /\ callPC = "swept"
    /\ Without(Left)
    /\ code' = "none" /\ reaped' = FALSE /\ stalled' = FALSE
    /\ Goes("judge")
    /\ UNCHANGED <<ends, guard, stopVars>>

\* The exception: is the attempt repeated, after a pause?  A time limit for
\* all of it may be over.
Again ==
    {t \in [net : 0 .. Retries, other : BOOLEAN] :
        \/ ends = "network" /\ t = [tries EXCEPT !.net = @ + 1]
        \/ ends = "other" /\ ~tries.other /\ t = [tries EXCEPT !.other = TRUE]}
Judge ==
    /\ callPC = "judge"
    /\ \/ /\ ends \in {"text", "compacted", "loop"}
          /\ Goes("finally") /\ UNCHANGED ends
       \/ /\ ends \in Kinds \cup {"timeout", "stall"}
          /\ ends # "other" \/ Again = {} \/ stop
          /\ Goes("finally") /\ ends' = "none"
       \/ /\ ~stop
          /\ tries' \in Again
          /\ callPC' = "pause" /\ ends' = "again"
          /\ UNCHANGED <<player, stalls, ask>>
    /\ UNCHANGED <<procVars, stalled, guard, stopVars>>

\* _retry_sleep, to its end or to a stop.
Pause ==
    /\ callPC = "pause"
    /\ Goes("finally")
    /\ UNCHANGED <<ends, procVars, stalled, guard, stopVars>>

\* The finally of _call: the processes that are still below this one.
Finally ==
    /\ callPC = "finally"
    /\ Die(Descendants)
    /\ step' = FALSE
    /\ Goes(IF ends = "again" THEN "begin" ELSE "back")
    /\ UNCHANGED <<ends, stalled, guard, stop, hunt>>

----------------------------------------------------------------------------
(* The role (run_role, watched, repair_once).                              *)

Over(as) == /\ Goes("over") /\ ends' = as
            /\ UNCHANGED guard
Asks(kick, repair) ==
    /\ callPC' = "begin" /\ ends' = "none"
    /\ ask' = [kick |-> kick, repair |-> repair]
    /\ tries' = NoTries
    /\ UNCHANGED <<player, stalls>>

\* A player that only reads is kicked once, and then reported as blocked.
Kickable == ~ask.kick /\ ~guard.kicked
Looped ==
    IF Kickable
    THEN Asks(TRUE, ask.repair)
         /\ guard' = [guard EXCEPT !.kicked = TRUE, !.streak = 0]
    ELSE Over("blocked")

\* A text is a report, or is repaired once.
Idle == player /\ ~guard.wrote /\ ~guard.dirty
Answered ==
    \/ Over("report")
    \/ ~ask.repair /\ Asks(FALSE, TRUE) /\ UNCHANGED guard
    \/ ask.repair /\ Over(IF Idle THEN "blocked" ELSE "invalid")

Back ==
    /\ callPC = "back"
    /\ CASE ends = "loop" -> Looped
         [] ends = "text" -> Answered
         [] OTHER -> Over(ends)
    /\ UNCHANGED <<procVars, stalled, stopVars>>

----------------------------------------------------------------------------
(* A stop of the owner, and its watchdog (a thread).                       *)

Stop ==
    /\ ~stop /\ callPC # "over"
    /\ stop' = TRUE
    /\ UNCHANGED <<player, stalls, callPC, ask, tries, ends, procVars, stalled,
                   guard, step, hunt>>

\* What the step has started is told to end ...
Hunt ==
    /\ stop /\ step /\ hunt = {} /\ Descendants # {}
    /\ \E ps \in SUBSET Descendants : Die(ps)
    /\ hunt' = Descendants
    /\ UNCHANGED <<player, stalls, callPC, ask, tries, ends, stalled, guard,
                   stop, step>>

\* ... and its groups are killed; a job leads none.
HuntOver ==
    /\ hunt # {}
    /\ Die(IF "cli" \in hunt THEN hunt \cup Group ELSE hunt \ {"job"})
    /\ hunt' = {}
    /\ UNCHANGED <<player, stalls, callPC, ask, tries, ends, stalled, guard,
                   stop, step>>

----------------------------------------------------------------------------
Reads ==
    \/ \E kind \in Kinds \cup {"compacted"} : Raise(kind)
    \/ \E kind \in {"read", "write", "shell"} : Tool(kind)
Goon ==
    \/ GivesUp \/ Spawn \/ Eof \/ Wait \/ Status \/ Cleanup \/ Reaped
    \/ Sweep \/ SweepFails \/ Swept \/ Judge \/ Pause \/ Finally \/ Back
CallNext ==
    \/ Processes \/ Reap
    \/ Reads \/ Stall \/ TimeOut
    \/ Goon
    \/ Stop \/ Hunt \/ HuntOver

CallSpec == CallInit /\ [][CallNext]_callVars

\* The event loop runs, a dead child is reaped, and the timeout of an attempt
\* comes; nothing is assumed of the processes.
CallFairness == WF_callVars(Goon) /\ WF_callVars(Reap) /\ WF_callVars(TimeOut)
CallFairSpec == CallSpec /\ CallFairness

----------------------------------------------------------------------------
\* However an attempt ends, what it has started lives on, while the owner
\* waits, tries again or goes on, only where both of its killers are blind: the
\* process has left the group of the CLI (_kill_group), and its environment
\* cannot be read, or the list of all processes cannot (sweep).  The CLI itself
\* and a job of its group never do, nor a shell that does not end when told to.
NothingLeft == callPC \in Between => procs \subseteq blind \ Group

\* A call comes to its end, whatever its processes do: they may be silent,
\* keep the pipes open, close them and stay, or fail each time (wait_for,
\* run_subprocess_jsonl, _call, watched).
CallEnds == <>(callPC = "over")

(* How many steps of its owner a call still has before it, at most: the    *)
(* measure behind CallEnds.  A prompt has Retries + 1 attempts after its   *)
(* first one, a role three prompts after its first (kick, repair, kick),   *)
(* and an attempt fewer than AttemptLength places to go through.           *)
AttemptLength == 14
PlaceLeft ==
    CASE callPC = "pause"   -> 13
      [] callPC = "finally" -> IF ends = "again" THEN 12 ELSE 2
      [] callPC = "begin"   -> 11
      [] callPC = "stream"  -> 10
      [] callPC = "exit"    -> 9
      [] callPC = "stderr"  -> 8
      [] callPC = "close"   -> 7
      [] callPC = "reap"    -> 6
      [] callPC = "sweep"   -> 5
      [] callPC = "swept"   -> 4
      [] callPC = "judge"   -> 3
      [] callPC = "back"    -> 1
      [] callPC = "over"    -> 0

AttemptsLeft == (Retries - tries.net) + (IF tries.other THEN 0 ELSE 1)
PromptsLeft == (IF ask.repair THEN 0 ELSE 2) + (IF ask.kick THEN 0 ELSE 1)
CallLeft ==
    (PromptsLeft * (Retries + 2) + AttemptsLeft) * AttemptLength + PlaceLeft

\* Whatever the processes, the network and a stop do, each step of the owner
\* brings its call nearer to the end, and nothing takes it further away: a
\* retry, a repair and a kick are all paid for (_call, watched, repair_once).
CallGoesOn ==
    [][/\ CallLeft' <= CallLeft
       /\ Goon \/ TimeOut => CallLeft' < CallLeft]_callVars

=============================================================================
