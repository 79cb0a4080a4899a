-------------------------------- MODULE Duty --------------------------------
(***************************************************************************)
(* What the lease file of a run promises (lease.py, may_take): one process *)
(* at a time is obliged to answer.  A process is on duty from the moment   *)
(* it is granted the lease until the granted time or its death, and the    *)
(* lease passes to another one only after either.                          *)
(***************************************************************************)
EXTENDS Naturals

CONSTANTS
    Pids,   \* the processes that may ever hold the lease
    NoPid   \* nobody: none of them

VARIABLES
    alive,    \* the processes that exist
    clock,
    holder,   \* who the lease names, or NoPid
    granted   \* until when each process was last granted the lease

vars == <<alive, clock, holder, granted>>

Init ==
    /\ alive \subseteq Pids
    /\ clock = 0
    /\ holder = NoPid
    /\ granted = [p \in Pids |-> 0]

Free == holder = NoPid \/ holder \notin alive \/ granted[holder] <= clock

\* The lease is taken, or renewed by its holder, until any time.
Grant(p) ==
    /\ Free \/ holder = p
    /\ holder' = p
    /\ granted'[p] \in Nat
    /\ granted' = [granted EXCEPT ![p] = granted'[p]]
    /\ UNCHANGED <<alive, clock>>

\* A process that never held the lease starts; a process dies.
Start(p) ==
    /\ granted[p] = 0
    /\ alive' = alive \cup {p}
    /\ UNCHANGED <<clock, holder, granted>>

Die(p) ==
    /\ alive' = alive \ {p}
    /\ UNCHANGED <<clock, holder, granted>>

Tick ==
    /\ clock' = clock + 1
    /\ UNCHANGED <<alive, holder, granted>>

Next == Tick \/ \E p \in Pids : Grant(p) \/ Start(p) \/ Die(p)

Spec == Init /\ [][Next]_vars

----------------------------------------------------------------------------
OnDuty(p) == p \in alive /\ clock < granted[p]

\* No two living processes are on duty at once: each of them would answer
\* the question the other one was given (lease.py, may_take under the lock).
OneOnDuty == \A p, q \in Pids : OnDuty(p) /\ OnDuty(q) => p = q
=============================================================================
