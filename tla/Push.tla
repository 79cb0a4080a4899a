-------------------------------- MODULE Push --------------------------------
(***************************************************************************)
(* A web push of the relay: notify() of push.js, called by the handlers of *)
(* POST /state and POST /notify (worker.js) and by the cron (cron.js).     *)
(* Every await of it lets another request of the worker run, so a call is  *)
(* here a record in a slot and a step per statement of the database, but   *)
(* for its first two, which read.                                          *)
(*                                                                         *)
(* Abstractions:                                                           *)
(*  - one run: a reason stands for the pair of run and reason;             *)
(*  - time is counted in quarters of an hour, and none passes while a      *)
(*    request is under way; the cooldown COOLDOWN_MS is two of them;       *)
(*  - the database answers, the VAPID key is in order;                     *)
(*  - text, keys and encryption of a push are left out; the table of its   *)
(*    log is what notify reads of it, the age of the last delivery.        *)
(***************************************************************************)
EXTENDS Naturals, FiniteSets

CONSTANTS
    Slots,       \* requests the worker may handle at a time
    Endpoints,   \* of push services
    Devices,     \* ids a pairing may give
    NoDevice,
    Reasons      \* of pushes

ASSUME PushAssumption == NoDevice \notin Devices

VARIABLES
    devs,        \* table devices: unknown, live or revoked
    subs,        \* table push_subs: the device of an endpoint, is it dead?
    log,         \* table push_log: quarters since the last delivery
    claim,       \* table push_claims: quarters since it was taken
    note         \* the calls of notify

pushVars == <<devs, subs, log, claim, note>>

Cooldown == 2
NoClaim == Cooldown + 1

NoNote == [pc |-> "off", reason |-> CHOOSE r \in Reasons : TRUE, left |-> {},
           ok |-> FALSE, err |-> FALSE, gone |-> {}]

NoSub == [dev |-> NoDevice, dead |-> FALSE]
IsLive(d) == d \in Devices /\ devs[d] = "live"
Revoked == {d \in Devices : devs[d] = "revoked"}

PushTypeOK ==
    /\ devs \in [Devices -> {"unknown", "live", "revoked"}]
    /\ subs \in [Endpoints -> [dev : Devices \cup {NoDevice}, dead : BOOLEAN]]
    /\ log \in [Reasons -> 0 .. Cooldown]
    /\ claim \in [Reasons -> 0 .. NoClaim]
    /\ note \in [Slots -> [pc : {"off", "read", "claim", "send",
                                 "sent", "skipped", "failed"},
                           reason : Reasons,
                           left : SUBSET (Endpoints \X Devices),
                           ok : BOOLEAN, err : BOOLEAN,
                           gone : SUBSET Devices]]

PushInit ==
    /\ log = [r \in Reasons |-> Cooldown]
    /\ claim = [r \in Reasons |-> NoClaim]
    /\ note = [s \in Slots |-> NoNote]

\* The devices that were revoked before a call begins are noted for the
\* property below.
Called(reason) ==
    [NoNote EXCEPT !.pc = "read", !.reason = reason, !.gone = Revoked]
Over(s, result) == note' = [note EXCEPT ![s] = [NoNote EXCEPT !.pc = result]]

\* LIVE_SUB.  Mutant: the rows a revocation deletes are enough.
LiveSub_NotDead(e) == subs[e].dev # NoDevice /\ ~subs[e].dead
LiveSub(e) == IsLive(subs[e].dev) /\ ~subs[e].dead
LiveSubs == {<<e, subs[e].dev>> : e \in {x \in Endpoints : LiveSub(x)}}

\* The log, in which only a delivery starts the cooldown, and the
\* subscriptions.
Read(s) ==
    /\ note[s].pc = "read"
    /\ IF log[note[s].reason] < Cooldown \/ LiveSubs = {}
       THEN Over(s, "skipped")
       ELSE note' = [note EXCEPT ![s].pc = "claim", ![s].left = LiveSubs]
    /\ UNCHANGED <<devs, subs, log, claim>>

\* A claim that is older than the cooldown is deleted, then the insert may
\* find one.  Mutant: old claims stay.
Taken_Ever(reason) == claim[reason] # NoClaim
Taken(reason) == claim[reason] < Cooldown
Claim(s) ==
    /\ note[s].pc = "claim"
    /\ IF Taken(note[s].reason)
       THEN Over(s, "skipped") /\ UNCHANGED claim
       ELSE /\ note' = [note EXCEPT ![s].pc = "send"]
            /\ claim' = [claim EXCEPT ![note[s].reason] = 0]
    /\ UNCHANGED <<devs, subs, log>>

\* One subscription: it is delivered, refused, the service fails or does not
\* answer, or it does not know the subscription any more.  The claim is held
\* until every one was tried.
Outcomes == {"ok", "refused", "error", "dead"}
Send(s, to, outcome) ==
    /\ note[s].pc = "send" /\ to \in note[s].left
    /\ log' = IF outcome = "ok" THEN [log EXCEPT ![note[s].reason] = 0] ELSE log
    /\ subs' = IF outcome = "dead" THEN [subs EXCEPT ![to[1]].dead = TRUE]
               ELSE subs
    /\ note' = [note EXCEPT ![s].left = @ \ {to},
                            ![s].ok = @ \/ outcome = "ok",
                            ![s].err = @ \/ outcome = "error"]
    /\ UNCHANGED <<devs, claim>>

\* It throws when nothing was delivered and something failed.
Sent(s) ==
    /\ note[s].pc = "send" /\ note[s].left = {}
    /\ Over(s, IF ~note[s].ok /\ note[s].err THEN "failed" ELSE "sent")
    /\ claim' = [claim EXCEPT ![note[s].reason] = NoClaim]
    /\ UNCHANGED <<devs, subs, log>>

NoteStep(s) == Read(s) \/ Claim(s) \/ Sent(s)

\* What a quarter of an hour does to the two tables.
PushAges ==
    /\ log' = [r \in Reasons |-> IF log[r] < Cooldown THEN log[r] + 1
                                 ELSE Cooldown]
    /\ claim' = [r \in Reasons |-> IF claim[r] < Cooldown THEN claim[r] + 1
                                   ELSE claim[r]]

----------------------------------------------------------------------------
\* A device that was revoked before a call gets nothing from it, even if its
\* subscription came between the two statements of the revocation
\* (LIVE_SUB, revokeDevice).
NoPushToRevoked ==
    \A s \in Slots : \A to \in note[s].left : to[2] \notin note[s].gone

=============================================================================
