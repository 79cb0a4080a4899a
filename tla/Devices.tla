------------------------------ MODULE Devices ------------------------------
(***************************************************************************)
(* The devices of the relay: `tero pair` makes a code, a phone exchanges   *)
(* it for its tokens (pair.js), subscribes to pushes and is revoked        *)
(* (worker.js); `tero notify` sends a push to all of them (Push).  The     *)
(* worker handles requests at the same time, one step per statement of     *)
(* the database, and may be killed between two of them.                    *)
(*                                                                         *)
(* Abstractions:                                                           *)
(*  - a token is its device; the read token of a pairing, which can do     *)
(*    nothing here, and labels are left out;                               *)
(*  - all phones try codes from one address, the case the limit of wrong   *)
(*    codes is about; a code lives a quarter of an hour, and so does a     *)
(*    wrong attempt;                                                       *)
(*  - a reason is a text of `tero notify`.                                 *)
(***************************************************************************)
EXTENDS Push

CONSTANTS
    Codes,        \* pair codes that are made
    NoCode,       \* a code that was never made
    MaxBad,       \* MAX_BAD_PER_IP
    PerWindow,    \* NOTIFY_PER_WINDOW
    MaxRequests,  \* bound: requests
    MaxKills      \* bound: requests that are killed or whose statement fails

ASSUME DevicesAssumption ==
    /\ NoCode \notin Codes
    /\ {MaxBad, PerWindow, MaxRequests, MaxKills} \subseteq Nat

VARIABLES
    codes,        \* table pair_codes
    tries,        \* table pair_attempts: those of the last quarter
    req,          \* the requests
    requests, kills,
    (* history *)
    paired,       \* the code a device came from
    wrong         \* wrong codes that were looked up in this quarter

deviceVars == <<codes, tries, req, requests, kills, paired, wrong>>
vars == <<pushVars, deviceVars>>

NoReq == [pc |-> "off", code |-> NoCode, dev |-> NoDevice]

TypeOK ==
    /\ PushTypeOK
    /\ codes \in [Codes -> {"unmade", "fresh", "used", "old"}]
    /\ tries \in 0 .. MaxBad
    /\ req \in [Slots -> [pc : {"off", "reserve", "exchange", "release",
                                "subscribe", "upsert", "revoke", "delete",
                                "reset", "wipe", "rate", "push"},
                          code : Codes \cup {NoCode},
                          dev : Devices \cup {NoDevice}]]
    /\ requests \in 0 .. MaxRequests /\ kills \in 0 .. MaxKills
    /\ paired \in [Devices -> Codes \cup {NoCode}]
    /\ wrong \in Nat

Init ==
    /\ PushInit
    /\ devs = [d \in Devices |-> "unknown"]
    /\ subs = [e \in Endpoints |-> NoSub]
    /\ codes = [c \in Codes |-> "unmade"] /\ tries = 0
    /\ req = [s \in Slots |-> NoReq]
    /\ requests = 0 /\ kills = 0
    /\ paired = [d \in Devices |-> NoCode] /\ wrong = 0

Gets(s, r) == req' = [req EXCEPT ![s] = r]
Ends(s) == Gets(s, NoReq)
Goes(s, pc) == Gets(s, [req[s] EXCEPT !.pc = pc])
At(s, pc) == req[s].pc = pc

\* handleFetch: a request comes, with the key or the token it needs.
Request(s, r) ==
    /\ At(s, "off") /\ requests < MaxRequests
    /\ Gets(s, r) /\ requests' = requests + 1
    /\ UNCHANGED <<pushVars, codes, tries, kills, paired, wrong>>
Arrives(s) ==
    \/ \E c \in Codes \cup {NoCode} :
          Request(s, [NoReq EXCEPT !.pc = "reserve", !.code = c])
    \/ \E d \in Devices :
          /\ devs[d] # "unknown"
          /\ \E pc \in {"subscribe", "revoke"} :
                Request(s, [NoReq EXCEPT !.pc = pc, !.dev = d])
    \/ \E pc \in {"reset", "rate"} : Request(s, [NoReq EXCEPT !.pc = pc])

\* createPairCode, which is one statement.
MakeCode(c) ==
    /\ codes[c] = "unmade"
    /\ codes' = [codes EXCEPT ![c] = "fresh"]
    /\ UNCHANGED <<pushVars, tries, req, requests, kills, paired, wrong>>

----------------------------------------------------------------------------
(* Pairing.                                                                *)

\* consumeBadAttempt: one statement counts the attempts and inserts another.
Full == tries >= MaxBad
Reserve(s) ==
    /\ At(s, "reserve")
    /\ IF Full THEN Ends(s) /\ UNCHANGED tries
               ELSE Goes(s, "exchange") /\ tries' = tries + 1
    /\ UNCHANGED <<pushVars, codes, requests, kills, paired, wrong>>

Released == IF tries = 0 THEN 0 ELSE tries - 1

\* exchangePairCode: the claim of the code and the inserts are one batch.
Good(c) == c \in Codes /\ codes[c] = "fresh"
Exchange(s, d) ==
    /\ At(s, "exchange") /\ Good(req[s].code) /\ devs[d] = "unknown"
    /\ codes' = [codes EXCEPT ![req[s].code] = "used"]
    /\ devs' = [devs EXCEPT ![d] = "live"]
    /\ paired' = [paired EXCEPT ![d] = req[s].code]
    /\ Goes(s, "release")
    /\ UNCHANGED <<subs, log, claim, note, tries, requests, kills, wrong>>

\* A wrong code keeps its attempt.  Mutant: every attempt is released.
Kept_None(n) == Released
Kept(n) == n
ExchangeRefused(s) ==
    /\ At(s, "exchange") /\ ~Good(req[s].code)
    /\ tries' = Kept(tries) /\ wrong' = wrong + 1
    /\ Ends(s)
    /\ UNCHANGED <<pushVars, codes, requests, kills, paired>>

\* The batch fails: nothing of it is done, and the attempt is released.
\* Mutant: the claim of the code is a statement of its own.
BatchLeft_Used(c) == IF c \in Codes THEN [codes EXCEPT ![c] = "used"] ELSE codes
BatchLeft(c) == codes
ExchangeFails(s) ==
    /\ At(s, "exchange") /\ kills < MaxKills
    /\ kills' = kills + 1
    /\ codes' = BatchLeft(req[s].code)
    /\ tries' = Released
    /\ Ends(s)
    /\ UNCHANGED <<pushVars, requests, paired, wrong>>

\* releaseAttempt.  A row that is old is deleted already.
Release(s) ==
    /\ At(s, "release")
    /\ tries' = Released
    /\ Ends(s)
    /\ UNCHANGED <<pushVars, codes, requests, kills, paired, wrong>>

----------------------------------------------------------------------------
(* Subscriptions and revocations.                                          *)

\* postPushSubscribe reads the device ...
Subscribe(s) ==
    /\ At(s, "subscribe")
    /\ IF IsLive(req[s].dev) THEN Goes(s, "upsert") ELSE Ends(s)
    /\ UNCHANGED <<pushVars, codes, tries, requests, kills, paired, wrong>>

\* ... and writes the row, unless it is a live device's.
Free(e, d) == subs[e].dev = d \/ ~IsLive(subs[e].dev)
Upsert(s, e) ==
    /\ At(s, "upsert")
    /\ subs' = IF Free(e, req[s].dev)
               THEN [subs EXCEPT ![e] = [dev |-> req[s].dev, dead |-> FALSE]]
               ELSE subs
    /\ Ends(s)
    /\ UNCHANGED <<devs, log, claim, note, codes, tries, requests, kills,
                   paired, wrong>>

\* revokeDevice and resetDevices: the devices, then their subscriptions.
Revoke(s) ==
    /\ \/ /\ At(s, "revoke") /\ Goes(s, "delete")
          /\ devs' = [devs EXCEPT ![req[s].dev] = "revoked"]
       \/ /\ At(s, "reset") /\ Goes(s, "wipe")
          /\ devs' = [d \in Devices |-> IF IsLive(d) THEN "revoked"
                                        ELSE devs[d]]
    /\ UNCHANGED <<subs, log, claim, note, codes, tries, requests, kills,
                   paired, wrong>>
Delete(s) ==
    /\ \/ At(s, "delete") \/ At(s, "wipe")
    /\ subs' = [e \in Endpoints |->
                   IF At(s, "wipe") \/ subs[e].dev = req[s].dev THEN NoSub
                   ELSE subs[e]]
    /\ Ends(s)
    /\ UNCHANGED <<devs, log, claim, note, codes, tries, requests, kills,
                   paired, wrong>>

----------------------------------------------------------------------------
(* POST /notify.                                                           *)

\* Texts that were delivered within the cooldown count once here.
Recent == Cardinality({r \in Reasons : log[r] < Cooldown})
Notify(s) ==
    /\ At(s, "rate")
    /\ \/ /\ Recent >= PerWindow
          /\ Ends(s) /\ UNCHANGED note
       \/ /\ Recent < PerWindow
          /\ Goes(s, "push")
          /\ \E r \in Reasons : note' = [note EXCEPT ![s] = Called(r)]
    /\ UNCHANGED <<devs, subs, log, claim, codes, tries, requests, kills,
                   paired, wrong>>
Push(s) ==
    /\ \/ NoteStep(s)
       \/ \E to \in note[s].left, outcome \in Outcomes : Send(s, to, outcome)
    /\ UNCHANGED deviceVars
Notified(s) ==
    /\ At(s, "push") /\ note[s].pc \in {"sent", "skipped", "failed"}
    /\ note' = [note EXCEPT ![s] = NoNote]
    /\ Ends(s)
    /\ UNCHANGED <<devs, subs, log, claim, codes, tries, requests, kills,
                   paired, wrong>>

\* The worker is killed, or a statement fails, in the middle of a request.
Dies(s) ==
    /\ ~At(s, "off") /\ kills < MaxKills
    /\ kills' = kills + 1
    /\ Ends(s)
    /\ note' = [note EXCEPT ![s] = NoNote]
    /\ UNCHANGED <<devs, subs, log, claim, codes, tries, requests, paired,
                   wrong>>

\* A quarter of an hour.
Quarter ==
    /\ \A s \in Slots : At(s, "off")
    /\ PushAges
    /\ codes' = [c \in Codes |-> IF codes[c] = "fresh" THEN "old" ELSE codes[c]]
    /\ tries' = 0 /\ wrong' = 0
    /\ UNCHANGED <<devs, subs, note, req, requests, kills, paired>>

Step(s) ==
    \/ Arrives(s)
    \/ Reserve(s) \/ ExchangeRefused(s) \/ ExchangeFails(s) \/ Release(s)
    \/ \E d \in Devices : Exchange(s, d)
    \/ Subscribe(s) \/ \E e \in Endpoints : Upsert(s, e)
    \/ Revoke(s) \/ Delete(s)
    \/ Notify(s) \/ Push(s) \/ Notified(s)
    \/ Dies(s)

Next ==
    \/ \E c \in Codes : MakeCode(c)
    \/ \E s \in Slots : Step(s)
    \/ Quarter

Spec == Init /\ [][Next]_vars

----------------------------------------------------------------------------
\* A code makes one device, whoever exchanges it at the same time, and a
\* code that is used made one: a batch that fails leaves neither
\* (exchangePairCode).
UsedCodeHasItsDevice ==
    \A c \in Codes :
        LET made == {d \in Devices : paired[d] = c}
        IN /\ \A d1, d2 \in made : d1 = d2
           /\ codes[c] = "used" <=> made # {}

\* However many requests try codes at the same time, no more than MaxBad
\* wrong ones are looked up in a quarter of an hour (consumeBadAttempt).
TriesAreLimited == wrong <= MaxBad

=============================================================================
