---------------------------- MODULE Devices_proofs ----------------------------
(***************************************************************************)
(* Proofs about Devices, for any number of codes, devices, subscriptions   *)
(* and requests at a time: a code makes one device, wrong codes are        *)
(* counted before they are looked up, and a device that was revoked gets   *)
(* no push.                                                                *)
(***************************************************************************)
EXTENDS Devices, FiniteSetTheorems, TLAPS

USE DevicesAssumption, PushAssumption

ReqPCs == {"off", "reserve", "exchange", "release", "subscribe", "upsert",
           "revoke", "delete", "reset", "wipe", "rate", "push"}
ReqType == [pc : ReqPCs, code : Codes \cup {NoCode}, dev : Devices \cup {NoDevice}]
NotePCs == {"off", "read", "claim", "send", "sent", "skipped", "failed"}
NoteType == [pc : NotePCs, reason : Reasons \cup {NoNote.reason},
             left : SUBSET (Endpoints \X Devices), ok : BOOLEAN, err : BOOLEAN,
             gone : SUBSET Devices]

Types ==
    /\ devs \in [Devices -> {"unknown", "live", "revoked"}]
    /\ codes \in [Codes -> {"unmade", "fresh", "used", "old"}]
    /\ req \in [Slots -> ReqType] /\ note \in [Slots -> NoteType]
    /\ paired \in [Devices -> Codes \cup {NoCode}]
    /\ tries \in Nat /\ wrong \in Nat

\* A device that is not known yet came from no code.
PairInv ==
    /\ \A d \in Devices : devs[d] = "unknown" => paired[d] = NoCode
    /\ UsedCodeHasItsDevice

\* Every wrong code, and every request that may still look one up or give
\* its attempt back, has an attempt of its own in the table.
Holding == {s \in Slots : req[s].pc \in {"exchange", "release"}}
TryInv ==
    /\ IsFiniteSet(Holding)
    /\ wrong + Cardinality(Holding) <= tries
    /\ tries <= MaxBad

\* What a call noted as revoked stays so, and is not among its receivers.
NoteInv ==
    /\ \A s \in Slots : note[s].gone \subseteq Revoked
    /\ NoPushToRevoked

DevInv == Types /\ PairInv /\ TryInv /\ NoteInv

----------------------------------------------------------------------------
(* Types.                                                                  *)

LEMMA NoReqType == NoReq \in ReqType /\ NoReq.pc = "off"
BY DEF NoReq, ReqType, ReqPCs

LEMMA NoNoteType ==
    /\ NoNote \in NoteType /\ NoNote.left = {} /\ NoNote.gone = {}
    /\ \A r \in Reasons : /\ Called(r) \in NoteType /\ Called(r).left = {}
                          /\ Called(r).gone = Revoked
<1>1. NoNote \in NoteType /\ NoNote.left = {} /\ NoNote.gone = {}
  <2> DEFINE x == CHOOSE r \in Reasons : TRUE
  <2>1. NoNote = [pc |-> "off", reason |-> x, left |-> {}, ok |-> FALSE,
                  err |-> FALSE, gone |-> {}]
    BY DEF NoNote
  <2> HIDE DEF x
  <2> QED BY <2>1 DEF NoteType, NotePCs
<1>2. ASSUME NEW r \in Reasons
      PROVE  /\ Called(r) \in NoteType /\ Called(r).left = {}
             /\ Called(r).gone = Revoked
  <2>1. Revoked \in SUBSET Devices
    BY DEF Revoked
  <2> DEFINE g == Revoked
  <2>2. Called(r) = [NoNote EXCEPT !.pc = "read", !.reason = r, !.gone = g]
    BY DEF Called
  <2> HIDE DEF g
  <2>3. g \in SUBSET Devices
    BY <2>1 DEF g
  <2>4. Called(r) \in NoteType /\ Called(r).left = {} /\ Called(r).gone = g
    BY <1>1, <2>2, <2>3 DEF NoteType, NotePCs
  <2> QED BY <2>4 DEF g
<1> QED BY <1>1, <1>2

\* A request moves, the others stay where they are.
LEMMA GetsFrame ==
    ASSUME Types, NEW s \in Slots, NEW r \in ReqType, Gets(s, r)
    PROVE  /\ req' \in [Slots -> ReqType] /\ req'[s] = r
           /\ \A q \in Slots \ {s} : req'[q] = req[q]
BY DEF Types, Gets

LEMMA GoesFrame ==
    ASSUME Types, NEW s \in Slots, NEW pc \in ReqPCs, Goes(s, pc)
    PROVE  /\ req' \in [Slots -> ReqType] /\ req'[s].pc = pc
           /\ \A q \in Slots \ {s} : req'[q] = req[q]
<1>1. PICK r : r = [req[s] EXCEPT !.pc = pc]
  OBVIOUS
<1>2. req[s] \in ReqType
  BY DEF Types
<1>3. r \in ReqType /\ r.pc = pc
  BY <1>1, <1>2 DEF ReqType
<1>4. Gets(s, r)
  BY <1>1 DEF Goes
<1> QED BY <1>3, <1>4, GetsFrame

LEMMA EndsFrame ==
    ASSUME Types, NEW s \in Slots, Ends(s)
    PROVE  /\ req' \in [Slots -> ReqType] /\ req'[s].pc = "off"
           /\ \A q \in Slots \ {s} : req'[q] = req[q]
BY GetsFrame, NoReqType DEF Ends

\* What a step does to the requests and to the count of wrong codes.
Held(pc) == pc \in {"exchange", "release"}
Counts(s) ==
    \/ /\ Held(req'[s].pc) => Held(req[s].pc)
       /\ UNCHANGED <<tries, wrong>>
    \/ /\ ~Held(req[s].pc) /\ tries < MaxBad
       /\ tries' = tries + 1 /\ UNCHANGED wrong
    \/ /\ Held(req[s].pc) /\ ~Held(req'[s].pc)
       /\ UNCHANGED tries /\ wrong' = wrong + 1
    \/ /\ Held(req[s].pc) /\ ~Held(req'[s].pc)
       /\ tries' = Released /\ UNCHANGED wrong

LEMMA StepCounts ==
    ASSUME Types, NEW s \in Slots, Step(s)
    PROVE  /\ req' \in [Slots -> ReqType]
           /\ \A q \in Slots \ {s} : req'[q] = req[q]
           /\ Counts(s)
<1> DEFINE Frame == /\ req' \in [Slots -> ReqType]
                    /\ \A q \in Slots \ {s} : req'[q] = req[q]
<1> USE DEF At, Counts, Held, ReqPCs
<1>1. CASE Arrives(s)
  <2>1. ASSUME NEW r \in ReqType, Request(s, r), ~Held(r.pc)
        PROVE  Frame /\ Counts(s)
    BY <2>1, GetsFrame DEF Request
  <2>2. ASSUME NEW c \in Codes \cup {NoCode},
               Request(s, [NoReq EXCEPT !.pc = "reserve", !.code = c])
        PROVE  Frame /\ Counts(s)
    <3> DEFINE r == [NoReq EXCEPT !.pc = "reserve", !.code = c]
    <3>1. r \in ReqType /\ ~Held(r.pc)
      BY NoReqType DEF ReqType
    <3>2. Request(s, r)
      BY <2>2
    <3> HIDE DEF r
    <3> QED BY <2>1, <3>1, <3>2
  <2>3. ASSUME NEW d \in Devices, NEW pc \in {"subscribe", "revoke"},
               Request(s, [NoReq EXCEPT !.pc = pc, !.dev = d])
        PROVE  Frame /\ Counts(s)
    <3> DEFINE r == [NoReq EXCEPT !.pc = pc, !.dev = d]
    <3>1. r \in ReqType /\ ~Held(r.pc)
      BY NoReqType DEF ReqType
    <3>2. Request(s, r)
      BY <2>3
    <3> HIDE DEF r
    <3> QED BY <2>1, <3>1, <3>2
  <2>4. ASSUME NEW pc \in {"reset", "rate"}, Request(s, [NoReq EXCEPT !.pc = pc])
        PROVE  Frame /\ Counts(s)
    <3> DEFINE r == [NoReq EXCEPT !.pc = pc]
    <3>1. r \in ReqType /\ ~Held(r.pc)
      BY NoReqType DEF ReqType
    <3>2. Request(s, r)
      BY <2>4
    <3> HIDE DEF r
    <3> QED BY <2>1, <3>1, <3>2
  <2> QED BY <1>1, <2>2, <2>3, <2>4, Zenon DEF Arrives
<1>2. CASE Reserve(s)
  <2>1. CASE Full
    BY <1>2, <2>1, EndsFrame DEF Reserve
  <2>2. CASE ~Full
    <3>1. tries < MaxBad
      BY <2>2 DEF Full, Types
    <3>2. /\ Goes(s, "exchange") /\ tries' = tries + 1 /\ UNCHANGED wrong
          /\ req[s].pc = "reserve"
      BY <1>2, <2>2 DEF Reserve
    <3> QED BY <3>1, <3>2, GoesFrame
  <2> QED BY <2>1, <2>2
<1>3. CASE ExchangeRefused(s)
  BY <1>3, EndsFrame DEF ExchangeRefused, Kept
<1>4. CASE ExchangeFails(s) \/ Release(s)
  BY <1>4, EndsFrame DEF ExchangeFails, Release
<1>5. ASSUME NEW d \in Devices, Exchange(s, d) PROVE Frame /\ Counts(s)
  BY <1>5, GoesFrame DEF Exchange
<1>6. CASE Subscribe(s)
  BY <1>6, GoesFrame, EndsFrame DEF Subscribe
<1>7. CASE (\E e \in Endpoints : Upsert(s, e)) \/ Delete(s) \/ Notified(s) \/ Dies(s)
  BY <1>7, EndsFrame DEF Upsert, Delete, Notified, Dies
<1>8. CASE Revoke(s)
  BY <1>8, GoesFrame DEF Revoke
<1>9. CASE Notify(s)
  BY <1>9, GoesFrame, EndsFrame DEF Notify
<1>10. CASE Push(s)
  BY <1>10 DEF Push, deviceVars, Types
<1> QED BY <1>1, <1>2, <1>3, <1>4, <1>5, <1>6, <1>7, <1>8, <1>9, <1>10 DEF Step

\* The attempts are counted before the codes are looked up.
LEMMA StepKeepsTries ==
    ASSUME Types, TryInv, NEW s \in Slots, Step(s)
    PROVE  TryInv' /\ tries' \in Nat /\ wrong' \in Nat
<1>0. /\ \A q \in Slots \ {s} : req'[q] = req[q]
      /\ Counts(s) /\ tries \in Nat /\ wrong \in Nat /\ MaxBad \in Nat
      /\ IsFiniteSet(Holding) /\ Cardinality(Holding) \in Nat
  BY StepCounts, FS_CardinalityType DEF Types, TryInv
<1>1. Holding' = IF Held(req'[s].pc) THEN Holding \cup {s} ELSE Holding \ {s}
  BY <1>0 DEF Holding, Held
<1>2. s \in Holding <=> Held(req[s].pc)
  BY DEF Holding, Held
<1>3. /\ IsFiniteSet(Holding')
      /\ Cardinality(Holding') =
           IF Held(req'[s].pc)
           THEN IF Held(req[s].pc) THEN Cardinality(Holding)
                                   ELSE Cardinality(Holding) + 1
           ELSE IF Held(req[s].pc) THEN Cardinality(Holding) - 1
                                   ELSE Cardinality(Holding)
  BY <1>0, <1>1, <1>2, FS_AddElement, FS_RemoveElement
<1>4. Held(req[s].pc) => Cardinality(Holding) >= 1
  <2>1. Held(req[s].pc) => Holding # {}
    BY <1>2
  <2> QED BY <1>0, <2>1, FS_EmptySet
<1>5. wrong + Cardinality(Holding) <= tries /\ tries <= MaxBad
  BY DEF TryInv
<1> HIDE DEF Holding
<1>6. tries' \in Nat /\ wrong' \in Nat
  BY <1>0 DEF Counts, Released
<1>7. wrong' + Cardinality(Holding') <= tries' /\ tries' <= MaxBad
  <2> DEFINE a == Held(req[s].pc)
             b == Held(req'[s].pc)
             n == Cardinality(Holding)
             m == Cardinality(Holding')
  <2>1. /\ n \in Nat /\ wrong + n <= tries /\ tries <= MaxBad
        /\ a => n >= 1
        /\ m = IF b THEN IF a THEN n ELSE n + 1 ELSE IF a THEN n - 1 ELSE n
    BY <1>0, <1>3, <1>4, <1>5
  <2>2. \/ (b => a) /\ tries' = tries /\ wrong' = wrong
        \/ ~a /\ tries < MaxBad /\ tries' = tries + 1 /\ wrong' = wrong
        \/ a /\ ~b /\ tries' = tries /\ wrong' = wrong + 1
        \/ a /\ ~b /\ tries' = Released /\ wrong' = wrong
    BY <1>0 DEF Counts
  <2> HIDE DEF a, b, n, m
  <2>3. wrong' + m <= tries' /\ tries' <= MaxBad
    BY <1>0, <2>1, <2>2 DEF Released
  <2> QED BY <2>3 DEF m
<1> QED BY <1>3, <1>6, <1>7 DEF TryInv

----------------------------------------------------------------------------
(* Codes and devices.                                                      *)

\* What a step does to codes and devices: a known device is not made again,
\* and a code is used by the step that makes its device.
PairMoves ==
    /\ devs' \in [Devices -> {"unknown", "live", "revoked"}]
    /\ codes' \in [Codes -> {"unmade", "fresh", "used", "old"}]
    /\ \A d \in Devices :
          /\ devs'[d] = "unknown" => devs[d] = "unknown" /\ paired'[d] = paired[d]
          /\ devs[d] = "revoked" => devs'[d] = "revoked"
    /\ \/ /\ UNCHANGED paired
          /\ \A c \in Codes : codes'[c] = "used" <=> codes[c] = "used"
       \/ \E d \in Devices, c \in Codes :
             /\ devs[d] = "unknown" /\ codes[c] = "fresh"
             /\ devs' = [devs EXCEPT ![d] = "live"]
             /\ codes' = [codes EXCEPT ![c] = "used"]
             /\ paired' = [paired EXCEPT ![d] = c]

LEMMA NextPairMoves ==
    ASSUME Types, PairInv,
           \/ \E c \in Codes : MakeCode(c)
           \/ \E s \in Slots : Step(s)
           \/ Quarter
    PROVE  PairMoves
<1>0. /\ devs \in [Devices -> {"unknown", "live", "revoked"}]
      /\ codes \in [Codes -> {"unmade", "fresh", "used", "old"}]
      /\ paired \in [Devices -> Codes \cup {NoCode}]
      /\ req \in [Slots -> ReqType]
  BY DEF Types
<1>1. CASE UNCHANGED <<devs, codes, paired>>
  BY <1>0, <1>1 DEF PairMoves
<1>2. ASSUME NEW c \in Codes, MakeCode(c) PROVE PairMoves
  BY <1>0, <1>2 DEF MakeCode, pushVars, PairMoves
<1>3. CASE Quarter
  BY <1>0, <1>3 DEF Quarter, PairMoves
<1>4. ASSUME NEW s \in Slots, Step(s) PROVE PairMoves
  <2>1. CASE \/ Reserve(s) \/ ExchangeRefused(s) \/ Release(s) \/ Subscribe(s)
             \/ (\E e \in Endpoints : Upsert(s, e))
    <3>1. UNCHANGED <<devs, codes, paired>>
      BY <2>1 DEF Reserve, ExchangeRefused, Release, Subscribe, Upsert, pushVars
    <3> QED BY <1>1, <3>1
  <2>2. CASE \/ Arrives(s) \/ Push(s)
             \/ Delete(s) \/ Notify(s) \/ Notified(s) \/ Dies(s)
    <3>1. CASE Arrives(s)
      <4>1. \E r : Request(s, r)
        BY <3>1, Zenon DEF Arrives
      <4> QED BY <1>1, <4>1 DEF Request, pushVars
    <3>2. CASE Push(s)
      <4>1. CASE NoteStep(s)
        BY <1>1, <3>2, <4>1 DEF Push, deviceVars, NoteStep, Read, Claim, Sent
      <4>2. ASSUME NEW to, NEW outcome, Send(s, to, outcome) PROVE PairMoves
        <5>1. UNCHANGED devs
          BY <4>2, Zenon DEF Send
        <5> QED BY <1>1, <3>2, <5>1 DEF Push, deviceVars
      <4> QED BY <3>2, <4>1, <4>2 DEF Push
    <3>3. CASE Delete(s) \/ Notify(s)
      <4>1. UNCHANGED <<devs, codes, paired>>
        BY <3>3 DEF Delete, Notify
      <4> QED BY <1>1, <4>1
    <3>4. CASE Notified(s) \/ Dies(s)
      <4>1. UNCHANGED <<devs, codes, paired>>
        BY <3>4 DEF Notified, Dies
      <4> QED BY <1>1, <4>1
    <3> QED BY <2>2, <3>1, <3>2, <3>3, <3>4
  <2>3. CASE ExchangeFails(s)
    <3>1. UNCHANGED <<devs, codes, paired>>
      BY <2>3 DEF ExchangeFails, BatchLeft, pushVars
    <3> QED BY <1>1, <3>1
  <2>4. CASE Revoke(s)
    <3>1. CASE devs' = [devs EXCEPT ![req[s].dev] = "revoked"] /\ At(s, "revoke")
      BY <1>0, <2>4, <3>1 DEF Revoke, PairMoves, At
    <3>2. CASE devs' = [d \in Devices |-> IF IsLive(d) THEN "revoked" ELSE devs[d]]
      BY <1>0, <2>4, <3>2 DEF Revoke, IsLive, PairMoves
    <3> QED BY <2>4, <3>1, <3>2 DEF Revoke
  <2>5. ASSUME NEW d \in Devices, Exchange(s, d) PROVE PairMoves
    <3> DEFINE c == req[s].code
    <3>1. /\ devs[d] = "unknown" /\ c \in Codes /\ codes[c] = "fresh"
          /\ devs' = [devs EXCEPT ![d] = "live"]
          /\ codes' = [codes EXCEPT ![c] = "used"]
          /\ paired' = [paired EXCEPT ![d] = c]
      BY <2>5 DEF Exchange, Good
    <3> HIDE DEF c
    <3>2. paired[d] = NoCode /\ c # NoCode
      BY <3>1 DEF PairInv
    <3> QED BY <1>0, <3>1, <3>2 DEF PairMoves
  <2> QED BY <1>4, <2>1, <2>2, <2>3, <2>4, <2>5 DEF Step
<1> QED BY <1>2, <1>3, <1>4

\* A batch makes the one device of a code that had none.
LEMMA MovesKeepPairs ==
    ASSUME Types, PairInv, PairMoves
    PROVE  PairInv' /\ paired' \in [Devices -> Codes \cup {NoCode}]
<1>0. /\ devs \in [Devices -> {"unknown", "live", "revoked"}]
      /\ codes \in [Codes -> {"unmade", "fresh", "used", "old"}]
      /\ paired \in [Devices -> Codes \cup {NoCode}]
      /\ \A d \in Devices : devs[d] = "unknown" => paired[d] = NoCode
      /\ \A c \in Codes :
            /\ \A d1, d2 \in Devices : paired[d1] = c /\ paired[d2] = c => d1 = d2
            /\ codes[c] = "used" <=> \E d \in Devices : paired[d] = c
  BY DEF Types, PairInv, UsedCodeHasItsDevice
<1>1. CASE /\ UNCHANGED paired
           /\ \A c \in Codes : codes'[c] = "used" <=> codes[c] = "used"
  BY <1>0, <1>1 DEF PairMoves, PairInv, UsedCodeHasItsDevice
<1>2. ASSUME NEW d \in Devices, NEW c \in Codes,
             devs[d] = "unknown", codes[c] = "fresh",
             devs' = [devs EXCEPT ![d] = "live"],
             codes' = [codes EXCEPT ![c] = "used"],
             paired' = [paired EXCEPT ![d] = c]
      PROVE  PairInv' /\ paired' \in [Devices -> Codes \cup {NoCode}]
  <2>1. /\ paired' \in [Devices -> Codes \cup {NoCode}]
        /\ paired'[d] = c /\ \A x \in Devices \ {d} : paired'[x] = paired[x]
        /\ codes'[c] = "used" /\ \A x \in Codes \ {c} : codes'[x] = codes[x]
        /\ devs'[d] = "live" /\ \A x \in Devices \ {d} : devs'[x] = devs[x]
        /\ paired[d] = NoCode
    BY <1>0, <1>2
  <2>2. \A x \in Devices : paired[x] # c
    BY <1>0, <1>2
  <2>3. \A x \in Devices : devs'[x] = "unknown" => paired'[x] = NoCode
    BY <1>0, <2>1
  <2>4. ASSUME NEW k \in Codes
        PROVE  /\ \A d1, d2 \in Devices :
                     paired'[d1] = k /\ paired'[d2] = k => d1 = d2
               /\ codes'[k] = "used" <=> \E x \in Devices : paired'[x] = k
    <3>1. CASE k = c
      BY <2>1, <2>2, <3>1
    <3>2. CASE k # c
      BY <1>0, <2>1, <3>2
    <3> QED BY <3>1, <3>2
  <2> QED BY <2>1, <2>3, <2>4 DEF PairInv, UsedCodeHasItsDevice
<1> QED BY <1>1, <1>2 DEF PairMoves

----------------------------------------------------------------------------
(* Calls of notify.                                                        *)

\* What becomes of a call: it ends, begins, goes on with fewer receivers, or
\* gets the subscriptions of the devices that are live now.
NoteMoves(n, m) ==
    \/ m = n
    \/ m \in NoteType /\ m.gone = {} /\ m.left = {}
    \/ m \in NoteType /\ m.gone = Revoked /\ m.left = {}
    \/ m \in NoteType /\ m.gone = n.gone /\ m.left \subseteq n.left
    \/ m \in NoteType /\ m.gone = n.gone /\ m.left = LiveSubs

NotesMove ==
    /\ note' \in [Slots -> NoteType]
    /\ \A q \in Slots : NoteMoves(note[q], note'[q])

LEMMA NoteReplaced ==
    ASSUME Types, NEW s \in Slots, NEW m, NoteMoves(note[s], m),
           note' = [note EXCEPT ![s] = m]
    PROVE  NotesMove
BY DEF Types, NoteMoves, NotesMove

\* The end of a call.
LEMMA OverMoves ==
    ASSUME Types, NEW s \in Slots, NEW result \in NotePCs, Over(s, result)
    PROVE  NotesMove
<1> DEFINE m == [NoNote EXCEPT !.pc = result]
<1>1. m \in NoteType /\ m.gone = {} /\ m.left = {}
  BY NoNoteType DEF NoteType
<1>2. note' = [note EXCEPT ![s] = m]
  BY DEF Over
<1> HIDE DEF m
<1> QED BY <1>1, <1>2, NoteReplaced DEF NoteMoves

LEMMA NoteStepMoves ==
    ASSUME Types, NEW s \in Slots, NoteStep(s)
    PROVE  NotesMove
<1> USE DEF NotePCs
<1>0. note[s] \in NoteType
  BY DEF Types
<1>1. CASE Read(s)
  <2>1. CASE Over(s, "skipped")
    BY <2>1, OverMoves
  <2>2. CASE note' = [note EXCEPT ![s].pc = "claim", ![s].left = LiveSubs]
    <3> DEFINE m == [note[s] EXCEPT !.pc = "claim", !.left = LiveSubs]
    <3>1. LiveSubs \in SUBSET (Endpoints \X Devices)
      BY DEF LiveSubs, LiveSub, IsLive
    <3>2. m \in NoteType /\ m.gone = note[s].gone /\ m.left = LiveSubs
      <4> DEFINE l == LiveSubs
      <4>1. l \in SUBSET (Endpoints \X Devices)
        BY <3>1
      <4> HIDE DEF l
      <4>2. LET k == [note[s] EXCEPT !.pc = "claim", !.left = l]
            IN  k \in NoteType /\ k.gone = note[s].gone /\ k.left = l
        BY <1>0, <4>1 DEF NoteType
      <4> QED BY <4>2 DEF l
    <3>3. note' = [note EXCEPT ![s] = m]
      BY <2>2 DEF Types
    <3> HIDE DEF m
    <3> QED BY <3>2, <3>3, NoteReplaced DEF NoteMoves
  <2> QED BY <1>1, <2>1, <2>2 DEF Read
<1>2. CASE Claim(s)
  <2>1. CASE Over(s, "skipped")
    BY <2>1, OverMoves
  <2>2. CASE note' = [note EXCEPT ![s].pc = "send"]
    <3> DEFINE m == [note[s] EXCEPT !.pc = "send"]
    <3>1. m \in NoteType /\ m.gone = note[s].gone /\ m.left = note[s].left
      BY <1>0 DEF NoteType
    <3>2. note' = [note EXCEPT ![s] = m]
      BY <2>2 DEF Types
    <3> HIDE DEF m
    <3> QED BY <3>1, <3>2, NoteReplaced DEF NoteMoves
  <2> QED BY <1>2, <2>1, <2>2 DEF Claim
<1>3. CASE Sent(s)
  <2>1. Over(s, "failed") \/ Over(s, "sent")
    BY <1>3 DEF Sent
  <2> QED BY <2>1, OverMoves
<1> QED BY <1>1, <1>2, <1>3 DEF NoteStep

LEMMA SendMoves ==
    ASSUME Types, NEW s \in Slots, NEW to, NEW outcome, Send(s, to, outcome)
    PROVE  NotesMove
<1>0. note[s] \in NoteType
  BY DEF Types
<1> DEFINE a == note[s].ok \/ outcome = "ok"
           b == note[s].err \/ outcome = "error"
<1>1. note' = [note EXCEPT ![s].left = @ \ {to}, ![s].ok = a, ![s].err = b]
  BY Zenon DEF Send
<1>b. a \in BOOLEAN /\ b \in BOOLEAN
  OBVIOUS
<1> HIDE DEF a, b
<1> DEFINE m == [note[s] EXCEPT !.left = note[s].left \ {to}, !.ok = a, !.err = b]
<1>2. m \in NoteType /\ m.gone = note[s].gone /\ m.left \subseteq note[s].left
  BY <1>0, <1>b DEF NoteType
<1>3. note' = [note EXCEPT ![s] = m]
  BY <1>1 DEF Types
<1> HIDE DEF m
<1> QED BY <1>2, <1>3, NoteReplaced DEF NoteMoves

LEMMA NextNoteMoves ==
    ASSUME Types,
           \/ \E c \in Codes : MakeCode(c)
           \/ \E s \in Slots : Step(s)
           \/ Quarter
    PROVE  NotesMove
<1>1. CASE UNCHANGED note
  BY <1>1 DEF Types, NoteMoves, NotesMove
<1>2. ASSUME NEW c \in Codes, MakeCode(c) PROVE UNCHANGED note
  BY <1>2 DEF MakeCode, pushVars
<1>3. CASE Quarter
  BY <1>1, <1>3 DEF Quarter
<1>4. ASSUME NEW s \in Slots, Step(s)
      PROVE  NotesMove
  <2>1. CASE Arrives(s)
    <3>1. \E r : Request(s, r)
      BY <2>1, Zenon DEF Arrives
    <3> QED BY <1>1, <3>1 DEF Request, pushVars
  <2>2. CASE \/ Reserve(s) \/ ExchangeRefused(s) \/ ExchangeFails(s)
             \/ Release(s) \/ Subscribe(s)
    <3>1. UNCHANGED pushVars
      BY <2>2 DEF Reserve, ExchangeRefused, ExchangeFails, Release, Subscribe
    <3> QED BY <1>1, <3>1 DEF pushVars
  <2>3. CASE \/ (\E d \in Devices : Exchange(s, d))
             \/ (\E e \in Endpoints : Upsert(s, e)) \/ Revoke(s) \/ Delete(s)
    <3>1. UNCHANGED note
      BY <2>3 DEF Exchange, Upsert, Revoke, Delete
    <3> QED BY <1>1, <3>1
  <2>4. CASE Notify(s)
    <3>1. UNCHANGED note \/ \E r \in Reasons : note' = [note EXCEPT ![s] = Called(r)]
      BY <2>4 DEF Notify
    <3>2. ASSUME NEW r \in Reasons, note' = [note EXCEPT ![s] = Called(r)]
          PROVE  NotesMove
      BY <3>2, NoNoteType, NoteReplaced DEF NoteMoves
    <3> QED BY <1>1, <3>1, <3>2
  <2>5. CASE Push(s)
    BY <2>5, NoteStepMoves, SendMoves DEF Push
  <2>6. CASE Notified(s) \/ Dies(s)
    <3>1. note' = [note EXCEPT ![s] = NoNote]
      BY <2>6 DEF Notified, Dies
    <3> QED BY <3>1, NoNoteType, NoteReplaced DEF NoteMoves
  <2> QED BY <1>4, <2>1, <2>2, <2>3, <2>4, <2>5, <2>6 DEF Step
<1> QED BY <1>1, <1>2, <1>3, <1>4

\* What was revoked before a call is not among the devices that are live
\* when it reads them.
LEMMA MovesKeepNotes ==
    ASSUME NoteInv, PairMoves, NotesMove
    PROVE  NoteInv'
<1>1. Revoked \subseteq Revoked' /\ Revoked \in SUBSET Devices
  BY DEF PairMoves, Revoked
<1>2. \A to \in LiveSubs : to[2] \notin Revoked
  BY DEF LiveSubs, LiveSub, IsLive, Revoked
<1> SUFFICES ASSUME NEW s \in Slots
             PROVE  /\ note'[s].gone \subseteq Revoked'
                    /\ \A to \in note'[s].left : to[2] \notin note'[s].gone
  BY DEF NoteInv, NoPushToRevoked
<1>3. /\ note[s].gone \subseteq Revoked
      /\ \A to \in note[s].left : to[2] \notin note[s].gone
  BY DEF NoteInv, NoPushToRevoked
<1> QED BY <1>1, <1>2, <1>3 DEF NoteMoves, NotesMove

----------------------------------------------------------------------------
(* The invariant.                                                          *)

LEMMA InitDevInv == Init => DevInv
<1> SUFFICES ASSUME Init PROVE DevInv
  OBVIOUS
<1>1. /\ devs = [d \in Devices |-> "unknown"]
      /\ codes = [c \in Codes |-> "unmade"] /\ tries = 0 /\ wrong = 0
      /\ req = [s \in Slots |-> NoReq] /\ note = [s \in Slots |-> NoNote]
      /\ paired = [d \in Devices |-> NoCode]
  BY DEF Init, PushInit
<1>2. NoReq \in ReqType /\ NoReq.pc = "off"
  BY NoReqType
<1>3. NoNote \in NoteType /\ NoNote.left = {} /\ NoNote.gone = {}
  BY NoNoteType
<1>4. Types
  BY <1>1, <1>2, <1>3 DEF Types
<1>5. PairInv
  BY <1>1 DEF PairInv, UsedCodeHasItsDevice
<1>6. TryInv
  <2>1. Holding = {}
    BY <1>1, <1>2 DEF Holding
  <2>2. MaxBad \in Nat
    OBVIOUS
  <2> QED BY <1>1, <2>1, <2>2, FS_EmptySet DEF TryInv
<1>7. NoteInv
  BY <1>1, <1>3 DEF NoteInv, NoPushToRevoked
<1> QED BY <1>4, <1>5, <1>6, <1>7 DEF DevInv

\* No request is under way when a quarter of an hour passes.
LEMMA QuarterKeepsTries ==
    ASSUME TryInv, Quarter
    PROVE  TryInv' /\ tries' \in Nat /\ wrong' \in Nat
<1>1. Holding' = {} /\ tries' = 0 /\ wrong' = 0
  BY DEF Quarter, Holding, At
<1>2. MaxBad \in Nat
  OBVIOUS
<1> QED BY <1>1, <1>2, FS_EmptySet DEF TryInv

LEMMA NextDevInv == DevInv /\ [Next]_vars => DevInv'
<1> SUFFICES ASSUME DevInv, [Next]_vars PROVE DevInv'
  OBVIOUS
<1> USE DEF DevInv
<1>1. CASE UNCHANGED vars
  <2>1. UNCHANGED <<devs, codes, req, note, paired, tries, wrong>>
    BY <1>1 DEF vars, pushVars, deviceVars
  <2>2. Types' /\ PairInv'
    BY <2>1 DEF Types, PairInv, UsedCodeHasItsDevice
  <2>3. TryInv'
    BY <2>1 DEF TryInv, Holding
  <2>4. NoteInv'
    BY <2>1 DEF NoteInv, NoPushToRevoked, Revoked
  <2> QED BY <2>2, <2>3, <2>4
<1>2. CASE Next
  <2>0. \/ \E c \in Codes : MakeCode(c)
        \/ \E s \in Slots : Step(s)
        \/ Quarter
    BY <1>2 DEF Next
  <2>1. PairMoves
    BY <2>0, NextPairMoves
  <2>2. NotesMove
    BY <2>0, NextNoteMoves
  <2>3. PairInv' /\ paired' \in [Devices -> Codes \cup {NoCode}]
    BY <2>1, MovesKeepPairs
  <2>4. NoteInv'
    BY <2>1, <2>2, MovesKeepNotes
  <2>5. req' \in [Slots -> ReqType] /\ TryInv' /\ tries' \in Nat /\ wrong' \in Nat
    <3>1. ASSUME NEW c \in Codes, MakeCode(c)
          PROVE  UNCHANGED <<req, tries, wrong>>
      BY <3>1 DEF MakeCode
    <3>2. CASE UNCHANGED <<req, tries, wrong>>
      BY <3>2 DEF Types, TryInv, Holding
    <3>3. CASE Quarter
      <4>1. UNCHANGED req
        BY <3>3 DEF Quarter
      <4> QED BY <3>3, <4>1, QuarterKeepsTries DEF Types
    <3>4. ASSUME NEW s \in Slots, Step(s)
          PROVE  /\ req' \in [Slots -> ReqType] /\ TryInv'
                 /\ tries' \in Nat /\ wrong' \in Nat
      BY <3>4, StepCounts, StepKeepsTries
    <3> QED BY <2>0, <3>1, <3>2, <3>3, <3>4
  <2>6. Types'
    BY <2>1, <2>2, <2>3, <2>5 DEF Types, PairMoves, NotesMove
  <2> QED BY <2>3, <2>4, <2>5, <2>6
<1> QED BY <1>1, <1>2

LEMMA DevInvariant == Spec => []DevInv
BY InitDevInv, NextDevInv, PTL DEF Spec

----------------------------------------------------------------------------
\* A code makes one device, whoever exchanges it at the same time, and a
\* code that is used made one: exchangePairCode's batch is done or not done,
\* whatever fails or is killed around it.
THEOREM ACodeMakesOneDevice == Spec => []UsedCodeHasItsDevice
BY DevInvariant, PTL DEF DevInv, PairInv

\* However many requests try codes at the same time, no more than MaxBad
\* wrong ones are looked up in a quarter of an hour: consumeBadAttempt's row
\* is there before the code is looked up, and a request that gives its row
\* back (releaseAttempt) gives back its own.
THEOREM WrongCodesAreLimited == Spec => []TriesAreLimited
<1>1. DevInv => TriesAreLimited
  <2> SUFFICES ASSUME DevInv PROVE wrong <= MaxBad
    BY DEF TriesAreLimited
  <2>1. /\ IsFiniteSet(Holding) /\ wrong + Cardinality(Holding) <= tries
        /\ tries <= MaxBad /\ tries \in Nat /\ wrong \in Nat
    BY DEF DevInv, TryInv, Types
  <2>2. Cardinality(Holding) \in Nat /\ MaxBad \in Nat
    BY <2>1, FS_CardinalityType
  <2> HIDE DEF Holding
  <2> QED BY <2>1, <2>2
<1> QED BY <1>1, DevInvariant, PTL

\* No push goes to a device that was revoked before the push was asked for,
\* whichever requests subscribe, pair or revoke while the subscriptions are
\* read and sent to (sendPush, liveSubscriptions).
THEOREM TheRevokedGetNothing == Spec => []NoPushToRevoked
BY DevInvariant, PTL DEF DevInv, NoteInv

=============================================================================
