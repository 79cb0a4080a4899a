----------------------------- MODULE Relay_proofs -----------------------------
(***************************************************************************)
(* Proofs about Relay, for any number of requests at a time, of writes and *)
(* of failures: a phone never sees an older state after a newer one, it    *)
(* sees the end of a run whose sending did not fail, and a run that has    *)
(* fallen silent is told of once.                                          *)
(***************************************************************************)
EXTENDS Relay, TLAPS

USE RelayAssumption

\* A silence that the cron has read is one of a run that goes on.
ReadInv ==
    \A s \in Slots : At(s, "claim") =>
        /\ req[s].row.age = 1 /\ ~req[s].row.stale
        /\ req[s].row.state.kind # "end"

\* A call that sends has somebody to send to, or has tried.
CallInv ==
    \A s \in Slots :
        /\ note[s].pc = "claim" => note[s].left # {}
        /\ note[s].pc = "send" => note[s].left # {} \/ note[s].ok \/ note[s].err
        /\ note[s].pc \in {"read", "claim", "skipped", "failed"} => ~note[s].ok

\* One run of the cron tells of a silence, and told says whether it has.
CronInv ==
    /\ \A s \in Slots : At(s, "cron") =>
          /\ ~req[s].row.stale
          /\ row = Marked(s) \/ (~row.stale /\ row.age = 0)
          /\ row = Marked(s) =>
                (told = "one" <=> note[s].pc = "sent" \/ note[s].ok)
    /\ \A s, q \in Slots : At(s, "cron") /\ At(q, "cron") => s = q
    /\ told = "one" => row.stale
    /\ SilenceIsTold

\* No state is newer than the one of the file, and one that is as new is it.
NewestInv ==
    /\ disk.at >= 1 /\ sent <= disk.at
    /\ row.state.at <= disk.at /\ (row.state.at = disk.at => row.state = disk)
    /\ \A s \in Slots : /\ req[s].state.at <= disk.at
                        /\ req[s].state.at = disk.at => req[s].state = disk
    /\ \A t \in Threads : send[t].sig <= disk.at

\* A thread waits for one request, which carries at least what the thread will
\* remember as sent.
SendInv ==
    /\ \A s \in Slots : req[s].by \in Threads =>
          /\ At(s, "post") \/ At(s, "push")
          /\ send[req[s].by].pc = "wait"
          /\ send[req[s].by].sig <= req[s].state.at
    /\ \A s, q \in Slots : req[s].by = req[q].by /\ req[s].by \in Threads => s = q
    /\ \A s \in Slots : At(s, "push") => req[s].state.at <= row.state.at

\* What is remembered as sent has arrived, unless its sending failed; and a
\* process leaves with all of it sent.
FinalInv ==
    /\ owner \in {"leaving", "left"} => disk.kind = "end"
    /\ send["flush"].pc # "off" => owner = "leaving" /\ send["flush"].sig = disk.at
    /\ calm /\ sent = disk.at => row.state = disk
    /\ calm /\ owner \in {"left", "gone"} => row.state = disk

----------------------------------------------------------------------------
(* Types.                                                                  *)

ReqPCs == {"off", "post", "push", "poll", "claim", "cron"}
ReqType == [pc : ReqPCs, by : Threads \cup {Nobody}, state : States, row : Rows,
            mark : MarkType]
SendType == [pc : {"off", "sig", "wait"}, sig : 0 .. MaxWrites]
NotePCs == {"off", "read", "claim", "send", "sent", "skipped", "failed"}
NoteType == [pc : NotePCs, reason : Reasons, left : SUBSET (Endpoints \X Devices),
             ok : BOOLEAN, err : BOOLEAN, gone : SUBSET Devices]
Owners == {"up", "leaving", "left", "gone"}
Tolds == {"none", "one", "two", "skipped"}

\* The types of the parts of the relay, by name.
Types ==
    /\ devs \in [Devices -> {"unknown", "live", "revoked"}]
    /\ subs \in [Endpoints -> [dev : Devices \cup {NoDevice}, dead : BOOLEAN]]
    /\ log \in [Reasons -> 0 .. Cooldown] /\ claim \in [Reasons -> 0 .. NoClaim]
    /\ note \in [Slots -> NoteType]
    /\ owner \in Owners /\ disk \in States
    /\ dirty \in BOOLEAN /\ busy \in BOOLEAN /\ sent \in 0 .. MaxWrites
    /\ send \in [Threads -> SendType]
    /\ row \in Rows /\ mark \in MarkType
    /\ last \in {"none", "alive", "dead"} /\ full \in BOOLEAN
    /\ req \in [Slots -> ReqType]
    /\ faults \in 0 .. MaxFaults /\ told \in Tolds
    /\ asked \in BOOLEAN /\ calm \in BOOLEAN /\ pulsed \in BOOLEAN

RelayInv ==
    Types /\ ReadInv /\ CallInv /\ CronInv /\ NewestInv /\ SendInv /\ FinalInv

LEMMA PartTypes == TypeOK <=> Types
BY DEF TypeOK, PushTypeOK, Types, NoteType, NotePCs, Owners, SendType, ReqType,
       ReqPCs, Tolds

LEMMA ConstantTypes ==
    /\ NoState \in States /\ NoRow \in Rows /\ NoMark \in MarkType
    /\ NoReq \in ReqType /\ NoReq.pc = "off" /\ NoReq.by = Nobody
    /\ NoSend \in SendType /\ NoSend.pc = "off" /\ NoSend.sig = 0
    /\ NoReq.state.at = 0 /\ Nobody \notin Threads
<1>1. NoState \in States /\ NoState.at = 0
  BY DEF NoState, States, Kinds
<1>2. NoRow \in Rows /\ NoMark \in MarkType
  BY <1>1 DEF NoRow, Rows, NoMark, MarkType
<1>3. NoSend \in SendType /\ NoSend.pc = "off" /\ NoSend.sig = 0
  BY DEF NoSend, SendType
<1>4. NoReq \in ReqType /\ NoReq.pc = "off" /\ NoReq.by = Nobody /\ NoReq.state.at = 0
  BY <1>1, <1>2 DEF NoReq, ReqType, ReqPCs
<1>5. Nobody \notin Threads
  BY DEF Nobody, Threads
<1> QED BY <1>1, <1>2, <1>3, <1>4, <1>5

LEMMA NoteTypes ==
    /\ NoNote \in NoteType /\ NoNote.pc = "off" /\ ~NoNote.ok
    /\ \A r \in Reasons : /\ Called(r) \in NoteType
                          /\ Called(r).pc = "read" /\ ~Called(r).ok
<1>1. NoNote \in NoteType /\ NoNote.pc = "off" /\ ~NoNote.ok
  <2> DEFINE x == CHOOSE r \in Reasons : TRUE
  <2>0. x \in Reasons
    <3>1. <<"ask", FALSE>> \in Reasons
      OBVIOUS
    <3> QED BY <3>1
  <2>1. NoNote = [pc |-> "off", reason |-> x, left |-> {}, ok |-> FALSE,
                  err |-> FALSE, gone |-> {}]
    BY DEF NoNote
  <2> HIDE DEF x
  <2> QED BY <2>0, <2>1 DEF NoteType, NotePCs
<1>2. ASSUME NEW r \in Reasons
      PROVE  Called(r) \in NoteType /\ Called(r).pc = "read" /\ ~Called(r).ok
  <2> DEFINE g == Revoked
  <2>1. g \in SUBSET Devices
    BY DEF Revoked
  <2>2. Called(r) = [NoNote EXCEPT !.pc = "read", !.reason = r, !.gone = g]
    BY DEF Called
  <2> HIDE DEF g
  <2> QED BY <1>1, <2>1, <2>2 DEF NoteType, NotePCs
<1> QED BY <1>1, <1>2

\* A request moves, the others stay as they are.
LEMMA GetsFrame ==
    ASSUME Types, NEW s \in Slots, NEW r \in ReqType, Gets(s, r)
    PROVE  /\ req' \in [Slots -> ReqType] /\ req'[s] = r
           /\ \A q \in Slots \ {s} : req'[q] = req[q]
<1>1. req \in [Slots -> ReqType]
  BY DEF Types
<1> QED BY <1>1 DEF Gets

LEMMA EndsFrame ==
    ASSUME Types, NEW s \in Slots, Ends(s)
    PROVE  /\ req' \in [Slots -> ReqType] /\ req'[s] = NoReq
           /\ \A q \in Slots \ {s} : req'[q] = req[q]
BY ConstantTypes, GetsFrame DEF Ends

\* A thread is done with its request, or nobody waits for it.
LEMMA RepliesFrame ==
    ASSUME Types, NEW s \in Slots, Replies(s)
    PROVE  /\ req' \in [Slots -> ReqType] /\ req'[s] = NoReq
           /\ \A q \in Slots \ {s} : req'[q] = req[q]
           /\ send' \in [Threads -> SendType] /\ sent' \in 0 .. MaxWrites
           /\ busy' \in BOOLEAN /\ owner' \in Owners
<1>1. /\ req' \in [Slots -> ReqType] /\ req'[s] = NoReq
      /\ \A q \in Slots \ {s} : req'[q] = req[q]
  BY EndsFrame DEF Replies
<1>2. /\ send \in [Threads -> SendType] /\ sent \in 0 .. MaxWrites
      /\ busy \in BOOLEAN /\ owner \in Owners
  BY DEF Types
<1>3. CASE req[s].by \in Threads
  <2>1. \A t \in Threads : send[t].sig \in 0 .. MaxWrites
    BY <1>2 DEF SendType
  <2> QED BY <1>1, <1>2, <1>3, <2>1, ConstantTypes DEF Replies, SendOver, Remembered, Owners
<1>4. CASE req[s].by \notin Threads
  BY <1>1, <1>2, <1>4 DEF Replies
<1> QED BY <1>3, <1>4

\* What a step of the owner does.
LEMMA OwnerTypes ==
    ASSUME Types, (\E kind \in Kinds : Write(kind)) \/ Leave \/ Exit \/ Die \/ Resume
    PROVE  Types'
<1>0. /\ owner \in Owners /\ disk \in States /\ dirty \in BOOLEAN
      /\ req \in [Slots -> ReqType] /\ faults \in 0 .. MaxFaults
  BY DEF Types
<1> USE DEF pushVars, watchVars, history, Owners
<1>1. ASSUME NEW kind \in Kinds, Write(kind) PROVE Types'
  <2>1. disk' \in States
    BY <1>0, <1>1 DEF Write, States
  <2>2. dirty' \in BOOLEAN
    BY <1>0, <1>1 DEF Write
  <2> QED BY <1>1, <2>1, <2>2 DEF Types, Write
<1>2. CASE Leave
  BY <1>2 DEF Types, Leave
<1>3. ASSUME Gone, calm' \in BOOLEAN, faults' \in 0 .. MaxFaults PROVE Types'
  <2>1. send' \in [Threads -> SendType]
    BY <1>3, ConstantTypes DEF Gone
  <2>2. req' \in [Slots -> ReqType]
    BY <1>0, <1>3 DEF Gone, ReqType
  <2>3. /\ dirty' = FALSE /\ busy' = FALSE /\ pulsed' = FALSE
        /\ sent' = 0 /\ owner' = "gone"
        /\ UNCHANGED <<pushVars, disk, row, mark, watchVars, told, asked>>
    BY <1>3 DEF Gone
  <2>4. 0 \in 0 .. MaxWrites
    OBVIOUS
  <2> QED BY <1>3, <2>1, <2>2, <2>3, <2>4 DEF Types
<1>4. CASE Exit
  <2>1. calm' \in BOOLEAN /\ faults' \in 0 .. MaxFaults
    BY <1>4 DEF Types, Exit
  <2> QED BY <1>3, <1>4, <2>1 DEF Exit
<1>5. CASE Die
  <2>1. faults' \in 0 .. MaxFaults
    BY <1>0, <1>5 DEF Die, Fault
  <2> QED BY <1>3, <1>5, <2>1 DEF Die
<1>6. CASE Resume
  <2>1. disk' \in States
    BY <1>0, <1>6 DEF Resume, States, Kinds
  <2> QED BY <1>6, <2>1 DEF Types, Resume
<1> QED BY <1>1, <1>2, <1>4, <1>5, <1>6

\* What a request that fails does to what is known of the newest state.
LEMMA FaultTypes ==
    ASSUME Types, Fault
    PROVE  faults' \in 0 .. MaxFaults
<1>1. faults \in 0 .. MaxFaults
  BY DEF Types
<1> QED BY <1>1 DEF Fault

LEMMA BeginsTypes ==
    ASSUME Types, NEW t \in Threads, Begins(t)
    PROVE  send' \in [Threads -> SendType] /\ busy' \in BOOLEAN /\ dirty' \in BOOLEAN
<1>1. send \in [Threads -> SendType] /\ disk.at \in 0 .. MaxWrites
  BY DEF Types, States
<1> QED BY <1>1 DEF Begins, SendType

LEMMA SendOverTypes ==
    ASSUME Types, NEW t \in Threads, SendOver(t)
    PROVE  /\ send' \in [Threads -> SendType] /\ sent' \in 0 .. MaxWrites
           /\ busy' \in BOOLEAN /\ owner' \in Owners
<1>1. send \in [Threads -> SendType] /\ owner \in Owners
  BY DEF Types
<1>2. send[t].sig \in 0 .. MaxWrites
  BY <1>1 DEF SendType
<1> QED BY <1>1, <1>2, ConstantTypes DEF SendOver, Remembered, Owners

\* The request of a thread leaves.
LEMMA PostFrame ==
    ASSUME Types, NEW t \in Threads, NEW s \in Slots, Post(t, s)
    PROVE  /\ req' \in [Slots -> ReqType]
           /\ req'[s].pc = "post" /\ req'[s].by = t /\ req'[s].state = disk
           /\ \A q \in Slots \ {s} : req'[q] = req[q]
           /\ send' \in [Threads -> SendType]
           /\ send[t].pc = "sig"
           /\ send'[t].pc = "wait" /\ send'[t].sig = send[t].sig
           /\ \A u \in Threads \ {t} : send'[u] = send[u]
           /\ UNCHANGED <<pushVars, owner, disk, dirty, sent, busy, row, mark,
                          watchVars, faults, history>>
<1> DEFINE r == [NoReq EXCEPT !.pc = "post", !.by = t, !.state = disk]
           c == [send[t] EXCEPT !.pc = "wait"]
<1>0. /\ disk \in States /\ NoReq \in ReqType
      /\ send \in [Threads -> SendType] /\ send[t] \in SendType
  BY ConstantTypes DEF Types
<1>1. r \in ReqType /\ r.pc = "post" /\ r.by = t /\ r.state = disk
  BY <1>0 DEF ReqType, ReqPCs
<1>2. /\ Gets(s, r) /\ send[t].pc = "sig" /\ send' = [send EXCEPT ![t] = c]
      /\ UNCHANGED <<pushVars, owner, disk, dirty, sent, busy, row, mark,
                     watchVars, faults, history>>
  BY DEF Post
<1>3. c \in SendType /\ c.pc = "wait" /\ c.sig = send[t].sig
  BY <1>0 DEF SendType
<1>4. /\ req' \in [Slots -> ReqType] /\ req'[s] = r
      /\ \A q \in Slots \ {s} : req'[q] = req[q]
  <2> HIDE DEF r
  <2> QED BY <1>1, <1>2, GetsFrame
<1>5. /\ send' \in [Threads -> SendType] /\ send'[t] = c
      /\ \A u \in Threads \ {t} : send'[u] = send[u]
  <2> HIDE DEF c
  <2> QED BY <1>0, <1>2, <1>3
<1> QED BY <1>1, <1>2, <1>3, <1>4, <1>5

\* A thread does not wait any more for its request, which may arrive yet.
LEMMA TimesOutFrame ==
    ASSUME Types, NEW t \in Threads, NEW s \in Slots, TimesOut(t, s)
    PROVE  /\ req' \in [Slots -> ReqType]
           /\ req'[s].pc = req[s].pc /\ req'[s].by = Nobody
           /\ req'[s].state = req[s].state /\ req'[s].row = req[s].row
           /\ \A q \in Slots \ {s} : req'[q] = req[q]
<1> DEFINE r == [req[s] EXCEPT !.by = Nobody]
<1>0. req[s] \in ReqType
  BY DEF Types
<1>1. /\ r \in ReqType /\ r.pc = req[s].pc /\ r.by = Nobody
      /\ r.state = req[s].state /\ r.row = req[s].row
  BY <1>0 DEF ReqType
<1>2. Gets(s, r)
  BY DEF TimesOut
<1> HIDE DEF r
<1> QED BY <1>1, <1>2, GetsFrame

LEMMA PusherTypes ==
    ASSUME Types,
           Loop \/ Pulse \/ Flush
             \/ (\E t \in Threads, s \in Slots : Post(t, s) \/ TimesOut(t, s))
    PROVE  Types'
<1>0. /\ owner \in Owners /\ disk \in States /\ calm \in BOOLEAN
      /\ req \in [Slots -> ReqType] /\ send \in [Threads -> SendType]
  BY DEF Types
<1> USE DEF pushVars, watchVars, history
<1>1. CASE Loop
  <2>1. send' \in [Threads -> SendType] /\ busy' \in BOOLEAN /\ dirty' \in BOOLEAN
    BY <1>1, BeginsTypes DEF Loop, Threads
  <2> QED BY <1>1, <2>1 DEF Types, Loop
<1>2. CASE Pulse
  <2>1. send' \in [Threads -> SendType] /\ busy' \in BOOLEAN /\ dirty' \in BOOLEAN
    BY <1>2, BeginsTypes DEF Pulse, Threads
  <2> QED BY <1>2, <2>1 DEF Types, Pulse
<1>3. CASE Flush
  <2>1. /\ send' \in [Threads -> SendType] /\ busy' \in BOOLEAN /\ dirty' \in BOOLEAN
        /\ owner' \in Owners
    <3>1. CASE Unsent
      BY <1>0, <1>3, <3>1, BeginsTypes DEF Flush, Threads
    <3>2. CASE ~Unsent
      BY <1>3, <3>2 DEF Types, Flush, Owners
    <3> QED BY <3>1, <3>2
  <2>2. faults' \in 0 .. MaxFaults
    BY <1>3, FaultTypes DEF Types, Flush
  <2> QED BY <1>3, <2>1, <2>2 DEF Types, Flush
<1>4. ASSUME NEW t \in Threads, NEW s \in Slots, Post(t, s) PROVE Types'
  <2>1. /\ req' \in [Slots -> ReqType] /\ send' \in [Threads -> SendType]
        /\ UNCHANGED <<pushVars, owner, disk, dirty, sent, busy, row, mark,
                       watchVars, faults, history>>
    BY <1>4, PostFrame
  <2> QED BY <2>1 DEF Types
<1>5. ASSUME NEW t \in Threads, NEW s \in Slots, TimesOut(t, s) PROVE Types'
  <2>1. req' \in [Slots -> ReqType]
    BY <1>5, TimesOutFrame
  <2>2. /\ send' \in [Threads -> SendType] /\ sent' \in 0 .. MaxWrites
        /\ busy' \in BOOLEAN /\ owner' \in Owners
    BY <1>5, SendOverTypes DEF TimesOut
  <2>3. faults' \in 0 .. MaxFaults /\ calm' \in BOOLEAN
    BY <1>0, <1>5, FaultTypes DEF TimesOut, FailsWith
  <2> QED BY <1>5, <2>1, <2>2, <2>3 DEF Types, TimesOut
<1> QED BY <1>1, <1>2, <1>3, <1>4, <1>5

\* The call of notify of a request begins, ends or takes a step.
LEMMA NoteFrame ==
    ASSUME Types, NEW s \in Slots, NEW c \in NoteType,
           note' = [note EXCEPT ![s] = c]
    PROVE  /\ note' \in [Slots -> NoteType] /\ note'[s] = c
           /\ \A q \in Slots \ {s} : note'[q] = note[q]
<1>1. note \in [Slots -> NoteType]
  BY DEF Types
<1> QED BY <1>1

LEMMA OverFrame ==
    ASSUME Types, NEW s \in Slots, NEW result \in NotePCs, Over(s, result)
    PROVE  /\ note' \in [Slots -> NoteType]
           /\ note'[s].pc = result /\ ~note'[s].ok
           /\ \A q \in Slots \ {s} : note'[q] = note[q]
<1> DEFINE c == [NoNote EXCEPT !.pc = result]
<1>1. c \in NoteType /\ c.pc = result /\ ~c.ok
  BY NoteTypes DEF NoteType
<1>2. note' = [note EXCEPT ![s] = c]
  BY DEF Over
<1> HIDE DEF c
<1> QED BY <1>1, <1>2, NoteFrame

LEMMA StartsFrame ==
    ASSUME Types, NEW s \in Slots, NEW pc \in ReqPCs, NEW reason \in Reasons,
           Starts(s, pc, reason)
    PROVE  /\ req' \in [Slots -> ReqType]
           /\ req'[s].pc = pc /\ req'[s].by = req[s].by
           /\ req'[s].state = req[s].state /\ req'[s].row = req[s].row
           /\ \A q \in Slots \ {s} : req'[q] = req[q]
           /\ note' \in [Slots -> NoteType] /\ note'[s].pc = "read" /\ ~note'[s].ok
           /\ \A q \in Slots \ {s} : note'[q] = note[q]
<1> DEFINE r == [req[s] EXCEPT !.pc = pc]
           c == Called(reason)
<1>1. req[s] \in ReqType
  BY DEF Types
<1>2. /\ r \in ReqType /\ r.pc = pc /\ r.by = req[s].by
      /\ r.state = req[s].state /\ r.row = req[s].row
  BY <1>1 DEF ReqType
<1>3. c \in NoteType /\ c.pc = "read" /\ ~c.ok
  BY NoteTypes
<1>4. Gets(s, r) /\ note' = [note EXCEPT ![s] = c]
  BY DEF Starts
<1>5. /\ req' \in [Slots -> ReqType] /\ req'[s] = r
      /\ \A q \in Slots \ {s} : req'[q] = req[q]
  <2> HIDE DEF r
  <2> QED BY <1>2, <1>4, GetsFrame
<1>6. /\ note' \in [Slots -> NoteType] /\ note'[s] = c
      /\ \A q \in Slots \ {s} : note'[q] = note[q]
  <2> HIDE DEF c
  <2> QED BY <1>3, <1>4, NoteFrame
<1> QED BY <1>2, <1>3, <1>5, <1>6

\* A reader of the row begins: the cron, or a poll that is late.
LEMMA ReadsFrame ==
    ASSUME Types, NEW s \in Slots, CronReads(s) \/ CycleFails(s)
    PROVE  /\ req' \in [Slots -> ReqType]
           /\ CronReads(s) => req'[s].pc = "claim" /\ req'[s].row = row
           /\ CycleFails(s) => req'[s].pc = "poll"
           /\ req'[s].by = Nobody /\ req'[s].state = NoState
           /\ req'[s].row = row
           /\ \A q \in Slots \ {s} : req'[q] = req[q]
<1>0. /\ NoReq \in ReqType /\ NoReq.by = Nobody /\ NoReq.state = NoState
      /\ row \in Rows
  BY ConstantTypes DEF NoReq, Types
<1>1. CASE CronReads(s)
  <2> DEFINE r == [NoReq EXCEPT !.pc = "claim", !.row = row]
  <2>1. /\ r \in ReqType /\ r.pc = "claim" /\ r.by = Nobody /\ r.state = NoState
        /\ r.row = row
    BY <1>0 DEF ReqType, ReqPCs
  <2>2. Gets(s, r)
    BY <1>1 DEF CronReads
  <2>3. /\ req' \in [Slots -> ReqType] /\ req'[s] = r
        /\ \A q \in Slots \ {s} : req'[q] = req[q]
    <3> HIDE DEF r
    <3> QED BY <2>1, <2>2, GetsFrame
  <2>4. ~CycleFails(s)
    <3>1. UNCHANGED faults /\ faults \in Nat
      BY <1>1 DEF CronReads, Types
    <3> QED BY <3>1 DEF CycleFails, Fault
  <2> QED BY <2>1, <2>3, <2>4
<1>2. CASE CycleFails(s)
  <2> DEFINE m == Collected
             r == [NoReq EXCEPT !.pc = "poll", !.mark = m, !.row = row]
  <2>0. m \in MarkType
    BY DEF Collected, MarkType, Alive
  <2>1. Gets(s, r)
    BY <1>2 DEF CycleFails
  <2> HIDE DEF m
  <2>2. /\ r \in ReqType /\ r.pc = "poll" /\ r.by = Nobody /\ r.state = NoState
        /\ r.row = row
    BY <1>0, <2>0 DEF ReqType, ReqPCs
  <2>3. /\ req' \in [Slots -> ReqType] /\ req'[s] = r
        /\ \A q \in Slots \ {s} : req'[q] = req[q]
    <3> HIDE DEF r
    <3> QED BY <2>1, <2>2, GetsFrame
  <2>4. ~CronReads(s)
    <3>1. faults' # faults
      BY <1>2 DEF CycleFails, Fault, Types
    <3> QED BY <3>1 DEF CronReads
  <2> QED BY <2>2, <2>3, <2>4
<1> QED BY <1>1, <1>2

\* postState: the row is the state of the request, or was not older.
LEMMA PostStateTypes ==
    ASSUME Types, NEW s \in Slots, PostState(s)
    PROVE  Types'
<1>0. /\ req[s] \in ReqType /\ req[s].state \in States /\ row \in Rows
      /\ mark \in MarkType /\ told \in Tolds
  BY DEF Types, ReqType
<1>1. row' \in Rows /\ mark' \in MarkType /\ told' \in Tolds
  <2>1. CASE Newer(req[s].state)
    <3>1. /\ row' = [state |-> req[s].state, stale |-> FALSE, age |-> 0]
          /\ mark' = [mark EXCEPT !.fresh = FALSE] /\ told' = "none"
      BY <2>1 DEF PostState
    <3>2. row' \in Rows
      BY <1>0, <3>1 DEF Rows
    <3>3. mark' \in MarkType
      BY <1>0, <3>1 DEF MarkType
    <3> QED BY <3>1, <3>2, <3>3 DEF Tolds
  <2>2. CASE ~Newer(req[s].state)
    BY <1>0, <2>2 DEF PostState
  <2> QED BY <2>1, <2>2
<1>2. CASE Replies(s) /\ UNCHANGED note
  <2>1. UNCHANGED <<devs, subs, log, claim, disk, dirty, watchVars, faults,
                    asked, calm, pulsed>>
    BY DEF PostState
  <2> QED BY <1>1, <1>2, <2>1, RepliesFrame DEF Types, watchVars
<1>3. CASE /\ req[s].state.kind # "run"
           /\ Starts(s, "push", <<req[s].state.kind, FALSE>>)
           /\ UNCHANGED <<send, sent, busy, owner>>
  <2>1. <<req[s].state.kind, FALSE>> \in Reasons
    BY <1>0, <1>3 DEF States, Kinds
  <2>2. req' \in [Slots -> ReqType] /\ note' \in [Slots -> NoteType]
    BY <1>3, <2>1, StartsFrame DEF ReqPCs
  <2>3. UNCHANGED <<devs, subs, log, claim, disk, dirty, watchVars, faults,
                    asked, calm, pulsed>>
    BY DEF PostState
  <2> QED BY <1>1, <1>3, <2>2, <2>3 DEF Types, watchVars
<1> QED BY <1>2, <1>3 DEF PostState

\* The ends of the two clocks.
LEMMA ClockTypes ==
    0 \in 0 .. NoClaim /\ NoClaim \in 0 .. NoClaim /\ 0 \in 0 .. Cooldown
BY DEF NoClaim, Cooldown

\* What the statements of a call do to it.
LEMMA NoteStepMoves ==
    ASSUME Types, CallInv, NEW s \in Slots, NoteStep(s)
    PROVE  /\ note' \in [Slots -> NoteType] /\ claim' \in [Reasons -> 0 .. NoClaim]
           /\ UNCHANGED <<devs, subs, log>>
           /\ \A q \in Slots \ {s} : note'[q] = note[q]
           /\ \/ /\ note'[s].pc \in {"claim", "send"} /\ note'[s].left # {}
                 /\ ~note[s].ok /\ ~note'[s].ok /\ note[s].pc # "sent"
              \/ /\ note'[s].pc \in {"skipped", "failed"}
                 /\ ~note[s].ok /\ ~note'[s].ok /\ note[s].pc # "sent"
              \/ note'[s].pc = "sent" /\ note[s].ok
<1>0. /\ note \in [Slots -> NoteType] /\ note[s] \in NoteType
      /\ claim \in [Reasons -> 0 .. NoClaim]
      /\ subs \in [Endpoints -> [dev : Devices \cup {NoDevice}, dead : BOOLEAN]]
  BY DEF Types
<1>1. CASE Read(s)
  <2>0. note[s].pc = "read" /\ ~note[s].ok /\ UNCHANGED <<devs, subs, log, claim>>
    BY <1>1 DEF Read, CallInv
  <2>1. CASE Over(s, "skipped")
    BY <1>0, <2>0, <2>1, OverFrame DEF NotePCs
  <2>2. CASE LiveSubs # {} /\ note' = [note EXCEPT ![s].pc = "claim", ![s].left = LiveSubs]
    <3> DEFINE L == LiveSubs
               c == [note[s] EXCEPT !.pc = "claim", !.left = L]
    <3>1. L \in SUBSET (Endpoints \X Devices) /\ L # {}
      BY <1>0, <2>2 DEF LiveSubs, LiveSub, IsLive
    <3>2. note' = [note EXCEPT ![s] = c]
      BY <1>0, <2>2
    <3> HIDE DEF L
    <3>3. c \in NoteType /\ c.pc = "claim" /\ c.left = L /\ c.ok = note[s].ok
      BY <1>0, <3>1 DEF NoteType, NotePCs
    <3>4. note' \in [Slots -> NoteType] /\ note'[s] = c
          /\ \A q \in Slots \ {s} : note'[q] = note[q]
      <4> HIDE DEF c
      <4> QED BY <3>2, <3>3, NoteFrame
    <3> QED BY <1>0, <2>0, <3>1, <3>3, <3>4
  <2> QED BY <1>1, <2>1, <2>2 DEF Read
<1>2. CASE Claim(s)
  <2>0. /\ note[s].pc = "claim" /\ ~note[s].ok /\ note[s].left # {}
        /\ UNCHANGED <<devs, subs, log>>
    BY <1>2 DEF Claim, CallInv
  <2>1. CASE Over(s, "skipped") /\ UNCHANGED claim
    BY <1>0, <2>0, <2>1, OverFrame DEF NotePCs
  <2>2. CASE /\ note' = [note EXCEPT ![s].pc = "send"]
             /\ claim' = [claim EXCEPT ![note[s].reason] = 0]
    <3> DEFINE c == [note[s] EXCEPT !.pc = "send"]
    <3>2. note' = [note EXCEPT ![s] = c]
      BY <1>0, <2>2
    <3>3. c \in NoteType /\ c.pc = "send" /\ c.left = note[s].left /\ c.ok = note[s].ok
      BY <1>0 DEF NoteType, NotePCs
    <3>4. note' \in [Slots -> NoteType] /\ note'[s] = c
          /\ \A q \in Slots \ {s} : note'[q] = note[q]
      <4> HIDE DEF c
      <4> QED BY <3>2, <3>3, NoteFrame
    <3>5. claim' \in [Reasons -> 0 .. NoClaim]
      BY <1>0, <2>2, ClockTypes
    <3> QED BY <2>0, <3>3, <3>4, <3>5
  <2> QED BY <1>2, <2>1, <2>2 DEF Claim
<1>3. CASE Sent(s)
  <2> DEFINE result == IF ~note[s].ok /\ note[s].err THEN "failed" ELSE "sent"
  <2>1. /\ note[s].pc = "send" /\ note[s].left = {} /\ Over(s, result)
        /\ claim' = [claim EXCEPT ![note[s].reason] = NoClaim]
        /\ UNCHANGED <<devs, subs, log>>
    BY <1>3 DEF Sent
  <2>2. note[s].ok \/ note[s].err
    BY <2>1 DEF CallInv
  <2>3. claim' \in [Reasons -> 0 .. NoClaim]
    BY <1>0, <2>1, ClockTypes
  <2>4. /\ note' \in [Slots -> NoteType]
        /\ note'[s].pc = result /\ ~note'[s].ok
        /\ \A q \in Slots \ {s} : note'[q] = note[q]
    <3>1. result \in NotePCs
      BY DEF NotePCs
    <3> HIDE DEF result
    <3> QED BY <2>1, <3>1, OverFrame
  <2> QED BY <2>1, <2>2, <2>3, <2>4
<1> QED BY <1>1, <1>2, <1>3 DEF NoteStep

\* What a delivery does to its call.
LEMMA SendMoves ==
    ASSUME Types, NEW s \in Slots, NEW to \in note[s].left,
           NEW outcome \in {"ok", "error"}, Send(s, to, outcome)
    PROVE  /\ note' \in [Slots -> NoteType] /\ log' \in [Reasons -> 0 .. Cooldown]
           /\ UNCHANGED <<devs, subs, claim>>
           /\ \A q \in Slots \ {s} : note'[q] = note[q]
           /\ note[s].pc = "send" /\ note'[s].pc = "send"
           /\ note'[s].ok \/ note'[s].err
           /\ note'[s].ok <=> note[s].ok \/ outcome = "ok"
<1>0. /\ note \in [Slots -> NoteType] /\ note[s] \in NoteType
      /\ log \in [Reasons -> 0 .. Cooldown]
  BY DEF Types
<1> DEFINE c == [note[s] EXCEPT !.left = @ \ {to}, !.ok = @ \/ outcome = "ok",
                                !.err = @ \/ outcome = "error"]
<1>1. /\ note[s].pc = "send" /\ UNCHANGED <<devs, subs, claim>>
      /\ log' = IF outcome = "ok" THEN [log EXCEPT ![note[s].reason] = 0] ELSE log
      /\ note' = [note EXCEPT ![s] = c]
  BY <1>0 DEF Send
<1>2. /\ c \in NoteType /\ c.pc = note[s].pc
      /\ c.ok = (note[s].ok \/ outcome = "ok")
      /\ c.err = (note[s].err \/ outcome = "error")
  BY <1>0 DEF NoteType, NotePCs
<1>3. log' \in [Reasons -> 0 .. Cooldown]
  BY <1>0, <1>1, ClockTypes
<1>4. /\ note' \in [Slots -> NoteType] /\ note'[s] = c
      /\ \A q \in Slots \ {s} : note'[q] = note[q]
  <2> HIDE DEF c
  <2> QED BY <1>1, <1>2, NoteFrame
<1> QED BY <1>1, <1>2, <1>3, <1>4

\* A mark is taken back, or stays.
LEMMA MarkedTypes ==
    ASSUME Types, NEW s \in Slots
    PROVE  /\ Marked(s) \in Rows /\ Marked(s).stale = TRUE
           /\ Marked(s).state = req[s].row.state
           /\ req[s].row \in Rows /\ req[s].row.state \in States
<1>1. req[s] \in ReqType
  BY DEF Types
<1>2. req[s].row \in Rows
  BY <1>1 DEF ReqType
<1> QED BY <1>2 DEF Marked, Rows

LEMMA CronTypes ==
    ASSUME Types, ReadInv, NEW s \in Slots,
           CronReads(s) \/ CronClaims(s) \/ CronTold(s)
    PROVE  Types'
<1> USE DEF pushVars, ownerVars, watchVars, history
<1>1. CASE CronReads(s)
  <2>1. req' \in [Slots -> ReqType]
    BY <1>1, ReadsFrame
  <2>2. UNCHANGED <<pushVars, ownerVars, row, mark, watchVars, faults, history>>
    BY <1>1 DEF CronReads
  <2> QED BY <2>1, <2>2 DEF Types
<1>2. CASE CronClaims(s)
  <2>0. UNCHANGED <<devs, subs, log, claim, ownerVars, mark, watchVars, faults, history>>
    BY <1>2 DEF CronClaims
  <2>1. CASE Ends(s) /\ UNCHANGED <<row, note>>
    BY <2>0, <2>1, EndsFrame DEF Types
  <2>2. CASE row' = Marked(s) /\ Starts(s, "cron", <<req[s].row.state.kind, TRUE>>)
    <3>1. <<req[s].row.state.kind, TRUE>> \in Reasons
      <4>1. req[s].row.state.kind \in {"run", "ask"}
        BY <1>2, MarkedTypes DEF CronClaims, ReadInv, States, Kinds
      <4> QED BY <4>1
    <3>2. req' \in [Slots -> ReqType] /\ note' \in [Slots -> NoteType]
      BY <2>2, <3>1, StartsFrame DEF ReqPCs
    <3>3. row' \in Rows
      BY <2>2, MarkedTypes
    <3> QED BY <2>0, <3>2, <3>3 DEF Types
  <2> QED BY <1>2, <2>1, <2>2 DEF CronClaims
<1>3. CASE CronTold(s)
  <2>0. UNCHANGED <<devs, subs, log, claim, ownerVars, mark, watchVars, faults,
                    asked, calm, pulsed>>
    BY <1>3 DEF CronTold
  <2>1. row' \in Rows
    BY <1>3, MarkedTypes DEF CronTold, Types
  <2>2. told' \in Tolds
    BY <1>3 DEF CronTold, Types, Tolds
  <2>3. req' \in [Slots -> ReqType]
    BY <1>3, EndsFrame DEF CronTold
  <2>4. note' \in [Slots -> NoteType]
    BY <1>3, NoteTypes, NoteFrame DEF CronTold
  <2> QED BY <2>0, <2>1, <2>2, <2>3, <2>4 DEF Types
<1> QED BY <1>1, <1>2, <1>3

LEMMA WorkerTypes ==
    ASSUME Types, CallInv, NEW s \in Slots, Pushed(s) \/ NotePush(s) \/ Lose(s)
    PROVE  Types'
<1> USE DEF pushVars, ownerVars, watchVars, history
<1>1. CASE Pushed(s)
  <2>1. /\ req' \in [Slots -> ReqType] /\ send' \in [Threads -> SendType]
        /\ sent' \in 0 .. MaxWrites /\ busy' \in BOOLEAN /\ owner' \in Owners
    BY <1>1, RepliesFrame DEF Pushed
  <2>2. note' \in [Slots -> NoteType]
    BY <1>1, NoteTypes, NoteFrame DEF Pushed
  <2>3. UNCHANGED <<devs, subs, log, claim, disk, dirty, row, mark, watchVars,
                    faults, history>>
    BY <1>1 DEF Pushed
  <2> QED BY <2>1, <2>2, <2>3 DEF Types
<1>2. CASE NotePush(s)
  <2>0. UNCHANGED <<ownerVars, row, mark, req, watchVars>>
    BY <1>2 DEF NotePush
  <2>1. CASE NoteStep(s) /\ UNCHANGED <<faults, history>>
    <3>1. /\ note' \in [Slots -> NoteType] /\ claim' \in [Reasons -> 0 .. NoClaim]
          /\ UNCHANGED <<devs, subs, log>>
      BY <2>1, NoteStepMoves
    <3> QED BY <2>0, <2>1, <3>1 DEF Types
  <2>2. ASSUME NEW to \in note[s].left, Send(s, to, "ok"), told' \in Tolds,
               asked' \in BOOLEAN, UNCHANGED <<faults, calm, pulsed>>
        PROVE  Types'
    <3>1. /\ note' \in [Slots -> NoteType] /\ log' \in [Reasons -> 0 .. Cooldown]
          /\ UNCHANGED <<devs, subs, claim>>
      BY <2>2, SendMoves
    <3> QED BY <2>0, <2>2, <3>1 DEF Types
  <2>3. ASSUME NEW to \in note[s].left, Send(s, to, "error"), Fault, UNCHANGED history
        PROVE  Types'
    <3>1. /\ note' \in [Slots -> NoteType] /\ log' \in [Reasons -> 0 .. Cooldown]
          /\ UNCHANGED <<devs, subs, claim>>
      BY <2>3, SendMoves
    <3>2. faults' \in 0 .. MaxFaults
      BY <2>3, FaultTypes
    <3> QED BY <2>0, <2>3, <3>1, <3>2 DEF Types
  <2>4. told \in Tolds /\ asked \in BOOLEAN
    BY DEF Types
  <2>5. \A to \in note[s].left :
           (/\ Send(s, to, "ok")
            /\ told' = IF ~Tells(s) THEN told
                       ELSE IF told \in {"one", "two"} THEN "two" ELSE "one"
            /\ asked' = (asked \/ note[s].reason = <<"ask", FALSE>>)
            /\ UNCHANGED <<faults, calm, pulsed>>) => Types'
    BY <2>2, <2>4 DEF Tolds
  <2> QED BY <1>2, <2>1, <2>3, <2>5 DEF NotePush
<1>3. CASE Lose(s)
  <2>1. /\ req' \in [Slots -> ReqType] /\ send' \in [Threads -> SendType]
        /\ sent' \in 0 .. MaxWrites /\ busy' \in BOOLEAN /\ owner' \in Owners
    BY <1>3, RepliesFrame DEF Lose
  <2>2. note' \in [Slots -> NoteType]
    BY <1>3, NoteTypes, NoteFrame DEF Lose
  <2>3. UNCHANGED <<devs, subs, log, claim, disk, dirty, row, mark, watchVars,
                    asked, pulsed>>
    BY <1>3 DEF Lose
  <2>4. told' \in Tolds
    BY <1>3 DEF Lose, Types, Tolds
  <2>5. faults' \in 0 .. MaxFaults /\ calm' \in BOOLEAN
    BY <1>3, FaultTypes DEF Lose, FailsWith, Types
  <2> QED BY <2>1, <2>2, <2>3, <2>4, <2>5 DEF Types
<1> QED BY <1>1, <1>2, <1>3

LEMMA WatcherTypes ==
    ASSUME Types,
           Cycle \/ Quarter \/ (\E s \in Slots : CycleFails(s) \/ LatePoll(s))
    PROVE  Types'
<1> USE DEF pushVars, ownerVars, watchVars, history
<1>0. Collected \in MarkType
  BY DEF Collected, MarkType, Alive
<1>1. CASE Cycle
  <2>1. mark' \in MarkType
    BY <1>0, <1>1 DEF Cycle, Marks, Types
  <2>2. last' \in {"none", "alive", "dead"} /\ full' \in BOOLEAN
    BY <1>1 DEF Cycle, Word
  <2>3. UNCHANGED <<pushVars, ownerVars, row, req, faults, history>>
    BY <1>1 DEF Cycle
  <2> QED BY <2>1, <2>2, <2>3 DEF Types
<1>2. CASE Quarter
  <2>1. /\ log' = [r \in Reasons |-> IF log[r] < Cooldown THEN log[r] + 1 ELSE Cooldown]
        /\ claim' = [r \in Reasons |-> IF claim[r] < Cooldown THEN claim[r] + 1
                                       ELSE claim[r]]
    BY <1>2 DEF Quarter, PushAges
  <2>2. log' \in [Reasons -> 0 .. Cooldown] /\ claim' \in [Reasons -> 0 .. NoClaim]
    BY <2>1 DEF Types, Cooldown, NoClaim
  <2>3. row' \in Rows
    BY <1>2 DEF Quarter, Types, Rows
  <2>4. full' = TRUE /\ pulsed' = FALSE
    BY <1>2 DEF Quarter
  <2>5. UNCHANGED <<devs, subs, note, ownerVars, mark, req, last, faults, told,
                    asked, calm>>
    BY <1>2 DEF Quarter
  <2> QED BY <2>2, <2>3, <2>4, <2>5 DEF Types
<1>3. ASSUME NEW s \in Slots, CycleFails(s) PROVE Types'
  <2>1. req' \in [Slots -> ReqType]
    BY <1>3, ReadsFrame
  <2>2. faults' \in 0 .. MaxFaults
    BY <1>3, FaultTypes DEF CycleFails
  <2>3. UNCHANGED <<pushVars, ownerVars, row, mark, watchVars, history>>
    BY <1>3 DEF CycleFails
  <2> QED BY <2>1, <2>2, <2>3 DEF Types
<1>4. ASSUME NEW s \in Slots, LatePoll(s) PROVE Types'
  <2> DEFINE m == [req[s].mark EXCEPT !.fresh = (row.state = req[s].row.state)]
  <2>1. req[s].mark \in MarkType
    BY DEF Types, ReqType
  <2>2. m \in MarkType
    BY <2>1 DEF MarkType
  <2>3. mark' = Marks(m)
    BY <1>4 DEF LatePoll
  <2> HIDE DEF m
  <2>4. mark' \in MarkType
    BY <2>2, <2>3 DEF Marks, Types
  <2>5. req' \in [Slots -> ReqType]
    BY <1>4, EndsFrame DEF LatePoll
  <2>6. UNCHANGED <<pushVars, ownerVars, row, watchVars, faults, history>>
    BY <1>4 DEF LatePoll
  <2> QED BY <2>4, <2>5, <2>6 DEF Types
<1> QED BY <1>1, <1>2, <1>3, <1>4

LEMMA NextTypes ==
    ASSUME Types, ReadInv, CallInv, Next
    PROVE  Types'
BY OwnerTypes, PusherTypes, PostStateTypes, CronTypes, WorkerTypes, WatcherTypes DEF Next

----------------------------------------------------------------------------
(* Requests and calls.                                                     *)

\* What a step may do to a slot.
Silent(r) == r.age = 1 /\ ~r.stale /\ r.state.kind # "end"
SlotMoves(q) ==
    \/ req'[q] = req[q]
    \/ req'[q] = NoReq
    \/ /\ req'[q].pc = req[q].pc /\ req'[q].by = Nobody
       /\ req'[q].state = req[q].state /\ req'[q].row = req[q].row
    \/ /\ \/ req[q].pc = "post" /\ req'[q].pc = "push"
          \/ req[q].pc = "claim" /\ req'[q].pc = "cron"
       /\ req'[q].by = req[q].by
       /\ req'[q].state = req[q].state /\ req'[q].row = req[q].row
    \/ /\ req'[q].pc = "post" /\ req'[q].state = disk
       /\ req'[q].by \in Threads
    \/ /\ req'[q].pc = "poll" \/ (req'[q].pc = "claim" /\ Silent(req'[q].row))
       /\ req'[q].by = Nobody /\ req'[q].state = NoState

LEMMA NextSlots ==
    ASSUME Types, ReadInv, CallInv, Next
    PROVE  \A q \in Slots : SlotMoves(q)
<1> DEFINE All == \A q \in Slots : SlotMoves(q)
<1> USE DEF pushVars, ownerVars, watchVars, history, SlotMoves
<1>0. req \in [Slots -> ReqType]
  BY DEF Types
<1>1. CASE UNCHANGED req
  BY <1>1
<1>2. CASE Gone
  <2>1. \A q \in Slots : req'[q] = IF req[q].by \in Threads
                                   THEN [req[q] EXCEPT !.by = Nobody] ELSE req[q]
    BY <1>2 DEF Gone
  <2>2. ASSUME NEW q \in Slots PROVE SlotMoves(q)
    <3>1. req[q] \in ReqType
      BY <1>0
    <3> QED BY <2>1, <3>1 DEF ReqType
  <2> QED BY <2>2
<1>3. CASE (\E kind \in Kinds : Write(kind)) \/ Leave \/ Resume \/ Loop \/ Pulse
             \/ Flush \/ Cycle \/ Quarter
  BY <1>1, <1>3 DEF Write, Leave, Resume, Loop, Pulse, Flush, Cycle, Quarter
<1>4. ASSUME NEW t \in Threads, NEW s \in Slots, Post(t, s) PROVE All
  BY <1>4, PostFrame
<1>5. ASSUME NEW t \in Threads, NEW s \in Slots, TimesOut(t, s) PROVE All
  BY <1>5, TimesOutFrame
<1>6. ASSUME NEW s \in Slots, Replies(s) \/ Ends(s) PROVE All
  BY <1>6, RepliesFrame, EndsFrame
<1>7. ASSUME NEW s \in Slots, PostState(s) PROVE All
  <2>1. CASE Replies(s)
    BY <1>6, <2>1
  <2>2. CASE /\ req[s].state.kind # "run"
             /\ Starts(s, "push", <<req[s].state.kind, FALSE>>)
    <3>1. <<req[s].state.kind, FALSE>> \in Reasons
      <4>1. req[s].state \in States
        BY <1>0 DEF ReqType
      <4> QED BY <2>2, <4>1 DEF States, Kinds
    <3>2. req[s].pc = "post"
      BY <1>7 DEF PostState, At
    <3> QED BY <2>2, <3>1, <3>2, StartsFrame DEF ReqPCs
  <2> QED BY <1>7, <2>1, <2>2 DEF PostState
<1>8. ASSUME NEW s \in Slots, Pushed(s) \/ CronTold(s) \/ Lose(s) \/ LatePoll(s) PROVE All
  BY <1>6, <1>8 DEF Pushed, CronTold, Lose, LatePoll
<1>9. ASSUME NEW s \in Slots, NotePush(s) PROVE All
  BY <1>1, <1>9 DEF NotePush
<1>10. ASSUME NEW s \in Slots, CronReads(s) PROVE All
  <2>1. Silent(row)
    BY <1>10 DEF CronReads, Silent
  <2> QED BY <1>10, <2>1, ReadsFrame
<1>11. ASSUME NEW s \in Slots, CycleFails(s) PROVE All
  BY <1>11, ReadsFrame
<1>12. ASSUME NEW s \in Slots, CronClaims(s) PROVE All
  <2>1. CASE Ends(s)
    BY <1>6, <2>1
  <2>2. CASE Starts(s, "cron", <<req[s].row.state.kind, TRUE>>)
    <3>1. req[s].pc = "claim" /\ req[s].row.state.kind \in {"run", "ask"}
      BY <1>12, MarkedTypes DEF CronClaims, At, ReadInv, States, Kinds
    <3>2. <<req[s].row.state.kind, TRUE>> \in Reasons
      BY <3>1
    <3> QED BY <2>2, <3>1, <3>2, StartsFrame DEF ReqPCs
  <2> QED BY <1>12, <2>1, <2>2 DEF CronClaims
<1>13. CASE Exit \/ Die
  BY <1>2, <1>13 DEF Exit, Die
<1> QED BY <1>3, <1>4, <1>5, <1>7, <1>8, <1>9, <1>10, <1>11, <1>12, <1>13 DEF Next

LEMMA NextRead ==
    ASSUME Types, ReadInv, CallInv, Next
    PROVE  ReadInv'
<1>1. ASSUME NEW q \in Slots, req'[q].pc = "claim"
      PROVE  Silent(req'[q].row)
  BY <1>1, NextSlots, ConstantTypes DEF SlotMoves, ReadInv, At, Silent
<1> QED BY <1>1 DEF ReadInv, At, Silent

\* A call keeps to its sending, or is over, or begins.
CallOk(c) == /\ c.pc = "claim" => c.left # {}
             /\ c.pc = "send" => c.left # {} \/ c.ok \/ c.err
             /\ c.pc \in {"read", "claim", "skipped", "failed"} => ~c.ok

LEMMA NextCall ==
    ASSUME Types, ReadInv, CallInv, Next
    PROVE  CallInv'
<1> USE DEF pushVars, ownerVars, watchVars, history
<1>0. \A q \in Slots : CallOk(note[q])
  BY DEF CallInv, CallOk
<1> SUFFICES \A q \in Slots : CallOk(note'[q])
  BY DEF CallInv, CallOk
<1>1. CASE UNCHANGED note
  BY <1>0, <1>1
<1>2. CASE (\E kind \in Kinds : Write(kind)) \/ Leave \/ Resume \/ Loop \/ Pulse
             \/ Flush \/ Cycle \/ Quarter \/ Exit \/ Die
  BY <1>1, <1>2 DEF Write, Leave, Resume, Loop, Pulse, Flush, Cycle, Quarter,
                    Exit, Die, Gone
<1>3. ASSUME NEW t \in Threads, NEW s \in Slots, Post(t, s) \/ TimesOut(t, s)
      PROVE  UNCHANGED note
  BY <1>3, PostFrame DEF TimesOut
<1>4. ASSUME NEW s \in Slots, note' = [note EXCEPT ![s] = NoNote]
      PROVE  \A q \in Slots : CallOk(note'[q])
  <2>1. CallOk(NoNote)
    BY NoteTypes DEF CallOk
  <2> QED BY <1>0, <1>4, <2>1, NoteTypes, NoteFrame
<1>5. ASSUME NEW s \in Slots, Pushed(s) \/ CronTold(s) \/ Lose(s)
      PROVE  \A q \in Slots : CallOk(note'[q])
  BY <1>4, <1>5 DEF Pushed, CronTold, Lose
<1>6. ASSUME NEW s \in Slots, CronReads(s) \/ CycleFails(s) \/ LatePoll(s)
      PROVE  UNCHANGED note
  BY <1>6 DEF CronReads, CycleFails, LatePoll
<1>7. ASSUME NEW s \in Slots, PostState(s)
      PROVE  \A q \in Slots : CallOk(note'[q])
  <2>1. CASE /\ req[s].state.kind # "run"
             /\ Starts(s, "push", <<req[s].state.kind, FALSE>>)
    <3>1. <<req[s].state.kind, FALSE>> \in Reasons
      <4>1. req[s].state \in States
        BY DEF Types, ReqType
      <4> QED BY <2>1, <4>1 DEF States, Kinds
    <3> QED BY <1>0, <2>1, <3>1, StartsFrame DEF ReqPCs, CallOk
  <2> QED BY <1>1, <1>7, <2>1 DEF PostState
<1>8. ASSUME NEW s \in Slots, CronClaims(s)
      PROVE  \A q \in Slots : CallOk(note'[q])
  <2>1. CASE Starts(s, "cron", <<req[s].row.state.kind, TRUE>>)
    <3>1. req[s].row.state.kind \in {"run", "ask"}
      BY <1>8, MarkedTypes DEF CronClaims, At, ReadInv, States, Kinds
    <3>2. <<req[s].row.state.kind, TRUE>> \in Reasons
      BY <3>1
    <3> QED BY <1>0, <2>1, <3>2, StartsFrame DEF ReqPCs, CallOk
  <2> QED BY <1>1, <1>8, <2>1 DEF CronClaims
<1>9. ASSUME NEW s \in Slots, NotePush(s)
      PROVE  \A q \in Slots : CallOk(note'[q])
  <2>1. CASE NoteStep(s)
    BY <1>0, <2>1, NoteStepMoves DEF CallOk
  <2>2. ASSUME NEW to \in note[s].left, NEW outcome \in {"ok", "error"},
               Send(s, to, outcome)
        PROVE  \A q \in Slots : CallOk(note'[q])
    BY <1>0, <2>2, SendMoves DEF CallOk
  <2> QED BY <1>9, <2>1, <2>2 DEF NotePush
<1> QED BY <1>1, <1>2, <1>3, <1>5, <1>6, <1>7, <1>8, <1>9 DEF Next

----------------------------------------------------------------------------
(* The newest state.                                                       *)

\* The row keeps its state, or takes one that is not older.
RowMoves ==
    \/ row'.state = row.state
    \/ \E s \in Slots : /\ row'.state = req[s].state
                        /\ row.state.at <= req[s].state.at

LEMMA NextRow ==
    ASSUME Types, Next
    PROVE  RowMoves
<1> USE DEF pushVars, ownerVars, watchVars, history, RowMoves
<1>1. CASE UNCHANGED row
  BY <1>1
<1>2. CASE (\E kind \in Kinds : Write(kind)) \/ Leave \/ Resume \/ Loop \/ Pulse
             \/ Flush \/ Cycle \/ Exit \/ Die
  BY <1>1, <1>2 DEF Write, Leave, Resume, Loop, Pulse, Flush, Cycle, Exit, Die, Gone
<1>3. ASSUME NEW t \in Threads, NEW s \in Slots, Post(t, s) \/ TimesOut(t, s)
      PROVE  UNCHANGED row
  BY <1>3, PostFrame DEF TimesOut
<1>4. ASSUME NEW s \in Slots, Pushed(s) \/ Lose(s) \/ CronReads(s) \/ CycleFails(s)
                                \/ LatePoll(s) \/ NotePush(s)
      PROVE  UNCHANGED row
  BY <1>4 DEF Pushed, Lose, CronReads, CycleFails, LatePoll, NotePush
<1>5. ASSUME NEW s \in Slots, PostState(s) PROVE RowMoves
  <2>1. CASE ~Newer(req[s].state)
    BY <1>1, <1>5, <2>1 DEF PostState
  <2>2. CASE Newer(req[s].state)
    <3>1. row' = [state |-> req[s].state, stale |-> FALSE, age |-> 0]
      BY <1>5, <2>2 DEF PostState
    <3>2. row.state.at <= req[s].state.at
      <4>1. row.state \in States /\ req[s].state \in States
        BY DEF Types, Rows, ReqType
      <4> QED BY <2>2, <4>1 DEF Newer, States
    <3> QED BY <3>1, <3>2
  <2> QED BY <2>1, <2>2
<1>6. ASSUME NEW s \in Slots, CronClaims(s) \/ CronTold(s) PROVE row'.state = row.state
  BY <1>6, MarkedTypes DEF CronClaims, CronTold, Same, Restored
<1>7. CASE Quarter
  <2>1. row \in Rows
    BY DEF Types
  <2> QED BY <1>7, <2>1 DEF Quarter, Rows
<1> QED BY <1>1, <1>2, <1>3, <1>4, <1>5, <1>6, <1>7 DEF Next

\* What a step does to the threads and to what they remember.
ThreadMoves ==
    /\ \A t \in Threads : \/ send'[t].sig = send[t].sig
                          \/ send'[t].sig = 0
                          \/ send'[t].sig = disk.at
    /\ \/ sent' = sent \/ sent' = 0
       \/ \E t \in Threads : sent' = send[t].sig

LEMMA RepliesMoves ==
    ASSUME Types, NEW s \in Slots, Replies(s)
    PROVE  ThreadMoves
<1>1. send \in [Threads -> SendType]
  BY DEF Types
<1>2. CASE req[s].by \in Threads
  <2>1. SendOver(req[s].by)
    BY <1>2 DEF Replies
  <2> QED BY <1>1, <1>2, <2>1, ConstantTypes DEF SendOver, Remembered, ThreadMoves
<1>3. CASE req[s].by \notin Threads
  BY <1>3 DEF Replies, ThreadMoves
<1> QED BY <1>2, <1>3

LEMMA NextThreads ==
    ASSUME Types, Next
    PROVE  ThreadMoves /\ (disk' = disk \/ UNCHANGED <<row, req, send, sent>>)
<1> USE DEF pushVars, ownerVars, watchVars, history
<1>0. send \in [Threads -> SendType]
  BY DEF Types
<1>1. ASSUME UNCHANGED <<send, sent>> PROVE ThreadMoves
  BY <1>1 DEF ThreadMoves
<1>2. CASE (\E kind \in Kinds : Write(kind)) \/ Resume
  BY <1>1, <1>2 DEF Write, Resume
<1>3. CASE Leave \/ Cycle \/ Quarter
  BY <1>1, <1>3 DEF Leave, Cycle, Quarter
<1>4. CASE Exit \/ Die
  BY <1>4, ConstantTypes DEF Exit, Die, Gone, ThreadMoves
<1>5. ASSUME NEW t \in Threads, Begins(t), UNCHANGED sent PROVE ThreadMoves
  BY <1>0, <1>5 DEF Begins, ThreadMoves
<1>6. CASE Loop \/ Pulse \/ Flush
  <2>1. disk' = disk /\ UNCHANGED sent
    BY <1>6 DEF Loop, Pulse, Flush
  <2>2. UNCHANGED send \/ Begins("loop") \/ Begins("flush")
    BY <1>6 DEF Loop, Pulse, Flush
  <2> QED BY <1>1, <1>5, <2>1, <2>2 DEF Threads
<1>7. ASSUME NEW t \in Threads, NEW s \in Slots, Post(t, s)
      PROVE  ThreadMoves /\ disk' = disk
  BY <1>7, PostFrame DEF ThreadMoves
<1>8. ASSUME NEW t \in Threads, NEW s \in Slots, TimesOut(t, s)
      PROVE  ThreadMoves /\ disk' = disk
  BY <1>0, <1>8, ConstantTypes DEF TimesOut, SendOver, Remembered, ThreadMoves
<1>9. ASSUME NEW s \in Slots, Pushed(s) \/ Lose(s)
      PROVE  ThreadMoves /\ disk' = disk
  BY <1>9, RepliesMoves DEF Pushed, Lose
<1>10. ASSUME NEW s \in Slots, PostState(s)
       PROVE  ThreadMoves /\ disk' = disk
  <2>1. disk' = disk
    BY <1>10 DEF PostState
  <2>2. Replies(s) \/ UNCHANGED <<send, sent>>
    BY <1>10 DEF PostState
  <2> QED BY <1>1, <2>1, <2>2, RepliesMoves
<1>11. ASSUME NEW s \in Slots,
              CronReads(s) \/ CronClaims(s) \/ CronTold(s) \/ CycleFails(s)
                \/ LatePoll(s) \/ NotePush(s)
       PROVE  UNCHANGED <<send, sent, disk>>
  BY <1>11 DEF CronReads, CronClaims, CronTold, CycleFails, LatePoll, NotePush
<1> QED BY <1>1, <1>2, <1>3, <1>4, <1>6, <1>7, <1>8, <1>9, <1>10, <1>11 DEF Next

\* The file is written with a later time.
LEMMA NextDisk ==
    ASSUME Types, Next
    PROVE  disk' = disk \/ disk'.at = disk.at + 1
<1> USE DEF pushVars, ownerVars, watchVars, history
<1>1. CASE (\E kind \in Kinds : Write(kind)) \/ Resume
  BY <1>1 DEF Write, Resume
<1>2. CASE Leave \/ Exit \/ Die \/ Loop \/ Pulse \/ Flush \/ Cycle \/ Quarter
  BY <1>2 DEF Leave, Exit, Die, Gone, Loop, Pulse, Flush, Cycle, Quarter
<1>3. ASSUME NEW t \in Threads, NEW s \in Slots, Post(t, s) \/ TimesOut(t, s)
      PROVE  disk' = disk
  BY <1>3, PostFrame DEF TimesOut
<1>4. ASSUME NEW s \in Slots,
             \/ PostState(s) \/ Pushed(s) \/ NotePush(s) \/ Lose(s)
             \/ CronReads(s) \/ CronClaims(s) \/ CronTold(s)
             \/ CycleFails(s) \/ LatePoll(s)
      PROVE  disk' = disk
  BY <1>4 DEF PostState, Pushed, NotePush, Lose, CronReads, CronClaims, CronTold,
              CycleFails, LatePoll
<1> QED BY <1>1, <1>2, <1>3, <1>4 DEF Next

LEMMA NextNewest ==
    ASSUME Types, ReadInv, CallInv, NewestInv, Next
    PROVE  NewestInv'
<1>0. /\ disk.at \in Nat /\ row.state.at \in Nat /\ sent \in Nat
      /\ \A s \in Slots : req[s].state.at \in Nat
      /\ \A t \in Threads : send[t].sig \in Nat
  BY DEF Types, States, Rows, ReqType, SendType
<1>1. CASE disk' = disk
  <2>1. row'.state.at <= disk.at /\ (row'.state.at = disk.at => row'.state = disk)
    BY <1>0, NextRow DEF RowMoves, NewestInv
  <2>2. ASSUME NEW s \in Slots
        PROVE  req'[s].state.at <= disk.at /\ (req'[s].state.at = disk.at => req'[s].state = disk)
    <3>1. \/ req'[s].state = req[s].state \/ req'[s].state = disk
          \/ req'[s].state = NoState
      BY NextSlots DEF SlotMoves, NoReq
    <3> QED BY <1>0, <3>1 DEF NewestInv, NoState
  <2>3. sent' <= disk.at /\ \A t \in Threads : send'[t].sig <= disk.at
    BY <1>0, NextThreads DEF ThreadMoves, NewestInv
  <2> QED BY <1>1, <2>1, <2>2, <2>3 DEF NewestInv
<1>2. CASE disk' # disk
  <2>1. disk'.at = disk.at + 1 /\ UNCHANGED <<row, req, send, sent>>
    BY <1>2, NextDisk, NextThreads
  <2> QED BY <1>0, <2>1 DEF NewestInv
<1> QED BY <1>1, <1>2

----------------------------------------------------------------------------
(* The threads and their requests.                                         *)

\* A step that leaves the requests of the threads to them, or takes them away.
LEMMA KeptSends ==
    ASSUME Types, SendInv, RowMoves, Types',
           \A q \in Slots : \/ req'[q].by \notin Threads
                            \/ req'[q].by = req[q].by,
           \A q \in Slots : SlotMoves(q),
           \A q \in Slots : (req[q].pc # "push" /\ req'[q].pc = "push")
                               => req'[q].state.at <= row'.state.at,
           \A q \in Slots : req'[q].by \in Threads =>
               /\ send'[req'[q].by] = send[req'[q].by]
               /\ req'[q].pc \in {"post", "push"}
               /\ req'[q].state = req[q].state
    PROVE  SendInv'
<1>1. /\ row.state.at \in Nat /\ row'.state.at \in Nat
      /\ \A q \in Slots : req[q].state.at \in Nat /\ req'[q].state.at \in Nat
  BY DEF Types, States, Rows, ReqType
<1>2. row.state.at <= row'.state.at
  BY <1>1 DEF RowMoves
<1>3. ASSUME NEW q \in Slots PROVE req'[q].pc = "push" => req'[q].state.at <= row'.state.at
  <2>1. CASE req[q].pc # "push"
    BY <2>1
  <2>2. CASE req[q].pc = "push"
    <3>1. req[q].state.at <= row.state.at
      BY <2>2 DEF SendInv, At
    <3>2. req'[q].pc = "push" => req'[q].state = req[q].state
      BY <2>2, ConstantTypes DEF SlotMoves
    <3> QED BY <1>1, <1>2, <3>1, <3>2
  <2> QED BY <2>1, <2>2
<1>4. ASSUME NEW q \in Slots, req'[q].by \in Threads
      PROVE  /\ req'[q].pc \in {"post", "push"}
             /\ send'[req'[q].by].pc = "wait"
             /\ send'[req'[q].by].sig <= req'[q].state.at
  BY <1>4 DEF SendInv
<1>5. \A q, r \in Slots : req'[q].by = req'[r].by /\ req'[q].by \in Threads => q = r
  BY DEF SendInv
<1> QED BY <1>3, <1>4, <1>5 DEF SendInv, At

\* No thread waits for a slot that is none of its own.
LEMMA OthersSlots ==
    ASSUME Types, SendInv, NEW s \in Slots, req[s].pc \notin {"post", "push"}
    PROVE  req[s].by = Nobody
BY DEF Types, ReqType, SendInv, At

\* A request is over, for its thread too.
LEMMA RepliesSends ==
    ASSUME Types, SendInv, RowMoves, Types', \A q \in Slots : SlotMoves(q),
           NEW s \in Slots, Replies(s)
    PROVE  SendInv'
<1>0. send \in [Threads -> SendType]
  BY DEF Types
<1>1. req'[s] = NoReq /\ \A q \in Slots \ {s} : req'[q] = req[q]
  BY RepliesFrame
<1>2. ASSUME NEW q \in Slots, req'[q].by \in Threads
      PROVE  /\ q # s /\ req'[q] = req[q] /\ req[q].pc \in {"post", "push"}
             /\ send'[req[q].by] = send[req[q].by]
  <2>1. q # s /\ req'[q] = req[q] /\ req[q].by \in Threads
    BY <1>1, <1>2, ConstantTypes
  <2>2. req[q].pc \in {"post", "push"} /\ req[q].by # req[s].by
    BY <2>1 DEF SendInv, At
  <2>3. send'[req[q].by] = send[req[q].by]
    <3>1. CASE req[s].by \in Threads
      BY <1>0, <2>1, <2>2, <3>1 DEF Replies, SendOver
    <3>2. CASE req[s].by \notin Threads
      BY <3>2 DEF Replies
    <3> QED BY <3>1, <3>2
  <2> QED BY <2>1, <2>2, <2>3
<1>3. \A q \in Slots : req'[q].by \notin Threads \/ req'[q].by = req[q].by
  BY <1>2
<1>4. \A q \in Slots : ~(req[q].pc # "push" /\ req'[q].pc = "push")
  BY <1>1, ConstantTypes
<1> QED BY <1>2, <1>3, <1>4, KeptSends

\* A slot that no thread waits for changes.
LEMMA OthersSends ==
    ASSUME Types, SendInv, RowMoves, Types', \A q \in Slots : SlotMoves(q),
           NEW s \in Slots, req[s].by = Nobody, req'[s].by = Nobody,
           req'[s].pc # "push", \A q \in Slots \ {s} : req'[q] = req[q],
           UNCHANGED send
    PROVE  SendInv'
<1>1. ASSUME NEW q \in Slots, req'[q].by \in Threads
      PROVE  /\ req'[q] = req[q] /\ req[q].pc \in {"post", "push"}
             /\ send'[req[q].by] = send[req[q].by]
  BY <1>1, ConstantTypes DEF SendInv, At
<1>2. \A q \in Slots : req'[q].by \notin Threads \/ req'[q].by = req[q].by
  BY <1>1
<1>3. \A q \in Slots : ~(req[q].pc # "push" /\ req'[q].pc = "push")
  OBVIOUS
<1> QED BY <1>1, <1>2, <1>3, KeptSends

\* The requests stay as they are, and so do the threads that wait.
LEMMA SameSends ==
    ASSUME Types, SendInv, RowMoves, Types', UNCHANGED req,
           \A t \in Threads : send[t].pc = "wait" => send'[t] = send[t]
    PROVE  SendInv'
<1>1. \A q \in Slots : SlotMoves(q)
  BY DEF SlotMoves
<1>2. ASSUME NEW q \in Slots, req'[q].by \in Threads
      PROVE  /\ req'[q] = req[q] /\ req[q].pc \in {"post", "push"}
             /\ send'[req[q].by] = send[req[q].by]
  BY <1>2 DEF SendInv, At
<1> QED BY <1>1, <1>2, KeptSends

LEMMA PostSends ==
    ASSUME Types, NewestInv, SendInv, NEW t \in Threads, NEW s \in Slots, Post(t, s)
    PROVE  SendInv'
<1>1. /\ req'[s].pc = "post" /\ req'[s].by = t /\ req'[s].state = disk
      /\ \A q \in Slots \ {s} : req'[q] = req[q]
      /\ send'[t].pc = "wait" /\ send'[t].sig = send[t].sig
      /\ \A u \in Threads \ {t} : send'[u] = send[u]
      /\ UNCHANGED row
  BY PostFrame
<1>2. send[t].pc = "sig"
  BY DEF Post
<1>3. \A q \in Slots : req[q].by # t
  BY <1>2 DEF SendInv
<1>4. send[t].sig <= disk.at
  BY DEF NewestInv
<1> QED BY <1>1, <1>3, <1>4 DEF SendInv, At

LEMMA NextSends ==
    ASSUME Types, ReadInv, CallInv, NewestInv, SendInv, Next
    PROVE  SendInv'
<1> USE DEF pushVars, ownerVars, watchVars, history
<1>0. /\ Types' /\ RowMoves /\ \A q \in Slots : SlotMoves(q)
      /\ send \in [Threads -> SendType]
  BY NextTypes, NextRow, NextSlots DEF Types
<1>1. CASE (\E kind \in Kinds : Write(kind)) \/ Leave \/ Resume \/ Cycle \/ Quarter
  <2>1. UNCHANGED <<req, send>>
    BY <1>1 DEF Write, Leave, Resume, Cycle, Quarter
  <2> QED BY <1>0, <2>1, SameSends
<1>2. CASE Exit \/ Die
  <2>1. UNCHANGED row /\ \A q \in Slots :
           req'[q] = IF req[q].by \in Threads THEN [req[q] EXCEPT !.by = Nobody]
                     ELSE req[q]
    BY <1>2 DEF Exit, Die, Gone
  <2>2. ASSUME NEW q \in Slots
        PROVE  req'[q].by \notin Threads /\ req'[q].pc = req[q].pc
    <3>1. req[q] \in ReqType
      BY DEF Types
    <3> QED BY <2>1, <3>1, ConstantTypes DEF ReqType
  <2> QED BY <1>0, <2>2, KeptSends
<1>3. CASE Loop \/ Pulse \/ Flush
  <2>1. UNCHANGED req
    BY <1>3 DEF Loop, Pulse, Flush
  <2>2. \/ UNCHANGED send
        \/ send["loop"].pc = "off" /\ Begins("loop")
        \/ send["flush"].pc = "off" /\ Begins("flush")
    BY <1>3 DEF Loop, Pulse, Flush
  <2>3. \A t \in Threads : send[t].pc = "wait" => send'[t] = send[t]
    BY <1>0, <2>2 DEF Begins
  <2> QED BY <1>0, <2>1, <2>3, SameSends
<1>4. ASSUME NEW t \in Threads, NEW s \in Slots, Post(t, s) PROVE SendInv'
  BY <1>4, PostSends
<1>5. ASSUME NEW t \in Threads, NEW s \in Slots, TimesOut(t, s) PROVE SendInv'
  <2>1. /\ req'[s].pc = req[s].pc /\ req'[s].by = Nobody
        /\ \A q \in Slots \ {s} : req'[q] = req[q]
    BY <1>5, TimesOutFrame
  <2>2. req[s].by = t /\ send' = [send EXCEPT ![t] = NoSend]
    BY <1>5 DEF TimesOut, SendOver
  <2>3. ASSUME NEW q \in Slots, req'[q].by \in Threads
        PROVE  /\ req'[q] = req[q] /\ req[q].pc \in {"post", "push"}
               /\ send'[req[q].by] = send[req[q].by]
    <3>1. q # s /\ req'[q] = req[q]
      BY <2>1, <2>3, ConstantTypes
    <3>2. req[q].by # t
      BY <2>2, <2>3, <3>1 DEF SendInv
    <3> QED BY <1>0, <2>2, <2>3, <3>1, <3>2 DEF SendInv, At
  <2>4. \A q \in Slots : ~(req[q].pc # "push" /\ req'[q].pc = "push")
    BY <2>1
  <2>5. \A q \in Slots : req'[q].by \notin Threads \/ req'[q].by = req[q].by
    BY <2>3
  <2> QED BY <1>0, <2>3, <2>4, <2>5, KeptSends
<1>6. ASSUME NEW s \in Slots, Pushed(s) \/ Lose(s) PROVE SendInv'
  BY <1>0, <1>6, RepliesSends DEF Pushed, Lose
<1>7. ASSUME NEW s \in Slots, PostState(s) PROVE SendInv'
  <2>1. CASE Replies(s)
    BY <1>0, <2>1, RepliesSends
  <2>2. CASE /\ req[s].state.kind # "run" /\ row'.state = req[s].state
             /\ Starts(s, "push", <<req[s].state.kind, FALSE>>) /\ UNCHANGED send
    <3>1. <<req[s].state.kind, FALSE>> \in Reasons
      <4>1. req[s].state \in States
        BY DEF Types, ReqType
      <4> QED BY <2>2, <4>1 DEF States, Kinds
    <3>2. /\ req'[s].pc = "push" /\ req'[s].by = req[s].by
          /\ req'[s].state = req[s].state
          /\ \A q \in Slots \ {s} : req'[q] = req[q]
      BY <2>2, <3>1, StartsFrame DEF ReqPCs
    <3>3. ASSUME NEW q \in Slots, req'[q].by \in Threads
          PROVE  /\ req'[q].by = req[q].by /\ req'[q].state = req[q].state
                 /\ req'[q].pc \in {"post", "push"}
                 /\ send'[req'[q].by] = send[req'[q].by]
      BY <2>2, <3>2, <3>3 DEF SendInv, At
    <3>4. row'.state.at \in Nat
      BY <1>0 DEF Types, Rows, States
    <3>5. \A q \in Slots : (req[q].pc # "push" /\ req'[q].pc = "push")
                              => req'[q].state.at <= row'.state.at
      BY <2>2, <3>2, <3>4
    <3>6. \A q \in Slots : req'[q].by \notin Threads \/ req'[q].by = req[q].by
      BY <3>3
    <3> QED BY <1>0, <3>3, <3>5, <3>6, KeptSends
  <2>3. Newer(req[s].state) => row'.state = req[s].state
    BY <1>7 DEF PostState
  <2> QED BY <1>7, <2>1, <2>2, <2>3 DEF PostState
<1>8. ASSUME NEW s \in Slots, CronTold(s) \/ LatePoll(s) PROVE SendInv'
  <2>1. Ends(s) /\ UNCHANGED send /\ req[s].pc \in {"cron", "poll"}
    BY <1>8 DEF CronTold, LatePoll, At
  <2> QED BY <1>0, <2>1, EndsFrame, OthersSlots, OthersSends, ConstantTypes
<1>9. ASSUME NEW s \in Slots, CronReads(s) \/ CycleFails(s) PROVE SendInv'
  <2>1. UNCHANGED send /\ req[s].pc = "off"
    BY <1>9 DEF CronReads, CycleFails, At
  <2>2. /\ req'[s].by = Nobody /\ req'[s].pc # "push"
        /\ \A q \in Slots \ {s} : req'[q] = req[q]
    BY <1>9, ReadsFrame
  <2> QED BY <1>0, <2>1, <2>2, OthersSlots, OthersSends
<1>10. ASSUME NEW s \in Slots, CronClaims(s) PROVE SendInv'
  <2>0. UNCHANGED send /\ req[s].pc = "claim" /\ req[s].by = Nobody
    BY <1>10, OthersSlots DEF CronClaims, At
  <2>1. CASE Ends(s)
    BY <1>0, <2>0, <2>1, EndsFrame, OthersSends, ConstantTypes
  <2>2. CASE Starts(s, "cron", <<req[s].row.state.kind, TRUE>>)
    <3>1. req[s].row.state.kind \in {"run", "ask"}
      BY <2>0, MarkedTypes DEF At, ReadInv, States, Kinds
    <3>2. <<req[s].row.state.kind, TRUE>> \in Reasons
      BY <3>1
    <3>3. /\ req'[s].pc = "cron" /\ req'[s].by = req[s].by
          /\ \A q \in Slots \ {s} : req'[q] = req[q]
      BY <2>2, <3>2, StartsFrame DEF ReqPCs
    <3> QED BY <1>0, <2>0, <3>3, OthersSends
  <2> QED BY <1>10, <2>1, <2>2 DEF CronClaims
<1>11. ASSUME NEW s \in Slots, NotePush(s) PROVE SendInv'
  <2>1. UNCHANGED <<req, send>>
    BY <1>11 DEF NotePush
  <2> QED BY <1>0, <2>1, SameSends
<1> QED BY <1>1, <1>2, <1>3, <1>4, <1>5, <1>6, <1>7, <1>8, <1>9, <1>10, <1>11 DEF Next

----------------------------------------------------------------------------
(* The end of a run.                                                       *)

\* Once the row is the file, it stays so until the file is written.
LEMMA ShownStays ==
    ASSUME Types, NewestInv, RowMoves, disk' = disk, row.state = disk
    PROVE  row'.state = disk
<1>1. disk.at \in Nat /\ \A s \in Slots : req[s].state.at \in Nat
  BY DEF Types, States, ReqType
<1> QED BY <1>1 DEF RowMoves, NewestInv

LEMMA KeptFinal ==
    ASSUME Types, NewestInv, FinalInv, RowMoves,
           UNCHANGED <<owner, disk, sent, calm>>,
           \/ send'["flush"] = send["flush"]
           \/ send'["flush"].sig = send["flush"].sig /\ send["flush"].pc # "off"
    PROVE  FinalInv'
BY ShownStays DEF FinalInv

\* A thread is done: its state has arrived, or it failed and is not the newest.
LEMMA DoneFinal ==
    ASSUME Types, Types', NewestInv, NewestInv', SendInv, FinalInv, RowMoves,
           disk' = disk, NEW s \in Slots, NEW t \in Threads, req[s].by = t,
           SendOver(t), calm' => calm,
           calm' => \/ req[s].state.at <= row'.state.at
                    \/ req[s].state.at < disk.at
    PROVE  FinalInv'
<1>0. /\ send \in [Threads -> SendType] /\ send[t].sig \in Nat
      /\ disk.at \in Nat /\ row'.state.at \in Nat /\ req[s].state.at \in Nat
  BY DEF Types, States, Rows, ReqType, SendType
<1>1. /\ send' = [send EXCEPT ![t] = NoSend] /\ sent' = send[t].sig
      /\ owner' = IF t = "flush" THEN "left" ELSE owner
  BY DEF SendOver, Remembered
<1>2. send[t].pc = "wait" /\ send[t].sig <= req[s].state.at
  BY DEF SendInv
<1>3. ASSUME calm', sent' = disk.at PROVE row'.state = disk
  <2>1. disk.at <= row'.state.at
    BY <1>0, <1>1, <1>2, <1>3
  <2>2. row'.state.at <= disk.at /\ (row'.state.at = disk.at => row'.state = disk)
    BY DEF NewestInv
  <2> QED BY <1>0, <2>1, <2>2
<1>4. CASE t = "flush"
  <2>1. owner = "leaving" /\ send[t].sig = disk.at /\ disk.kind = "end"
    BY <1>2, <1>4 DEF FinalInv
  <2>2. send'["flush"].pc = "off" /\ owner' = "left" /\ sent' = disk.at
    BY <1>0, <1>1, <1>4, <2>1, ConstantTypes
  <2> QED BY <1>3, <2>1, <2>2 DEF FinalInv
<1>5. CASE t # "flush"
  <2>1. send'["flush"] = send["flush"] /\ owner' = owner
    BY <1>0, <1>1, <1>5 DEF Threads
  <2> QED BY <1>3, <2>1, ShownStays DEF FinalInv
<1> QED BY <1>4, <1>5

LEMMA NextFinal ==
    ASSUME Types, Types', NewestInv, NewestInv', SendInv, FinalInv, RowMoves, Next
    PROVE  FinalInv'
<1> USE DEF pushVars, ownerVars, watchVars, history
<1>0. /\ send \in [Threads -> SendType] /\ disk.at \in Nat /\ sent \in Nat
      /\ \A s \in Slots : req[s].state.at \in Nat
  BY DEF Types, States, ReqType
<1>1. CASE UNCHANGED <<owner, disk, sent, calm, send>>
  BY <1>1, KeptFinal
<1>2. CASE (\E kind \in Kinds : Write(kind)) \/ Resume
  <2>1. /\ owner \in {"up", "gone"} /\ owner' = "up"
        /\ disk'.at = disk.at + 1 /\ UNCHANGED <<sent, send>>
    BY <1>2 DEF Write, Resume
  <2>2. send["flush"].pc = "off" /\ sent < disk'.at
    BY <1>0, <2>1 DEF FinalInv, NewestInv
  <2>3. sent' # disk'.at
    BY <1>0, <2>1, <2>2
  <2> QED BY <2>1, <2>2, <2>3 DEF FinalInv
<1>3. CASE Leave
  BY <1>3 DEF Leave, FinalInv
<1>4. CASE Exit \/ Die
  <2>1. /\ owner' = "gone" /\ send'["flush"].pc = "off" /\ sent' = 0
        /\ UNCHANGED <<disk, row>>
    BY <1>4, ConstantTypes DEF Exit, Die, Gone, Threads
  <2>2. calm' => calm /\ owner = "left"
    BY <1>4 DEF Exit, Die
  <2>3. sent' # disk'.at
    BY <1>0, <2>1 DEF NewestInv
  <2> QED BY <2>1, <2>2, <2>3 DEF FinalInv
<1>5. CASE Loop \/ Pulse
  <2>1. UNCHANGED <<owner, disk, sent, calm>> /\ send'["flush"] = send["flush"]
    BY <1>0, <1>5 DEF Loop, Pulse, Begins, Threads
  <2> QED BY <2>1, KeptFinal
<1>6. CASE Flush
  <2>1. owner = "leaving" /\ UNCHANGED <<disk, sent, calm, row>>
    BY <1>6 DEF Flush
  <2>2. CASE Unsent
    <3>1. owner' = owner /\ send'["flush"].sig = disk.at
      BY <1>0, <1>6, <2>2 DEF Flush, Begins, Threads
    <3> QED BY <2>1, <3>1 DEF FinalInv
  <2>3. CASE ~Unsent
    <3>1. owner' = "left" /\ send'["flush"].pc = "off" /\ sent = disk.at
      BY <1>6, <2>3 DEF Flush, Unsent, Due
    <3> QED BY <2>1, <3>1 DEF FinalInv
  <2> QED BY <2>2, <2>3
<1>7. ASSUME NEW t \in Threads, NEW s \in Slots, Post(t, s) PROVE FinalInv'
  <2>1. /\ send[t].pc = "sig" /\ UNCHANGED <<owner, disk, sent, calm>>
    BY <1>7, PostFrame
  <2>2. /\ send'[t].sig = send[t].sig
        /\ \A u \in Threads \ {t} : send'[u] = send[u]
    BY <1>7, PostFrame
  <2>3. CASE t = "flush"
    BY <2>1, <2>2, <2>3, KeptFinal
  <2>4. CASE t # "flush"
    <3>1. send'["flush"] = send["flush"]
      BY <2>2, <2>4 DEF Threads
    <3> QED BY <2>1, <3>1, KeptFinal
  <2> QED BY <2>3, <2>4
<1>8. ASSUME NEW s \in Slots, FailsWith(req[s].state), calm'
      PROVE  calm /\ req[s].state.at < disk.at
  <2>1. calm /\ req[s].state # disk
    BY <1>8, Zenon DEF FailsWith
  <2>2. req[s].state.at <= disk.at /\ req[s].state.at # disk.at
    BY <2>1 DEF NewestInv
  <2>3. req[s].state.at \in Nat /\ disk.at \in Nat
    BY <1>0
  <2> QED BY <2>1, <2>2, <2>3
<1>9. ASSUME NEW t \in Threads, NEW s \in Slots, TimesOut(t, s) PROVE FinalInv'
  <2>1. /\ req[s].by = t /\ SendOver(t) /\ disk' = disk /\ FailsWith(req[s].state)
    BY <1>9 DEF TimesOut
  <2> QED BY <1>8, <2>1, DoneFinal
<1>10. ASSUME NEW s \in Slots, Replies(s), disk' = disk, calm' => calm,
              req[s].by \in Threads => (calm' => \/ req[s].state.at <= row'.state.at
                                                 \/ req[s].state.at < disk.at),
              req[s].by \notin Threads => calm' = calm
       PROVE  FinalInv'
  <2>1. CASE req[s].by \in Threads
    <3>1. SendOver(req[s].by)
      BY <1>10, <2>1 DEF Replies
    <3> QED BY <1>10, <2>1, <3>1, DoneFinal
  <2>2. CASE req[s].by \notin Threads
    BY <1>1, <1>10, <2>2 DEF Replies
  <2> QED BY <2>1, <2>2
<1>11. ASSUME NEW s \in Slots, Lose(s) PROVE FinalInv'
  <2>1. Replies(s) /\ disk' = disk
    BY <1>11 DEF Lose
  <2>2. /\ req[s].by \in Threads => FailsWith(req[s].state)
        /\ req[s].by \notin Threads => calm' = calm
    BY <1>11 DEF Lose
  <2> QED BY <1>8, <1>10, <2>1, <2>2
<1>12. ASSUME NEW s \in Slots, Pushed(s) PROVE FinalInv'
  <2>1. Replies(s) /\ UNCHANGED <<disk, calm, row>> /\ req[s].pc = "push"
    BY <1>12 DEF Pushed, At
  <2>2. req[s].state.at <= row'.state.at
    BY <2>1 DEF SendInv, At
  <2> QED BY <1>10, <2>1, <2>2
<1>13. ASSUME NEW s \in Slots, PostState(s) PROVE FinalInv'
  <2>1. UNCHANGED <<disk, calm>>
    BY <1>13 DEF PostState
  <2>2. CASE Replies(s)
    <3>1. row.state.at \in Nat /\ row'.state.at \in Nat
      BY DEF Types, Rows, States
    <3>2. CASE Newer(req[s].state)
      <4>1. row' = [state |-> req[s].state, stale |-> FALSE, age |-> 0]
        BY <1>13, <3>2 DEF PostState
      <4>2. req[s].state.at <= row'.state.at
        BY <1>0, <4>1
      <4> QED BY <1>10, <2>1, <2>2, <4>2
    <3>3. CASE ~Newer(req[s].state)
      <4>1. row' = row
        BY <1>13, <3>3 DEF PostState
      <4>2. req[s].state.at <= row'.state.at
        BY <1>0, <3>1, <3>3, <4>1 DEF Newer
      <4> QED BY <1>10, <2>1, <2>2, <4>2
    <3> QED BY <3>2, <3>3
  <2>3. CASE UNCHANGED <<send, sent, busy, owner>>
    BY <1>1, <2>1, <2>3
  <2> QED BY <1>13, <2>2, <2>3 DEF PostState
<1>14. CASE Cycle \/ Quarter
  BY <1>1, <1>14 DEF Cycle, Quarter
<1>15. ASSUME NEW s \in Slots,
              CronReads(s) \/ CronClaims(s) \/ CronTold(s) \/ CycleFails(s) \/ LatePoll(s)
                \/ NotePush(s)
       PROVE  UNCHANGED <<owner, disk, sent, calm, send>>
  BY <1>15 DEF CronReads, CronClaims, CronTold, CycleFails, LatePoll, NotePush
<1> QED BY <1>1, <1>2, <1>3, <1>4, <1>5, <1>6, <1>7, <1>9, <1>11, <1>12, <1>13, <1>14,
           <1>15 DEF Next

----------------------------------------------------------------------------
(* Who tells of a silence.                                                 *)

\* What does not touch the row, its silence or the runs of the cron.
LEMMA KeptCron ==
    ASSUME CronInv, UNCHANGED <<row, told>>,
           \A q \in Slots : req'[q].pc = "cron" <=> req[q].pc = "cron",
           \A q \in Slots : req[q].pc = "cron" =>
               req'[q].row = req[q].row /\ note'[q] = note[q]
    PROVE  CronInv'
BY DEF CronInv, SilenceIsTold, At, Marked

\* A slot that the cron does not use changes.
LEMMA OthersCron ==
    ASSUME CronInv, UNCHANGED <<row, told>>, NEW s \in Slots,
           req[s].pc # "cron", req'[s].pc # "cron",
           \A q \in Slots \ {s} : req'[q] = req[q] /\ note'[q] = note[q]
    PROVE  CronInv'
BY KeptCron

\* The cron marks a row, of which nobody else can be telling.
LEMMA ClaimsCron ==
    ASSUME Types, ReadInv, CronInv, NEW s \in Slots, CronClaims(s)
    PROVE  CronInv'
<1>0. req[s].pc = "claim"
  BY DEF CronClaims, At
<1>1. CASE ~Same(s)
  <2>1. Ends(s) /\ UNCHANGED <<row, note, told>>
    BY <1>1 DEF CronClaims, history
  <2> QED BY <1>0, <2>1, EndsFrame, OthersCron, ConstantTypes
<1>2. CASE Same(s)
  <2>1. /\ row' = Marked(s) /\ Starts(s, "cron", <<req[s].row.state.kind, TRUE>>)
        /\ UNCHANGED told
    BY <1>2 DEF CronClaims, history
  <2>2. row = req[s].row /\ row.age = 1 /\ ~row.stale
    BY <1>0, <1>2 DEF Same, ReadInv, At
  <2>3. req[s].row.state.kind \in {"run", "ask"}
    BY <1>0, MarkedTypes DEF At, ReadInv, States, Kinds
  <2>4. <<req[s].row.state.kind, TRUE>> \in Reasons
    BY <2>3
  <2>5. /\ req'[s].pc = "cron" /\ req'[s].row = req[s].row
        /\ \A q \in Slots \ {s} : req'[q] = req[q]
        /\ note'[s].pc = "read" /\ ~note'[s].ok
    BY <2>1, <2>4, StartsFrame DEF ReqPCs
  <2>6. ASSUME NEW q \in Slots, req[q].pc = "cron" PROVE FALSE
    <3>1. row = Marked(q) \/ (~row.stale /\ row.age = 0)
      BY <2>6 DEF CronInv, At
    <3>2. Marked(q).stale = TRUE
      BY MarkedTypes
    <3> QED BY <2>2, <3>1, <3>2
  <2>7. \A q \in Slots : req'[q].pc = "cron" => q = s
    BY <2>5, <2>6
  <2>8. Marked(s)' = Marked(s) /\ row'.stale
    BY <2>1, <2>5, MarkedTypes DEF Marked
  <2>9. told # "one" /\ told # "two"
    BY <2>2 DEF CronInv, SilenceIsTold
  <2> QED BY <2>1, <2>2, <2>5, <2>7, <2>8, <2>9 DEF CronInv, SilenceIsTold, At
<1> QED BY <1>1, <1>2

\* A run of the cron is over, and with it the last one that was telling.
LEMMA ToldCron ==
    ASSUME Types, CallInv, CronInv, NEW s \in Slots, CronTold(s)
    PROVE  CronInv'
<1>0. /\ req[s].pc = "cron" /\ NoteOver(s)
      /\ row' = IF Restored(s) THEN req[s].row ELSE row
      /\ told' = IF note[s].pc = "skipped" /\ told = "none" THEN "skipped" ELSE told
      /\ Ends(s)
  BY DEF CronTold, At
<1>1. \A q \in Slots : req'[q].pc # "cron"
  BY <1>0, EndsFrame, ConstantTypes DEF CronInv, At
<1>2. /\ ~req[s].row.stale
      /\ row = Marked(s) \/ ~row.stale
      /\ row = Marked(s) => (told = "one" <=> note[s].pc = "sent" \/ note[s].ok)
  BY <1>0 DEF CronInv, At
<1>3. told' = "one" => row'.stale
  <2>1. note[s].pc = "failed" => ~note[s].ok
    BY DEF CallInv
  <2> QED BY <1>0, <1>2, <2>1 DEF CronInv, Restored
<1>4. told' # "two" /\ (row'.stale => told' # "none")
  <2>1. told # "two" /\ note[s].pc \in {"sent", "skipped", "failed"}
    BY <1>0 DEF CronInv, SilenceIsTold, NoteOver
  <2> QED BY <1>0, <1>2, <2>1 DEF Restored
<1> QED BY <1>1, <1>3, <1>4 DEF CronInv, SilenceIsTold, At

\* A statement of a call, or a delivery that tells of the silence.
LEMMA PushCron ==
    ASSUME Types, CallInv, CronInv, NEW s \in Slots, NotePush(s)
    PROVE  CronInv'
<1>0. UNCHANGED <<row, req>>
  BY DEF NotePush
<1>1. \A q \in Slots \ {s} : note'[q] = note[q]
  BY NoteStepMoves, SendMoves DEF NotePush
<1>2. CASE req[s].pc # "cron"
  <2>1. UNCHANGED told
    BY <1>2 DEF NotePush, history, Tells, At
  <2> QED BY <1>0, <1>1, <1>2, <2>1, OthersCron
<1>3. CASE req[s].pc = "cron"
  <2>0. /\ row = Marked(s) => (told = "one" <=> note[s].pc = "sent" \/ note[s].ok)
        /\ \A q \in Slots : Marked(q)' = Marked(q)
        /\ \A q \in Slots : req[q].pc = "cron" => q = s
        /\ told # "two" /\ (told = "one" => row.stale)
    BY <1>0, <1>3 DEF CronInv, SilenceIsTold, At, Marked
  <2>1. ASSUME told' # "two", told' = "one" => row.stale,
               row = Marked(s) => (told' = "one" <=> note'[s].pc = "sent" \/ note'[s].ok)
        PROVE  CronInv'
    BY <1>0, <1>3, <2>0, <2>1 DEF CronInv, SilenceIsTold, At
  <2>2. CASE NoteStep(s) /\ UNCHANGED history
    <3>1. UNCHANGED told
      BY <2>2 DEF history
    <3>2. (note[s].pc = "sent" \/ note[s].ok) <=> (note'[s].pc = "sent" \/ note'[s].ok)
      BY <2>2, NoteStepMoves
    <3> QED BY <2>0, <2>1, <3>1, <3>2
  <2>3. ASSUME NEW to \in note[s].left, Send(s, to, "ok"),
               told' = IF ~Tells(s) THEN told
                       ELSE IF told \in {"one", "two"} THEN "two" ELSE "one"
        PROVE  CronInv'
    <3>1. note[s].pc = "send" /\ note'[s].ok
      BY <2>3, SendMoves
    <3>2. CASE Tells(s)
      <4>1. row = Marked(s) /\ ~note[s].ok
        BY <3>2 DEF Tells
      <4>2. told' = "one" /\ row.stale
        BY <2>0, <2>3, <3>1, <3>2, <4>1, MarkedTypes
      <4> QED BY <2>1, <3>1, <4>2
    <3>3. CASE ~Tells(s)
      <4>1. told' = told /\ (row = Marked(s) => note[s].ok)
        BY <1>3, <2>3, <3>3 DEF Tells, At
      <4> QED BY <2>0, <2>1, <3>1, <4>1
    <3> QED BY <3>2, <3>3
  <2>4. ASSUME NEW to \in note[s].left, Send(s, to, "error"), UNCHANGED history
        PROVE  CronInv'
    <3>1. /\ UNCHANGED told /\ note[s].pc = "send" /\ note'[s].pc = "send"
          /\ (note'[s].ok <=> note[s].ok)
      BY <2>4, SendMoves DEF history
    <3> QED BY <2>0, <2>1, <3>1
  <2> QED BY <2>2, <2>3, <2>4 DEF NotePush
<1> QED BY <1>2, <1>3

\* A request is lost, or its worker is killed.
LEMMA LoseCron ==
    ASSUME Types, CronInv, NEW s \in Slots, Lose(s)
    PROVE  CronInv'
<1>0. /\ Replies(s) /\ note' = [note EXCEPT ![s] = NoNote] /\ UNCHANGED row
      /\ told' = IF At(s, "cron") /\ told = "none" THEN "skipped" ELSE told
  BY DEF Lose
<1>1. /\ req'[s] = NoReq /\ \A q \in Slots \ {s} : req'[q] = req[q]
      /\ \A q \in Slots \ {s} : note'[q] = note[q]
  BY <1>0, RepliesFrame, NoteTypes, NoteFrame
<1>2. CASE req[s].pc = "cron"
  <2>1. \A q \in Slots : req'[q].pc # "cron"
    BY <1>1, <1>2, ConstantTypes DEF CronInv, At
  <2>2. told' # "none" /\ told' # "two" /\ (told' = "one" => row.stale)
    BY <1>0, <1>2 DEF CronInv, SilenceIsTold, At
  <2> QED BY <1>0, <2>1, <2>2 DEF CronInv, SilenceIsTold, At
<1>3. CASE req[s].pc # "cron"
  <2>1. UNCHANGED told
    BY <1>0, <1>3 DEF At
  <2> QED BY <1>0, <1>1, <1>3, <2>1, OthersCron, ConstantTypes
<1> QED BY <1>2, <1>3

\* A state arrives: with a row that is newer, the silence is over.
LEMMA PostStateCron ==
    ASSUME Types, CronInv, NEW s \in Slots, PostState(s)
    PROVE  CronInv'
<1>0. req[s].pc = "post"
  BY DEF PostState, At
<1>1. /\ req'[s].pc # "cron"
      /\ \A q \in Slots \ {s} : req'[q] = req[q] /\ note'[q] = note[q]
  <2>1. CASE Replies(s) /\ UNCHANGED note
    BY <2>1, RepliesFrame, ConstantTypes
  <2>2. CASE req[s].state.kind # "run" /\ Starts(s, "push", <<req[s].state.kind, FALSE>>)
    <3>1. req[s].state.kind \in Kinds
      BY DEF Types, ReqType, States
    <3>2. <<req[s].state.kind, FALSE>> \in Reasons
      BY <2>2, <3>1 DEF Kinds
    <3> QED BY <2>2, <3>2, StartsFrame DEF ReqPCs
  <2> QED BY <2>1, <2>2 DEF PostState
<1>2. CASE ~Newer(req[s].state)
  <2>1. UNCHANGED <<row, told>>
    BY <1>2 DEF PostState
  <2> QED BY <1>0, <1>1, <2>1, OthersCron
<1>3. CASE Newer(req[s].state)
  <2>1. ~row'.stale /\ row'.age = 0 /\ told' = "none"
    BY <1>3 DEF PostState
  <2>2. \A q \in Slots : req'[q].pc = "cron" => req[q].pc = "cron" /\ req'[q] = req[q]
    BY <1>1
  <2>3. \A q \in Slots : req'[q].pc = "cron" => ~req'[q].row.stale /\ row' # Marked(q)'
    <3>1. \A q \in Slots : req'[q].pc = "cron" => ~req'[q].row.stale
      BY <2>2 DEF CronInv, At
    <3>2. ASSUME NEW q \in Slots, req'[q].pc = "cron" PROVE row' # Marked(q)'
      <4>1. req'[q] = req[q] /\ Marked(q).stale = TRUE
        BY <2>2, <3>2, MarkedTypes
      <4>2. Marked(q)'.stale = TRUE
        BY <4>1 DEF Marked
      <4> QED BY <2>1, <4>2
    <3> QED BY <3>1, <3>2
  <2>4. \A q, u \in Slots : req'[q].pc = "cron" /\ req'[u].pc = "cron" => q = u
    BY <2>2 DEF CronInv, At
  <2> QED BY <2>1, <2>3, <2>4 DEF CronInv, SilenceIsTold, At
<1> QED BY <1>2, <1>3

LEMMA NextCron ==
    ASSUME Types, ReadInv, CallInv, CronInv, SendInv, Next
    PROVE  CronInv'
<1> USE DEF pushVars, ownerVars, watchVars, history
<1>1. CASE UNCHANGED <<row, told, req, note>>
  BY <1>1, KeptCron
<1>2. CASE (\E kind \in Kinds : Write(kind)) \/ Leave \/ Resume \/ Loop \/ Pulse
             \/ Flush \/ Cycle
  BY <1>1, <1>2 DEF Write, Leave, Resume, Loop, Pulse, Flush, Cycle
<1>3. CASE Exit \/ Die
  <2>1. Gone
    BY <1>3 DEF Exit, Die
  <2>2. /\ req' = [s \in Slots |-> IF req[s].by \in Threads
                                   THEN [req[s] EXCEPT !.by = Nobody] ELSE req[s]]
        /\ UNCHANGED <<row, told, note>>
    BY <2>1 DEF Gone
  <2>3. \A q \in Slots : req'[q].pc = req[q].pc /\ req'[q].row = req[q].row
    <3>1. req \in [Slots -> ReqType]
      BY DEF Types
    <3> QED BY <2>2, <3>1 DEF ReqType
  <2> QED BY <2>2, <2>3, KeptCron
<1>4. ASSUME NEW t \in Threads, NEW s \in Slots, Post(t, s) PROVE CronInv'
  <2>1. /\ req'[s].pc = "post" /\ \A q \in Slots \ {s} : req'[q] = req[q]
        /\ UNCHANGED <<row, told, note>>
    BY <1>4, PostFrame
  <2>2. req[s].pc = "off"
    BY <1>4 DEF Post, At
  <2> QED BY <2>1, <2>2, OthersCron
<1>5. ASSUME NEW t \in Threads, NEW s \in Slots, TimesOut(t, s) PROVE CronInv'
  <2>1. /\ req'[s].pc = req[s].pc /\ req'[s].row = req[s].row
        /\ \A q \in Slots \ {s} : req'[q] = req[q]
    BY <1>5, TimesOutFrame
  <2>2. UNCHANGED <<row, told, note>>
    BY <1>5 DEF TimesOut
  <2> QED BY <2>1, <2>2, KeptCron
<1>6. ASSUME NEW s \in Slots, Pushed(s) PROVE CronInv'
  <2>1. /\ req[s].pc = "push" /\ Replies(s) /\ UNCHANGED <<row, told>>
        /\ note' = [note EXCEPT ![s] = NoNote]
    BY <1>6 DEF Pushed, At
  <2>2. /\ req'[s] = NoReq
        /\ \A q \in Slots \ {s} : req'[q] = req[q] /\ note'[q] = note[q]
    BY <2>1, RepliesFrame, NoteTypes, NoteFrame
  <2> QED BY <2>1, <2>2, OthersCron, ConstantTypes
<1>7. ASSUME NEW s \in Slots, CronReads(s) \/ CycleFails(s) PROVE CronInv'
  <2>1. req[s].pc = "off" /\ UNCHANGED <<row, told, note>>
    BY <1>7 DEF CronReads, CycleFails, At
  <2>2. /\ req'[s].pc \in {"claim", "poll"}
        /\ \A q \in Slots \ {s} : req'[q] = req[q]
    BY <1>7, ReadsFrame
  <2> QED BY <2>1, <2>2, OthersCron
<1>8. ASSUME NEW s \in Slots, LatePoll(s) PROVE CronInv'
  <2>1. req[s].pc = "poll" /\ Ends(s) /\ UNCHANGED <<row, told, note>>
    BY <1>8 DEF LatePoll, At
  <2>2. req'[s] = NoReq /\ \A q \in Slots \ {s} : req'[q] = req[q]
    BY <2>1, EndsFrame
  <2> QED BY <2>1, <2>2, OthersCron, ConstantTypes
<1>9. CASE Quarter
  <2>1. /\ \A q \in Slots : req[q].pc = "off"
        /\ UNCHANGED <<req, told>>
    BY <1>9 DEF Quarter, At
  <2>2. row'.stale = row.stale
    <3>1. row \in Rows
      BY DEF Types
    <3> QED BY <1>9, <3>1 DEF Quarter, Rows
  <2> QED BY <2>1, <2>2 DEF CronInv, SilenceIsTold, At
<1> QED BY <1>2, <1>3, <1>4, <1>5, <1>6, <1>7, <1>8, <1>9, ClaimsCron, ToldCron,
           PushCron, LoseCron, PostStateCron DEF Next

----------------------------------------------------------------------------
(* The invariant and what it shows.                                        *)

LEMMA InitRelayInv == Init => RelayInv
<1> SUFFICES ASSUME Init PROVE RelayInv
  OBVIOUS
<1>1. /\ req = [s \in Slots |-> NoReq] /\ note = [s \in Slots |-> NoNote]
      /\ send = [t \in Threads |-> NoSend] /\ row = NoRow /\ mark = NoMark
      /\ disk = [at |-> 1, kind |-> "run"] /\ sent = 0 /\ owner = "up"
      /\ told = "none" /\ last = "none" /\ faults = 0
      /\ dirty = TRUE /\ busy = FALSE /\ full = TRUE /\ asked = FALSE
      /\ calm = TRUE /\ pulsed = FALSE
  BY DEF Init, PushInit
<1>2. disk \in States /\ disk.at = 1 /\ 0 \in 0 .. MaxWrites /\ 0 \in 0 .. MaxFaults
  BY <1>1 DEF States, Kinds
<1>3. /\ row.stale = FALSE /\ row.state.at = 0 /\ NoReq.state.at = 0
      /\ NoReq.pc = "off" /\ NoReq.by = Nobody
  BY <1>1, ConstantTypes DEF NoRow, NoState
<1>4. Types
  <2>1. devs = [d \in Devices |-> "live"] /\ subs \in [Endpoints -> [dev : Devices, dead : {FALSE}]]
    BY DEF Init
  <2>2. subs \in [Endpoints -> [dev : Devices \cup {NoDevice}, dead : BOOLEAN]]
    BY <2>1
  <2>3. log = [r \in Reasons |-> Cooldown] /\ claim = [r \in Reasons |-> NoClaim]
    BY DEF Init, PushInit
  <2>4. log \in [Reasons -> 0 .. Cooldown] /\ claim \in [Reasons -> 0 .. NoClaim]
    BY <2>3 DEF Cooldown, NoClaim
  <2>5. devs \in [Devices -> {"unknown", "live", "revoked"}]
    BY <2>1
  <2> QED BY <1>1, <1>2, <2>2, <2>4, <2>5, ConstantTypes, NoteTypes DEF Types, Owners, Tolds
<1>5. ReadInv /\ CronInv
  BY <1>1, <1>3 DEF ReadInv, CronInv, SilenceIsTold, At
<1>6. CallInv
  BY <1>1, NoteTypes DEF CallInv
<1>7. NewestInv
  BY <1>1, <1>2, <1>3, ConstantTypes DEF NewestInv, Threads
<1>8. SendInv
  BY <1>1, <1>3, ConstantTypes DEF SendInv, At
<1>9. FinalInv
  BY <1>1, <1>2, ConstantTypes DEF FinalInv, Threads
<1> QED BY <1>4, <1>5, <1>6, <1>7, <1>8, <1>9 DEF RelayInv

\* A step of the relay, or none.
LEMMA NextRelayInv == RelayInv /\ [Next]_vars => RelayInv'
<1> SUFFICES ASSUME RelayInv, [Next]_vars PROVE RelayInv'
  OBVIOUS
<1>0. Types /\ ReadInv /\ CallInv /\ CronInv /\ NewestInv /\ SendInv /\ FinalInv
  BY DEF RelayInv
<1>1. CASE Next
  <2>1. Types' /\ RowMoves
    BY <1>0, <1>1, NextTypes, NextRow
  <2>2. ReadInv' /\ CallInv'
    BY <1>0, <1>1, NextRead, NextCall
  <2>3. NewestInv'
    BY <1>0, <1>1, NextNewest
  <2>4. SendInv' /\ CronInv'
    BY <1>0, <1>1, NextSends, NextCron
  <2>5. FinalInv'
    BY <1>0, <1>1, <2>1, <2>3, NextFinal
  <2> QED BY <2>1, <2>2, <2>3, <2>4, <2>5 DEF RelayInv
<1>2. CASE UNCHANGED vars
  <2>1. /\ UNCHANGED <<devs, subs, log, claim, note>>
        /\ UNCHANGED <<owner, disk, dirty, sent, busy, send>>
        /\ UNCHANGED <<row, mark, req, last, full, faults>>
        /\ UNCHANGED <<told, asked, calm, pulsed>>
    BY <1>2 DEF vars, pushVars, ownerVars, watchVars, history
  <2>2. Types'
    BY <1>0, <2>1 DEF Types
  <2>3. ReadInv' /\ CallInv'
    BY <1>0, <2>1 DEF ReadInv, CallInv, At
  <2>4. CronInv'
    BY <1>0, <2>1, KeptCron
  <2>5. NewestInv'
    BY <1>0, <2>1 DEF NewestInv
  <2>6. SendInv'
    BY <1>0, <2>1 DEF SendInv, At
  <2>7. FinalInv'
    BY <1>0, <2>1 DEF FinalInv
  <2> QED BY <2>2, <2>3, <2>4, <2>5, <2>6, <2>7 DEF RelayInv
<1> QED BY <1>1, <1>2

LEMMA RelayInvariant == Spec => []RelayInv
<1>1. Init => RelayInv
  BY InitRelayInv
<1>2. RelayInv /\ [Next]_vars => RelayInv'
  BY NextRelayInv
<1> QED BY <1>1, <1>2, PTL DEF Spec

\* Rows, requests, calls, threads and marks have their types, and what is
\* counted stays within its bounds.
THEOREM RelayTyped == Spec => []TypeOK
<1>1. RelayInv => TypeOK
  BY PartTypes DEF RelayInv
<1> QED BY <1>1, RelayInvariant, PTL

\* When a run has ended and its process has left, the phone sees the end,
\* unless the sending of that very state failed: flush sends what the loop has
\* not, and an older request that comes later does not undo it (flush,
\* state_at in postState).
THEOREM TheEndIsShown == Spec => []FinalIsShown
<1>1. RelayInv => FinalIsShown
  BY DEF RelayInv, FinalInv, FinalIsShown
<1> QED BY <1>1, RelayInvariant, PTL

\* Whoever of the runs of the cron looks at a silence, one of them tells of it,
\* and what is marked as told was told, skipped or lost (checkStale).
THEOREM ASilenceIsToldOfOnce == Spec => []SilenceIsTold
<1>1. RelayInv => SilenceIsTold
  BY DEF RelayInv, CronInv
<1> QED BY <1>1, RelayInvariant, PTL

\* The row never goes back to an older state, whatever order the requests come
\* in and whatever the cron writes back (postState, checkStale).
THEOREM TheRowNeverGoesBack == Spec => StateNeverOlder
<1>1. RelayInv /\ [Next]_vars => [row'.state.at >= row.state.at]_row
  <2> SUFFICES ASSUME RelayInv, [Next]_vars PROVE row' = row \/ row'.state.at >= row.state.at
    OBVIOUS
  <2>1. Types /\ row.state.at \in Nat /\ \A s \in Slots : req[s].state.at \in Nat
    BY DEF RelayInv, Types, Rows, ReqType, States
  <2>2. CASE Next
    <3>1. RowMoves
      BY <2>1, <2>2, NextRow
    <3> QED BY <2>1, <3>1 DEF RowMoves
  <2>3. CASE UNCHANGED vars
    BY <2>3 DEF vars
  <2> QED BY <2>2, <2>3
<1> QED BY <1>1, RelayInvariant, PTL DEF Spec, StateNeverOlder

=============================================================================
