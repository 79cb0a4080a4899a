----------------------------- MODULE Situation -----------------------------
(***************************************************************************)
(* A phase with escalation: situational (situation.py, situation_step.py,  *)
(* verdict_step.py, decision/opus.py): after each NO_SHIP the history of   *)
(* the phase says who plays the next round, whether Opus or the owner      *)
(* decides, and whether the phase is shipped with its open findings as a   *)
(* debt (debt.py, ship_debt.py, decision/resolve.py), which is kept in     *)
(* state.json for the machine and in debt.md for people.                   *)
(*                                                                         *)
(* Abstractions:                                                           *)
(*  - a finding is the round it was found in, a number and its level, and  *)
(*    a row of the history what diagnose asks of a round;                  *)
(*  - a round that comes to no verdict has a player that fell, which makes *)
(*    the rounds after it a continuation, or ends without progress; how    *)
(*    the player, the tester, the judge and a stop end is in PhaseLoop;    *)
(*  - secrets, the gate and the writes of the files fail when they like;   *)
(*    the texts of findings hold no secrets, so what is written is what is *)
(*    read back, and a rollback does not fail.                             *)
(***************************************************************************)
EXTENDS Naturals, Sequences, FiniteSets, SequencesExt

CONSTANTS
    SonnetMax,      \* cfg.sonnet_max
    CfgSonnetMax,   \* Cfg.sonnet_max, what record_situation takes for it
    MoleRounds,     \* Cfg.mole_rounds
    PolishMinRound, \* Cfg.polish_min_round
    MaxDebt,        \* cfg.max_debt
    MaxRounds,      \* cfg.max_rounds
    MoreRounds,     \* MORE_ROUNDS
    KMax,           \* K_MAX
    Judged,         \* the levels the judge gives, "none" for no level
    Sevs,           \* what jev says of a finding
    JevOn,          \* the values of cfg.jev_enabled
    HasTests,       \* has the repository a test command?
    MaxOpen,        \* bound: findings open at a time
    Answers,        \* bound: answers that let a phase go on
    Faults,         \* bound: writes that fail
    Crashes         \* bound: deaths of the owner

Levels == {"blocker", "major", "minor", "nit"}
DebtLevels == {"minor", "nit"}

ASSUME SituationAssumption ==
    /\ {SonnetMax, CfgSonnetMax, MoleRounds, PolishMinRound, MaxDebt,
        MaxRounds, MoreRounds, KMax, MaxOpen, Answers, Faults, Crashes} \subseteq Nat
    /\ Judged \subseteq Levels \cup {"none"}
    /\ Sevs \subseteq Levels \cup {"unsure"}
    /\ JevOn \subseteq BOOLEAN /\ HasTests \in BOOLEAN

VARIABLES
    (* the owner *)
    pc,        \* where it is
    round,     \* st.round
    limit,     \* round_limit()
    open,      \* st.open_findings
    cont,      \* in_continuation(st)
    flat,      \* st.kmax_flat
    pending,   \* st.debt_pending
    why,       \* halt: the reason; commit: the way the phase ships
    jev,       \* cfg.jev_enabled
    tests,     \* has the runner a test command?
    (* its files *)
    hist,      \* state.json: situation[N]
    debt,      \* state.json: debt
    md,        \* debt.md
    (* what is compared *)
    owed,      \* what the judge's last verdict on this tree has left open ...
    forgotten, \* ... of that, what a later runner does not know of
    faults, crashes, answers

st == <<open, cont, flat, pending>>
files == <<hist, debt, md>>
counts == <<faults, crashes, answers>>
left == <<owed, forgotten>>
vars == <<pc, round, limit, st, why, jev, tests, files, left, counts>>

Rounds == 1 .. MaxRounds + Answers * MoreRounds
Finding == [born : Rounds, n : 1 .. MaxOpen, level : Levels \cup {"none"}]
Row == [round : Rounds, new : BOOLEAN, open : BOOLEAN, rated : BOOLEAN,
        player : {"muse", "sonnet"}]
Whys == {"polish", "opus", "skip", "rollback"}
Entry == [of : Finding, round : Rounds, why : Whys]
Reasons == {"stuck", "fuse", "user", "secrets"}
Ends == {"ship", "skip", "host", "rollback", "stop"}

TypeOK ==
    /\ pc \in {"round", "judge", "opus", "gate", "commit", "md", "halt", "over"}
    /\ round \in {0} \cup Rounds /\ limit \in Rounds
    /\ open \subseteq Finding /\ owed \subseteq Finding
    /\ forgotten \subseteq owed
    /\ cont \in BOOLEAN /\ flat \in 0 .. KMax
    /\ pending \in Seq(SUBSET Entry)
    /\ why \in {"none"} \cup Reasons \cup Ends
    /\ jev \in BOOLEAN /\ tests \in BOOLEAN
    /\ hist.rows \in Seq(Row) /\ hist.opus \in {0} \cup Rounds
    /\ hist.owner \in {0} \cup Rounds
    /\ debt \in Seq(SUBSET Entry) /\ md \subseteq Finding

NoSituation == [rows |-> <<>>, opus |-> 0, owner |-> 0]

Init ==
    /\ pc = "round" /\ round = 0 /\ limit = MaxRounds
    /\ open = {} /\ cont = FALSE /\ flat = 0 /\ pending = <<>>
    /\ why = "none" /\ jev \in JevOn /\ tests = HasTests
    /\ hist = NoSituation /\ debt = <<>> /\ md = {}
    /\ owed = {} /\ forgotten = {} /\ faults = 0 /\ crashes = 0 /\ answers = 0

\* A write of state.json: a failure is printed, and no more (RunState.update).
Wrote == UNCHANGED faults
Fails == faults < Faults /\ faults' = faults + 1

\* _note_round: Opus or the owner has said "more" in this round.
NoteRound(by) ==
    \/ Wrote /\ hist' = [hist EXCEPT ![by] = round]
    \/ Fails /\ UNCHANGED hist

\* _append_history
AppendHistory(now) ==
    \/ Wrote /\ hist' = now
    \/ Fails /\ UNCHANGED hist

----------------------------------------------------------------------------
(* What the history says (situation.py).                                   *)

Rank == [blocker |-> 1, major |-> 2, minor |-> 3, nit |-> 4]

\* _level: the heavier of what the judge and a sure jev say.
Level(judge, sev) ==
    LET said == {judge, sev} \cap Levels
    IN IF said = {} THEN "none"
       ELSE CHOOSE l \in said : \A other \in said : Rank[l] <= Rank[other]

\* _known_blocker
KnownBlocker(judge, sev) == judge = "blocker" \/ sev \in {"blocker", "unsure"}

\* Mutant: what has outlived a repair is not looked at.
DebtOk_NewOnly(new, still, answered) ==
    /\ jev /\ new # {} => answered
    /\ \A f \in new : f.level = "nit"

\* _debt_ok: what is new is a nit, what has outlived a repair at most minor.
DebtOk(new, still, answered) ==
    /\ jev /\ new # {} => answered
    /\ \A f \in new : f.level = "nit"
    /\ \A f \in still : f.level \in DebtLevels

Sonnets(rows) == {i \in DOMAIN rows : rows[i].player = "sonnet"}

\* stuck: of the last three rounds two have left a finding open, or the last
\* one has found nothing new.
Stuck(rows) ==
    /\ Last(rows).open
    /\ \/ ~Last(rows).new
       \/ \E i \in DOMAIN rows : i # Len(rows) /\ i > Len(rows) - 3 /\ rows[i].open

\* mole: one new blocker after another; one that stays open is put up with
\* when Sonnet has played before.
Mole(rows) ==
    LET window == (Len(rows) - MoleRounds + 1) .. Len(rows)
        tails == {i \in window : rows[i].open}
    IN /\ Len(rows) > MoleRounds
       /\ \A i \in window : rows[i].rated
       /\ \/ tails = {}
          \/ /\ Sonnets(rows) # {} /\ Cardinality(tails) = 1
             /\ \A i \in tails : \E s \in Sonnets(rows) : s <= i

\* _diagnose, with the action in place of the situation where one has a name.
Situation(rows, sonnets, most, small) ==
    CASE Stuck(rows) -> IF sonnets >= most THEN "opus_decides" ELSE "sonnet_player"
      [] ~Stuck(rows) /\ Mole(rows) -> "opus_decides"
      [] ~Stuck(rows) /\ ~Mole(rows) ->
            IF Last(rows).round >= PolishMinRound /\ small THEN "ship_with_debt"
            ELSE "continue"

\* diagnose: only the rounds after Opus or the owner has said "more" count,
\* and Opus is asked once.
Diagnose(h, most, small) ==
    LET reset == IF h.opus > h.owner THEN h.opus ELSE h.owner
        After(row) == row.round > reset
        later == SelectSeq(h.rows, After)
        rows == IF later = <<>> THEN <<Last(h.rows)>> ELSE later
        action == Situation(rows, Cardinality(Sonnets(h.rows)), most, small)
    IN IF action = "opus_decides" /\ h.opus > 0 THEN "ask_owner" ELSE action

\* player_identity, next_player: Sonnet plays when the phase is stuck.
Player ==
    IF ~cont /\ hist.rows # <<>> /\ Diagnose(hist, SonnetMax, FALSE) = "sonnet_player"
    THEN "sonnet" ELSE "muse"

----------------------------------------------------------------------------
Goes(to) == pc' = to /\ UNCHANGED <<jev, tests>>
Halts(reason) == Goes("halt") /\ why' = reason

\* The head of a round, its player and its gate.
Fuse ==
    /\ pc = "round" /\ round + 1 > limit
    /\ Halts("fuse")
    /\ UNCHANGED <<round, limit, st, files, left, counts>>

Play ==
    /\ pc = "round" /\ round + 1 <= limit
    /\ round' = round + 1
    /\ \/ Goes("judge") /\ UNCHANGED <<cont, why>>
       \/ Goes("round") /\ cont' = TRUE /\ UNCHANGED why
       \/ Goes("round") /\ UNCHANGED <<cont, why>>
       \/ ~cont /\ Halts("stuck") /\ UNCHANGED cont
    /\ UNCHANGED <<limit, open, flat, pending, files, left, counts>>

\* SHIP: every open finding is resolved.
JudgeShips ==
    /\ pc = "judge"
    /\ Goes("gate") /\ why' = "ship"
    /\ owed' = {} /\ forgotten' = {}
    /\ UNCHANGED <<round, limit, st, files, counts>>

JudgeAsks ==
    /\ pc = "judge"
    /\ Halts("user")
    /\ UNCHANGED <<round, limit, st, files, left, counts>>

\* apply_verdict_continuation: no action; after too many rounds in which
\* nothing was resolved and no less was found, the phase starts afresh.
Continues(still) ==
    \E worse \in BOOLEAN :
        LET now == IF worse /\ still = open THEN flat + 1 ELSE 0
        IN /\ cont' = (now < KMax)
           /\ flat' = IF now < KMax THEN now ELSE 0
           /\ Goes("round") /\ UNCHANGED <<pending, why>>

\* pending_debt_entries, over_cap
Entries(findings, kind) ==
    {[of |-> f, round |-> round, why |-> kind] : f \in findings}
Size(items) == FoldLeft(LAMBDA n, item : n + Cardinality(item), 0, items)
OverCap(findings) == Size(debt) + Cardinality(findings) > MaxDebt

\* situational_action
Acts(action, found) ==
    /\ UNCHANGED <<cont, flat>>
    /\ CASE action = "ship_with_debt" /\ OverCap(found) ->
              Halts("stuck") /\ UNCHANGED pending
         [] action = "ship_with_debt" /\ ~OverCap(found) ->
              /\ Goes("gate") /\ why' = "ship"
              /\ pending' = <<Entries(found, "polish")>>
         [] action = "ask_owner" -> Halts("stuck") /\ UNCHANGED pending
         [] action = "opus_decides" -> Goes("opus") /\ UNCHANGED <<pending, why>>
         [] OTHER -> Goes("round") /\ UNCHANGED <<pending, why>>

\* NO_SHIP (record_situation, apply_verdict): each open finding is resolved or
\* not, and there may be new ones; the row of the round may not be saved.
NoShip(still, ratings, answered) ==
    LET new == {[born |-> round, n |-> i,
                 level |-> Level(ratings[i].judge,
                                 IF answered THEN ratings[i].sev ELSE "none")] :
                i \in DOMAIN ratings}
        row == [round |-> round, new |-> new # {}, open |-> still # {},
                rated |-> \E i \in DOMAIN ratings :
                             KnownBlocker(ratings[i].judge,
                                          IF answered THEN ratings[i].sev ELSE "none"),
                player |-> Player]
        now == [hist EXCEPT !.rows = Append(@, row)]
    IN /\ AppendHistory(now)
       /\ open' = still \cup new
       /\ owed' = open' /\ forgotten' = {}
       /\ IF cont THEN Continues(still)
          ELSE Acts(Diagnose(now, CfgSonnetMax, DebtOk(new, still, answered)), open')

\* maybe_query_jev: has jev answered?
JevAnswers == {FALSE, jev}

Judges ==
    /\ pc = "judge"
    /\ \E still \in SUBSET open, n \in 0 .. MaxOpen, answered \in JevAnswers :
          /\ n + Cardinality(still) \in 1 .. MaxOpen
          /\ \E ratings \in [1 .. n -> [judge : Judged, sev : Sevs]] :
                NoShip(still, ratings, answered)
    /\ UNCHANGED <<round, limit, debt, md, crashes, answers>>

\* resolve: Opus says more, asks the owner or fails to answer, or ships with a
\* debt, unless a finding is hard.
HasHard(findings) == \E f \in findings : f.level \notin DebtLevels
Opus(decision) ==
    /\ pc = "opus"
    /\ \/ /\ decision = "more" \/ (decision = "ship_with_debt" /\ HasHard(open))
          /\ NoteRound("opus")
          /\ Goes("round") /\ UNCHANGED <<pending, why>>
       \/ /\ decision = "ship_with_debt" /\ ~HasHard(open) /\ ~OverCap(open)
          /\ pending' = Append(pending, Entries(open, "opus"))
          /\ Goes("gate") /\ why' = "ship"
          /\ UNCHANGED <<hist, faults>>
       \/ /\ decision = "ask_owner" \/ (decision = "ship_with_debt"
                                        /\ ~HasHard(open) /\ OverCap(open))
          /\ Halts("stuck") /\ UNCHANGED <<pending, hist, faults>>
    /\ UNCHANGED <<round, limit, open, cont, flat, debt, md, left, crashes, answers>>

----------------------------------------------------------------------------
(* The end of a phase, with its debt.                                      *)

Over(as) == Goes("over") /\ why' = as

\* _skip_rollback: the tree is taken back, and the phase itself is the debt.
PhaseDebt == [of |-> [born |-> 1, n |-> 1, level |-> "none"], round |-> 1,
              why |-> "rollback"]
RolledBack(before) ==
    /\ Over("rollback")
    /\ debt' = Append(before, {PhaseDebt})

\* A phase that cannot be shipped goes on with its next round, and one that was
\* skipped is rolled back.
NotShipped(before) ==
    IF why = "skip" THEN RolledBack(before)
    ELSE Goes("round") /\ debt' = before /\ UNCHANGED why

\* _full_gate_before_ship; a red gate drops the debt.
Gate ==
    /\ pc = "gate"
    /\ \/ Goes("commit") /\ UNCHANGED <<pending, why, debt>>
       \/ tests /\ NotShipped(debt) /\ pending' = <<>>
    /\ UNCHANGED <<round, limit, open, cont, flat, hist, md, left, counts>>

\* Mutant: the item is not read back.
CommitItem_Unread ==
    /\ pc = "commit" /\ pending # <<>>
    /\ \/ Wrote /\ debt' = Append(debt, Head(pending))
       \/ Fails /\ UNCHANGED debt
    /\ Goes("md") /\ UNCHANGED why
    /\ UNCHANGED <<round, limit, st, hist, md, left, crashes, answers>>

\* commit_pending, append_debt: an item is written to state.json, and read back ...
CommitItem ==
    /\ pc = "commit" /\ pending # <<>>
    /\ \/ /\ Wrote
          /\ debt' = Append(debt, Head(pending))
          /\ Goes("md") /\ UNCHANGED why
       \/ Fails /\ NotShipped(debt)
    /\ UNCHANGED <<round, limit, st, hist, md, left, crashes, answers>>

\* ... and then to debt.md; when that fails state.json is taken back, if it can
\* be.
CommitMd ==
    /\ pc = "md"
    /\ \/ /\ Wrote
          /\ md' = md \cup {e.of : e \in Head(pending)}
          /\ pending' = Tail(pending)
          /\ Goes("commit") /\ UNCHANGED <<why, debt>>
       \/ /\ Fails /\ UNCHANGED <<md, pending>>
          /\ \E before \in {debt, Front(debt)} : NotShipped(before)
    /\ UNCHANGED <<round, limit, open, cont, flat, hist, left, crashes, answers>>

\* _ship, _ship_tree: the commit, unless it holds secrets.
Committed ==
    /\ pc = "commit" /\ pending = <<>>
    /\ \/ Over(why) /\ UNCHANGED debt
       \/ IF why = "skip" THEN RolledBack(debt)
          ELSE Halts("secrets") /\ UNCHANGED debt
    /\ UNCHANGED <<round, limit, st, hist, md, left, counts>>

----------------------------------------------------------------------------
(* The question of a halt.                                                 *)

Fresh == open' = {} /\ pending' = <<>> /\ cont' = FALSE /\ flat' = 0
AtLeastNext(most) == IF most > round THEN most ELSE round + 1

\* The tree stays as it is and what is open in it with it; the next runner
\* (_PhaseRunner, whose _State is new) knows of none of it.
TreeStays == owed' = owed /\ forgotten' = owed
TreeGoesBack == owed' = {} /\ forgotten' = {}

\* A new runner of the same phase (_go_on).
Runner(to) ==
    /\ pc' = "round" /\ why' = "none" /\ tests' = HasTests
    /\ Fresh /\ limit' = to
    /\ UNCHANGED jev

Answered == answers < Answers /\ answers' = answers + 1
More ==
    /\ pc = "halt" /\ why \in {"stuck", "fuse"} /\ Answered
    /\ \/ why = "stuck" /\ NoteRound("owner")
       \/ why = "fuse" /\ Wrote /\ UNCHANGED hist
    /\ Runner(round + MoreRounds) /\ TreeStays
    /\ UNCHANGED <<round, debt, md, crashes>>

\* answer, model, allow, retry; only the retry after secrets takes the tree back.
GoOn ==
    /\ pc = "halt" /\ Answered
    /\ TreeStays \/ (why = "secrets" /\ TreeGoesBack)
    /\ Runner(AtLeastNext(IF why = "user" THEN MaxRounds ELSE limit))
    /\ UNCHANGED <<round, files, faults, crashes>>

\* skip (_skip_ship): the open findings are the debt of the phase.
SkipDebt == IF open = {} THEN <<>> ELSE <<Entries(open, "skip")>>
Skip ==
    /\ pc = "halt"
    /\ \/ /\ Goes("gate") /\ why' = "skip"
          /\ pending' = SkipDebt /\ UNCHANGED debt
       \/ RolledBack(debt) /\ UNCHANGED pending
    /\ UNCHANGED <<round, limit, open, cont, flat, hist, md, left, counts>>

HostShip ==
    /\ pc = "halt" /\ why = "fuse"
    /\ Over("host")
    /\ UNCHANGED <<round, limit, st, files, left, counts>>

Stop ==
    /\ pc = "halt"
    /\ Over("stop")
    /\ UNCHANGED <<round, limit, st, files, left, counts>>

\* The owner dies.  A resumed question has a runner of its own, without tests
\* (make_wait_runner); else the phase is run again.
Die ==
    /\ crashes < Crashes /\ crashes' = crashes + 1 /\ pc # "over"
    /\ Fresh /\ limit' = MaxRounds
    /\ IF pc = "halt"
       THEN tests' = FALSE /\ TreeStays /\ UNCHANGED <<pc, why>>
       ELSE pc' = "round" /\ why' = "none" /\ TreeGoesBack /\ UNCHANGED tests
    /\ UNCHANGED <<round, jev, files, faults, answers>>

\* parse_decision: what is none of these, or no answer at all, asks the owner.
Decisions == {"more", "ship_with_debt", "ask_owner"}

Decides == \E decision \in Decisions : Opus(decision)
Next ==
    \/ Fuse \/ Play \/ JudgeShips \/ JudgeAsks \/ Judges \/ Decides
    \/ Gate \/ CommitItem \/ CommitMd \/ Committed
    \/ More \/ GoOn \/ Skip \/ HostShip \/ Stop
    \/ Die

Spec == Init /\ [][Next]_vars

----------------------------------------------------------------------------
\* Neither the history nor Opus ships a phase over a finding that matters: an
\* entry of theirs is a nit, or minor and, when the history decides, has
\* outlived a repair.
DebtIsSmall ==
    \A i \in DOMAIN debt : \A e \in debt[i] :
        /\ e.why = "opus" => e.of.level \in DebtLevels
        /\ e.why = "polish" => \/ e.of.level = "nit"
                               \/ e.of.level = "minor" /\ e.of.born < e.round

\* Whatever write has failed before, a phase that the history or Opus ships
\* has each finding the judge's last verdict on the tree has left open in the
\* debt of state.json and in debt.md; and so has a phase the owner skips, but
\* for the findings its runner cannot know of: those of a verdict from before
\* the phase went on after a question, or the owner of the question died.
OpenIsDebt ==
    pc = "over" /\ why \in {"ship", "skip"} =>
        (IF why = "skip" THEN owed \ forgotten ELSE owed)
            \subseteq md \cap {e.of : e \in UNION Range(debt)}
=============================================================================
