--------------------------- MODULE Situation_proofs ---------------------------
(***************************************************************************)
(* Proofs about Situation, for any number of rounds, findings and answers, *)
(* any limits of the escalation and any writes that fail: what the history *)
(* or Opus ships as a debt is small, and what a phase is shipped with is   *)
(* in its debt.                                                            *)
(***************************************************************************)
EXTENDS Situation, SequenceTheorems, TLAPS

\* Findings, entries and items, for any number of rounds.
SomeFinding == [born : Nat, n : Nat, level : Levels \cup {"none"}]
SomeEntry == [of : SomeFinding, round : Nat, why : Whys]

\* What may be a debt, as DebtIsSmall says of one entry.
IsSmall(e) ==
    /\ e.why = "opus" => e.of.level \in DebtLevels
    /\ e.why = "polish" => \/ e.of.level = "nit"
                           \/ e.of.level = "minor" /\ e.of.born < e.round
SmallItem == SUBSET {e \in SomeEntry : IsSmall(e)}

\* Findings are found in the round that is judged, what is to be written is as
\* small as what is written, and it is written in its order.
SmallInv ==
    /\ round \in Nat
    /\ open \subseteq SomeFinding
    /\ \A f \in open : f.born <= round /\ (pc = "judge" => f.born < round)
    /\ debt \in Seq(SmallItem) /\ pending \in Seq(SmallItem)
    /\ pc = "md" => /\ pending # <<>> /\ debt # <<>>
                    /\ debt[Len(debt)] = Head(pending)

\* The findings of some items.
Of(items) == {e.of : e \in UNION Range(items)}
Recorded == md \cap Of(debt)

\* What the phase must have in its debt when it is shipped.
Due == IF why = "skip" THEN owed \ forgotten ELSE owed

\* What is owed and not forgotten is open, and Opus decides on a verdict of its
\* own runner; while the phase is shipped what is due is in both files or in
\* what is still to be written to them.
OweInv ==
    /\ pc # "over" => owed \ forgotten \subseteq open
    /\ pc = "opus" => forgotten = {}
    /\ pc \in {"gate", "commit", "md"} => Due \subseteq Recorded \cup Of(pending)
    /\ OpenIsDebt

----------------------------------------------------------------------------
(* Items.                                                                  *)

\* The findings of an item.
OfItem(item) == {e.of : e \in item}

LEMMA OfMembers ==
    ASSUME NEW S, NEW s \in Seq(SUBSET S), NEW x
    PROVE  x \in Of(s) <=> \E i \in 1 .. Len(s) : x \in OfItem(s[i])
<1>1. DOMAIN s = 1 .. Len(s)
  BY LenProperties
<1>2. \A y : y \in UNION Range(s) <=> \E i \in 1 .. Len(s) : y \in s[i]
  BY <1>1 DEF Range
<1> QED BY <1>2 DEF Of, OfItem

LEMMA OfAppend ==
    ASSUME NEW S, NEW s \in Seq(SUBSET S), NEW item \in SUBSET S
    PROVE  /\ Append(s, item) \in Seq(SUBSET S)
           /\ Of(Append(s, item)) = Of(s) \cup OfItem(item)
           /\ Append(s, item) # <<>>
           /\ Append(s, item)[Len(Append(s, item))] = item
<1> DEFINE t == Append(s, item)
<1>1. /\ t \in Seq(SUBSET S) /\ Len(t) = Len(s) + 1 /\ Len(s) \in Nat
      /\ \A i \in 1 .. Len(s) : t[i] = s[i]
      /\ t[Len(t)] = item /\ t # <<>>
  BY AppendProperties, LenProperties, EmptySeq
<1> HIDE DEF t
<1>2. ASSUME NEW x PROVE x \in Of(t) <=> x \in Of(s) \/ x \in OfItem(item)
  <2>1. x \in Of(s) <=> \E i \in 1 .. Len(s) : x \in OfItem(s[i])
    BY OfMembers
  <2>2. x \in Of(t) <=> \E i \in 1 .. Len(t) : x \in OfItem(t[i])
    BY <1>1, OfMembers
  <2>3. 1 .. Len(t) = (1 .. Len(s)) \cup {Len(t)}
    BY <1>1
  <2> QED BY <1>1, <2>1, <2>2, <2>3
<1> QED BY <1>1, <1>2 DEF t

LEMMA OfHead ==
    ASSUME NEW S, NEW s \in Seq(SUBSET S), s # <<>>
    PROVE  /\ Head(s) \in SUBSET S /\ Tail(s) \in Seq(SUBSET S)
           /\ Of(s) = OfItem(Head(s)) \cup Of(Tail(s))
<1> DEFINE t == Tail(s)
<1>1. /\ t \in Seq(SUBSET S) /\ Len(t) = Len(s) - 1 /\ Len(s) \in Nat \ {0}
      /\ \A i \in 1 .. Len(t) : t[i] = s[i + 1]
      /\ Head(s) \in SUBSET S
  BY HeadTailProperties, EmptySeq
<1>2. Head(s) = s[1]
  BY DEF Head
<1> HIDE DEF t
<1>3. ASSUME NEW x PROVE x \in Of(s) <=> x \in OfItem(Head(s)) \/ x \in Of(t)
  <2>1. x \in Of(s) <=> \E i \in 1 .. Len(s) : x \in OfItem(s[i])
    BY OfMembers
  <2>2. x \in Of(t) <=> \E i \in 1 .. Len(t) : x \in OfItem(t[i])
    BY <1>1, OfMembers
  <2>3. ASSUME NEW i \in 1 .. Len(s), i # 1
        PROVE  i - 1 \in 1 .. Len(t) /\ s[i] = t[i - 1]
    <3>1. i - 1 \in 1 .. Len(t) /\ (i - 1) + 1 = i
      BY <1>1, <2>3
    <3> QED BY <1>1, <3>1
  <2>4. \A i \in 1 .. Len(t) : i + 1 \in 1 .. Len(s)
    BY <1>1
  <2>5. 1 \in 1 .. Len(s)
    BY <1>1
  <2> QED BY <1>1, <1>2, <2>1, <2>2, <2>3, <2>4, <2>5
<1> QED BY <1>1, <1>3 DEF t

LEMMA OfLast ==
    ASSUME NEW S, NEW s \in Seq(SUBSET S), s # <<>>
    PROVE  /\ OfItem(s[Len(s)]) \subseteq Of(s)
           /\ Front(s) \in Seq(SUBSET S)
<1>1. Len(s) \in Nat \ {0}
  BY EmptySeq
<1>2. \A x \in OfItem(s[Len(s)]) : x \in Of(s)
  BY <1>1, OfMembers
<1>3. \A i \in 1 .. Len(s) - 1 : s[i] \in SUBSET S
  BY <1>1, ElementOfSeq
<1>4. Front(s) \in Seq(SUBSET S)
  BY <1>1, <1>3, SubSeqProperties DEF Front
<1> QED BY <1>2, <1>4

LEMMA OfFew ==
    ASSUME NEW S, NEW item \in SUBSET S
    PROVE  /\ <<item>> \in Seq(SUBSET S) /\ Of(<<item>>) = OfItem(item)
           /\ <<>> \in Seq(SUBSET S) /\ Of(<<>>) = {}
<1>1. <<>> \in Seq(SUBSET S) /\ Len(<<>>) = 0
  BY EmptySeq
<1>2. Of(<<>>) = {}
  <2>1. \A x : x \in Of(<<>>) <=> \E i \in 1 .. Len(<<>>) : x \in OfItem(<<>>[i])
    BY <1>1, OfMembers
  <2> QED BY <1>1, <2>1
<1>3. <<item>> = Append(<<>>, item)
  BY <1>1, AppendProperties
<1>4. \A s \in Seq(SUBSET S) : /\ Append(s, item) \in Seq(SUBSET S)
                               /\ Of(Append(s, item)) = Of(s) \cup OfItem(item)
  BY OfAppend
<1> QED BY <1>1, <1>2, <1>3, <1>4

\* The entries that are made of findings are theirs, and as small.
LEMMA EntriesOf ==
    ASSUME round \in Nat, NEW fs \in SUBSET SomeFinding, NEW kind \in Whys
    PROVE  /\ Entries(fs, kind) \in SUBSET SomeEntry
           /\ OfItem(Entries(fs, kind)) = fs
           /\ \A e \in Entries(fs, kind) :
                 e.of \in fs /\ e.why = kind /\ e.round = round
<1> DEFINE E(f) == [of |-> f, round |-> round, why |-> kind]
<1>1. \A f \in fs : /\ E(f) \in SomeEntry /\ E(f).of = f
                    /\ E(f).why = kind /\ E(f).round = round
  BY DEF SomeEntry
<1>2. Entries(fs, kind) = {E(f) : f \in fs}
  BY DEF Entries
<1> HIDE DEF E
<1> QED BY <1>1, <1>2 DEF OfItem

LEMMA PolishIsSmall ==
    ASSUME round \in Nat, NEW fs \in SUBSET SomeFinding,
           \A f \in fs : \/ f.level = "nit"
                         \/ f.level = "minor" /\ f.born < round
    PROVE  Entries(fs, "polish") \in SmallItem
BY EntriesOf DEF Whys, SmallItem, IsSmall

LEMMA OpusIsSmall ==
    ASSUME round \in Nat, NEW fs \in SUBSET SomeFinding, ~HasHard(fs)
    PROVE  Entries(fs, "opus") \in SmallItem
BY EntriesOf DEF Whys, SmallItem, IsSmall, HasHard

LEMMA SkipIsSmall ==
    ASSUME round \in Nat, NEW fs \in SUBSET SomeFinding
    PROVE  Entries(fs, "skip") \in SmallItem
BY EntriesOf DEF Whys, SmallItem, IsSmall

LEMMA PhaseDebtIsSmall == {PhaseDebt} \in SmallItem
BY DEF PhaseDebt, SmallItem, IsSmall, SomeEntry, SomeFinding, Whys

\* The same, of the items of the model.
LEMMA SmallAppend ==
    ASSUME NEW s \in Seq(SmallItem), NEW item \in SmallItem
    PROVE  /\ Append(s, item) \in Seq(SmallItem)
           /\ Of(Append(s, item)) = Of(s) \cup OfItem(item)
           /\ Append(s, item) # <<>>
           /\ Append(s, item)[Len(Append(s, item))] = item
<1> DEFINE S == {e \in SomeEntry : IsSmall(e)}
<1>1. SmallItem = SUBSET S
  BY DEF SmallItem
<1> HIDE DEF S
<1> QED BY <1>1, OfAppend

LEMMA SmallHead ==
    ASSUME NEW s \in Seq(SmallItem), s # <<>>
    PROVE  /\ Head(s) \in SmallItem /\ Tail(s) \in Seq(SmallItem)
           /\ Of(s) = OfItem(Head(s)) \cup Of(Tail(s))
           /\ OfItem(s[Len(s)]) \subseteq Of(s)
           /\ Front(s) \in Seq(SmallItem)
<1> DEFINE S == {e \in SomeEntry : IsSmall(e)}
<1>1. SmallItem = SUBSET S
  BY DEF SmallItem
<1> HIDE DEF S
<1> QED BY <1>1, OfHead, OfLast

LEMMA SmallFew ==
    ASSUME NEW item \in SmallItem
    PROVE  /\ <<item>> \in Seq(SmallItem) /\ Of(<<item>>) = OfItem(item)
           /\ <<>> \in Seq(SmallItem) /\ Of(<<>>) = {}
<1> DEFINE S == {e \in SomeEntry : IsSmall(e)}
<1>1. SmallItem = SUBSET S
  BY DEF SmallItem
<1> HIDE DEF S
<1>2. \A x \in SUBSET S : /\ <<x>> \in Seq(SUBSET S) /\ Of(<<x>>) = OfItem(x)
                          /\ <<>> \in Seq(SUBSET S) /\ Of(<<>>) = {}
  BY OfFew, Zenon
<1> QED BY <1>1, <1>2, Zenon

LEMMA NoItems == <<>> \in Seq(SmallItem) /\ Of(<<>>) = {}
<1>1. {} \in SmallItem
  BY DEF SmallItem
<1> QED BY <1>1, SmallFew

----------------------------------------------------------------------------
(* What the history says.                                                  *)

\* The heavier of two levels is one of them, or there is none.
LEMMA LevelType ==
    ASSUME NEW judge, NEW sev
    PROVE  Level(judge, sev) \in Levels \cup {"none"}
<1> DEFINE said == {judge, sev} \cap Levels
<1>1. CASE said = {}
  BY <1>1 DEF Level
<1>2. CASE said # {}
  <2>1. \E l \in said : \A other \in said : Rank[l] <= Rank[other]
    <3>1. \A l \in Levels : Rank[l] \in Nat
      BY DEF Levels, Rank
    <3>2. \A l \in Levels : Rank[l] <= Rank[l]
      BY <3>1
    <3>3. \A l, k \in Levels : Rank[l] <= Rank[k] \/ Rank[k] <= Rank[l]
      BY <3>1
    <3> QED BY <1>2, <3>2, <3>3
  <2> DEFINE level == CHOOSE l \in said : \A other \in said : Rank[l] <= Rank[other]
  <2>2. level \in said
    BY <2>1
  <2>3. Level(judge, sev) = level
    BY <1>2 DEF Level
  <2> HIDE DEF level
  <2> QED BY <2>2, <2>3
<1> QED BY <1>1, <1>2

\* The history ships a phase only when what is open is small.
LEMMA ShipsWhatIsSmall ==
    ASSUME NEW h, NEW most, NEW small, Diagnose(h, most, small) = "ship_with_debt"
    PROVE  small
<1>1. ASSUME NEW rows, NEW sonnets, Situation(rows, sonnets, most, small) = "ship_with_debt"
      PROVE  small
  <2>1. CASE Stuck(rows)
    BY <1>1, <2>1 DEF Situation
  <2>2. CASE ~Stuck(rows) /\ Mole(rows)
    BY <1>1, <2>2 DEF Situation
  <2>3. CASE ~Stuck(rows) /\ ~Mole(rows)
    BY <1>1, <2>3 DEF Situation
  <2> QED BY <2>1, <2>2, <2>3
<1>2. \E rows, sonnets : Situation(rows, sonnets, most, small) = "ship_with_debt"
  BY DEF Diagnose
<1> QED BY <1>1, <1>2

----------------------------------------------------------------------------
(* What is a debt is small.                                                *)

LEMMA RolledBackDoes ==
    ASSUME NEW before \in Seq(SmallItem), RolledBack(before)
    PROVE  /\ pc' = "over" /\ why' = "rollback"
           /\ debt' \in Seq(SmallItem)
BY SmallAppend, PhaseDebtIsSmall DEF RolledBack, Over, Goes

LEMMA NotShippedDoes ==
    ASSUME NEW before \in Seq(SmallItem), NotShipped(before)
    PROVE  /\ pc' = "round" \/ (pc' = "over" /\ why' = "rollback")
           /\ debt' \in Seq(SmallItem)
<1>1. CASE why = "skip"
  BY <1>1, RolledBackDoes DEF NotShipped
<1>2. CASE why # "skip"
  BY <1>2 DEF NotShipped, Goes
<1> QED BY <1>1, <1>2

LEMMA FreshIsSmall ==
    ASSUME SmallInv, Fresh, UNCHANGED <<round, debt>>, pc' # "md"
    PROVE  SmallInv'
BY NoItems DEF SmallInv, Fresh

LEMMA VerdictIsSmall ==
    ASSUME SmallInv, Judges
    PROVE  SmallInv'
<1>1. PICK still \in SUBSET open, n \in 0 .. MaxOpen, answered \in JevAnswers :
         \E ratings \in [1 .. n -> [judge : Judged, sev : Sevs]] :
            NoShip(still, ratings, answered)
  BY DEF Judges
<1>2. PICK ratings \in [1 .. n -> [judge : Judged, sev : Sevs]] :
         NoShip(still, ratings, answered)
  BY <1>1
<1>3. round' = round /\ debt' = debt /\ pc = "judge"
  BY DEF Judges
<1> DEFINE level(i) == Level(ratings[i].judge,
                             IF answered THEN ratings[i].sev ELSE "none")
           new == {[born |-> round, n |-> i, level |-> level(i)] :
                   i \in DOMAIN ratings}
<1>4. open' = still \cup new
  BY <1>2 DEF NoShip
<1>5. DOMAIN ratings = 1 .. n
  OBVIOUS
<1>6. \A i : level(i) \in Levels \cup {"none"}
  BY LevelType
<1> HIDE DEF level
<1>7. /\ new \in SUBSET SomeFinding
      /\ \A f \in new : f.born = round
  BY <1>5, <1>6 DEF SmallInv, SomeFinding
<1> HIDE DEF new
<1>8. /\ open' \in SUBSET SomeFinding
      /\ \A f \in open' : f.born <= round
  BY <1>4, <1>7 DEF SmallInv, SomeFinding
<1>9. pc' \notin {"judge", "md"} /\ pending' \in Seq(SmallItem)
  <2>1. CASE Continues(still)
    BY <2>1 DEF Continues, Goes, SmallInv
  <2>2. CASE \E h : Acts(Diagnose(h, CfgSonnetMax, DebtOk(new, still, answered)), open')
    <3>1. PICK h : Acts(Diagnose(h, CfgSonnetMax, DebtOk(new, still, answered)), open')
      BY <2>2
    <3> DEFINE action == Diagnose(h, CfgSonnetMax, DebtOk(new, still, answered))
    <3>2. CASE action = "ship_with_debt"
      <4>1. DebtOk(new, still, answered)
        BY <3>2, ShipsWhatIsSmall
      <4>2. \A f \in open' : f.level = "nit" \/ (f.level = "minor" /\ f.born < round)
        BY <1>3, <1>4, <4>1 DEF DebtOk, DebtLevels, SmallInv
      <4>3. Entries(open', "polish") \in SmallItem
        BY <1>8, <4>2, PolishIsSmall DEF SmallInv
      <4> HIDE DEF action
      <4>4. Acts(action, open')
        BY <3>1 DEF action
      <4>5. \/ pc' = "halt" /\ UNCHANGED pending
            \/ pc' = "gate" /\ pending' = <<Entries(open', "polish")>>
        BY <3>2, <4>4 DEF Acts, Halts, Goes
      <4> QED BY <4>3, <4>5, SmallFew DEF SmallInv
    <3>3. CASE action # "ship_with_debt"
      <4> HIDE DEF action
      <4>1. Acts(action, open')
        BY <3>1 DEF action
      <4>2. pc' \in {"halt", "opus", "round"} /\ UNCHANGED pending
        BY <3>3, <4>1 DEF Acts, Halts, Goes
      <4> QED BY <4>2 DEF SmallInv
    <3> QED BY <3>2, <3>3
  <2>3. Continues(still) \/ \E h : Acts(Diagnose(h, CfgSonnetMax, DebtOk(new, still, answered)), open')
    <3>1. CASE cont
      BY <1>2, <3>1 DEF NoShip
    <3>2. CASE ~cont
      <4> DEFINE row == [round |-> round, new |-> new # {}, open |-> still # {},
                         rated |-> \E i \in DOMAIN ratings :
                             KnownBlocker(ratings[i].judge,
                                          IF answered THEN ratings[i].sev ELSE "none"),
                         player |-> Player]
                 now == [hist EXCEPT !.rows = Append(@, row)]
      <4>1. Acts(Diagnose(now, CfgSonnetMax, DebtOk(new, still, answered)), open')
        BY <1>2, <3>2 DEF NoShip, new, level
      <4> QED BY <4>1
    <3> QED BY <3>1, <3>2
  <2> QED BY <2>1, <2>2, <2>3
<1> QED BY <1>3, <1>8, <1>9 DEF SmallInv

LEMMA NextSmall ==
    ASSUME SmallInv, Next
    PROVE  SmallInv'
<1> USE DEF SmallInv
<1>1. CASE Fuse \/ JudgeShips \/ JudgeAsks \/ HostShip \/ Stop
  <2>1. UNCHANGED <<round, open, debt, pending>> /\ pc' \notin {"judge", "md"}
    BY <1>1 DEF Fuse, JudgeShips, JudgeAsks, HostShip, Stop, Halts, Goes, Over, st, files
  <2> QED BY <2>1
<1>2. CASE Play
  <2>1. round' = round + 1 /\ UNCHANGED <<open, debt, pending>> /\ pc' # "md"
    BY <1>2 DEF Play, files, Goes, Halts
  <2>2. \A f \in open : f.born \in Nat /\ f.born <= round
    BY DEF SomeFinding
  <2> QED BY <2>1, <2>2
<1>3. CASE Judges
  BY <1>3, VerdictIsSmall
<1>4. CASE Decides
  <2>1. /\ UNCHANGED <<round, open, debt>> /\ pc' \notin {"judge", "md"}
        /\ \/ UNCHANGED pending
           \/ ~HasHard(open) /\ pending' = Append(pending, Entries(open, "opus"))
    BY <1>4 DEF Decides, Opus, Halts, Goes
  <2>2. ~HasHard(open) => Entries(open, "opus") \in SmallItem
    BY OpusIsSmall
  <2>3. pending' \in Seq(SmallItem)
    BY <2>1, <2>2, SmallAppend
  <2> QED BY <2>1, <2>3
<1>5. CASE Gate
  <2>1. CASE pc' = "commit" /\ UNCHANGED <<pending, debt>>
    BY <1>5, <2>1 DEF Gate
  <2>2. CASE NotShipped(debt) /\ pending' = <<>>
    <3>1. debt' \in Seq(SmallItem) /\ pc' \notin {"judge", "md"}
      BY <2>2, NotShippedDoes
    <3>2. UNCHANGED <<round, open>>
      BY <1>5 DEF Gate
    <3> QED BY <2>2, <3>1, <3>2, NoItems
  <2> QED BY <1>5, <2>1, <2>2 DEF Gate, Goes
<1>6. CASE CommitItem
  <2>1. pending # <<>> /\ UNCHANGED <<round, open, pending>> /\ Head(pending) \in SmallItem
    BY <1>6, SmallHead DEF CommitItem, st
  <2>2. CASE debt' = Append(debt, Head(pending)) /\ pc' = "md"
    <3>1. /\ debt' \in Seq(SmallItem) /\ debt' # <<>>
          /\ debt'[Len(debt')] = Head(pending)
      BY <2>1, <2>2, SmallAppend
    <3>2. Head(pending') = Head(pending)
      BY <2>1
    <3> QED BY <2>1, <2>2, <3>1, <3>2
  <2>3. CASE NotShipped(debt)
    <3>1. debt' \in Seq(SmallItem) /\ pc' \notin {"judge", "md"}
      BY <2>3, NotShippedDoes
    <3> QED BY <2>1, <3>1
  <2> QED BY <1>6, <2>2, <2>3 DEF CommitItem, Goes
<1>7. CASE CommitMd
  <2>1. UNCHANGED <<round, open>> /\ pending # <<>> /\ debt # <<>>
    BY <1>7 DEF CommitMd
  <2>2. Tail(pending) \in Seq(SmallItem) /\ Front(debt) \in Seq(SmallItem)
    BY <2>1, SmallHead
  <2>3. CASE pc' = "commit" /\ pending' = Tail(pending) /\ UNCHANGED debt
    BY <2>1, <2>2, <2>3
  <2>4. ASSUME NEW before \in {debt, Front(debt)}, NotShipped(before),
               UNCHANGED pending
        PROVE  SmallInv'
    <3>1. debt' \in Seq(SmallItem) /\ pc' \notin {"judge", "md"}
      BY <2>2, <2>4, NotShippedDoes
    <3> QED BY <2>1, <2>4, <3>1
  <2> QED BY <1>7, <2>3, <2>4 DEF CommitMd, Goes
<1>8. CASE Committed
  <2>1. UNCHANGED <<round, open, pending>>
    BY <1>8 DEF Committed, st
  <2>2. CASE UNCHANGED debt /\ pc' \in {"over", "halt"}
    BY <2>1, <2>2
  <2>3. CASE RolledBack(debt)
    BY <2>1, <2>3, RolledBackDoes
  <2> QED BY <1>8, <2>2, <2>3 DEF Committed, Over, Halts, Goes
<1>9. CASE More \/ GoOn \/ Die
  <2>1. Fresh /\ UNCHANGED <<round, debt>> /\ pc' # "md"
    BY <1>9 DEF More, GoOn, Die, Runner, files
  <2> QED BY <2>1, FreshIsSmall
<1>10. CASE Skip
  <2>1. UNCHANGED <<round, open>>
    BY <1>10 DEF Skip
  <2>2. CASE RolledBack(debt) /\ UNCHANGED pending
    BY <2>1, <2>2, RolledBackDoes
  <2>3. CASE pc' = "gate" /\ pending' = SkipDebt /\ UNCHANGED debt
    <3>1. SkipDebt \in Seq(SmallItem)
      <4>1. CASE open = {}
        BY <4>1, NoItems DEF SkipDebt
      <4>2. CASE open # {}
        <5>1. Entries(open, "skip") \in SmallItem
          BY SkipIsSmall
        <5> QED BY <4>2, <5>1, SmallFew DEF SkipDebt
      <4> QED BY <4>1, <4>2
    <3> QED BY <2>1, <2>3, <3>1
  <2> QED BY <1>10, <2>2, <2>3 DEF Skip, Goes
<1> QED BY <1>1, <1>2, <1>3, <1>4, <1>5, <1>6, <1>7, <1>8, <1>9, <1>10 DEF Next

LEMMA InitSmall == Init => SmallInv
BY NoItems DEF Init, SmallInv

LEMMA SmallIsKept == Spec => []SmallInv
<1>1. ASSUME SmallInv, UNCHANGED vars PROVE SmallInv'
  BY <1>1 DEF SmallInv, vars, st, files
<1>2. SmallInv /\ [Next]_vars => SmallInv'
  BY <1>1, NextSmall
<1> QED BY <1>2, InitSmall, PTL DEF Spec

\* What the history or Opus puts into the debt of a phase is a nit, or minor
\* and, when the history decides, has outlived a repair: _debt_ok and
\* _has_hard look at every open finding before each decision, and what is
\* left of a decision whose writes have failed was as small when it was made.
THEOREM ADebtIsSmall == Spec => []DebtIsSmall
<1>1. SmallInv => DebtIsSmall
  <2> SUFFICES ASSUME SmallInv, NEW i \in DOMAIN debt, NEW e \in debt[i]
               PROVE  IsSmall(e)
    BY DEF DebtIsSmall, IsSmall
  <2>1. debt[i] \in SmallItem
    BY LenProperties, ElementOfSeq DEF SmallInv
  <2> QED BY <2>1 DEF SmallItem
<1> QED BY <1>1, SmallIsKept, PTL

----------------------------------------------------------------------------
(* What is open is owed, and written.                                      *)

\* A phase that is not being shipped.
LEMMA NothingShips ==
    ASSUME OweInv,
           \/ /\ pc' \in {"round", "judge", "opus", "halt"}
              /\ owed' \ forgotten' \subseteq open'
              /\ pc' = "opus" => forgotten' = {}
           \/ pc' = "over" /\ why' \in {"rollback", "host", "stop"}
    PROVE  OweInv'
BY DEF OweInv, OpenIsDebt

\* What a verdict or a halt ships is to be written, all of it.
LEMMA ShippedIsPending ==
    ASSUME OweInv, pc' = "gate", owed' \ forgotten' \subseteq open',
           owed' \ (IF why' = "skip" THEN forgotten' ELSE {}) \subseteq Of(pending')
    PROVE  OweInv'
BY DEF OweInv, OpenIsDebt, Due

LEMMA OfSkipDebt ==
    ASSUME SmallInv PROVE Of(SkipDebt) = open
<1>1. CASE open = {}
  BY <1>1, NoItems DEF SkipDebt
<1>2. CASE open # {}
  <2>1. Entries(open, "skip") \in SmallItem /\ OfItem(Entries(open, "skip")) = open
    BY SkipIsSmall, EntriesOf DEF SmallInv, Whys
  <2> QED BY <1>2, <2>1, SmallFew DEF SkipDebt
<1> QED BY <1>1, <1>2

LEMMA VerdictIsOwed ==
    ASSUME SmallInv, OweInv, Judges PROVE OweInv'
<1>1. PICK still \in SUBSET open, n \in 0 .. MaxOpen, answered \in JevAnswers :
         \E ratings \in [1 .. n -> [judge : Judged, sev : Sevs]] :
            NoShip(still, ratings, answered)
  BY DEF Judges
<1>2. PICK ratings \in [1 .. n -> [judge : Judged, sev : Sevs]] :
         NoShip(still, ratings, answered)
  BY <1>1
<1>3. owed' = open' /\ forgotten' = {} /\ round' = round
  BY <1>2 DEF NoShip, Judges
<1>4. open' \in SUBSET SomeFinding /\ round \in Nat
  BY VerdictIsSmall DEF SmallInv
<1>5. CASE Continues(still)
  BY <1>3, <1>5, NothingShips DEF Continues, Goes
<1>6. CASE \E action : Acts(action, open')
  <2>1. PICK action : Acts(action, open')
    BY <1>6
  <2>2. CASE pc' = "gate" /\ pending' = <<Entries(open', "polish")>>
    <3> DEFINE item == Entries(open', "polish")
    <3>1. OfItem(item) = open'
      BY <1>4, EntriesOf DEF Whys
    <3>2. item \in SUBSET SomeEntry
      BY <1>4, EntriesOf DEF Whys
    <3> HIDE DEF item
    <3>3. Of(<<item>>) = OfItem(item)
      BY <3>2, OfFew, Zenon
    <3> QED BY <1>3, <2>2, <3>1, <3>3, ShippedIsPending DEF item
  <2>3. CASE pc' \in {"halt", "opus", "round"}
    BY <1>3, <2>3, NothingShips
  <2> QED BY <2>1, <2>2, <2>3 DEF Acts, Halts, Goes
<1> QED BY <1>2, <1>5, <1>6, Zenon DEF NoShip

LEMMA NextOwed ==
    ASSUME SmallInv, OweInv, Next
    PROVE  OweInv'
<1>0. /\ pc # "over" => owed \ forgotten \subseteq open
      /\ pc = "opus" => forgotten = {}
  BY DEF OweInv
<1>1. CASE Fuse \/ Play \/ JudgeAsks
  <2>1. /\ UNCHANGED <<open, owed, forgotten>> /\ pc # "over"
        /\ pc' \in {"round", "judge", "halt"}
    BY <1>1 DEF Fuse, Play, JudgeAsks, Halts, Goes, st, left
  <2> QED BY <1>0, <2>1, NothingShips
<1>2. CASE JudgeShips
  BY <1>2, ShippedIsPending DEF JudgeShips, Goes
<1>3. CASE Judges
  BY <1>3, VerdictIsOwed
<1>4. CASE Decides
  <2>1. pc = "opus" /\ UNCHANGED <<open, owed, forgotten>>
    BY <1>4 DEF Decides, Opus, left
  <2>2. CASE pc' \in {"round", "halt"}
    BY <1>0, <2>1, <2>2, NothingShips
  <2>3. CASE /\ pc' = "gate" /\ ~HasHard(open)
             /\ pending' = Append(pending, Entries(open, "opus"))
    <3> DEFINE item == Entries(open, "opus")
    <3>1. item \in SmallItem /\ OfItem(item) = open
      BY <2>3, OpusIsSmall, EntriesOf DEF SmallInv, Whys
    <3> HIDE DEF item
    <3>2. Of(Append(pending, item)) = Of(pending) \cup OfItem(item)
      BY <3>1, SmallAppend DEF SmallInv
    <3> QED BY <1>0, <2>1, <2>3, <3>1, <3>2, ShippedIsPending DEF item
  <2> QED BY <1>4, <2>2, <2>3 DEF Decides, Opus, Halts, Goes
<1>5. CASE Gate
  <2>1. pc = "gate" /\ UNCHANGED <<open, owed, forgotten, md>>
    BY <1>5 DEF Gate, left
  <2>2. CASE pc' = "commit" /\ UNCHANGED <<pending, debt, why>>
    BY <2>1, <2>2 DEF OweInv, Recorded, OpenIsDebt, Due
  <2>3. CASE NotShipped(debt)
    BY <1>0, <2>1, <2>3, NotShippedDoes, NothingShips DEF SmallInv
  <2> QED BY <1>5, <2>2, <2>3 DEF Gate, Goes
<1>6. CASE CommitItem
  <2>1. /\ pc = "commit" /\ pending # <<>>
        /\ UNCHANGED <<open, owed, forgotten, md, pending>>
        /\ Head(pending) \in SmallItem
    BY <1>6, SmallHead DEF CommitItem, st, left, SmallInv
  <2>2. CASE debt' = Append(debt, Head(pending)) /\ pc' = "md" /\ UNCHANGED why
    <3>1. Of(debt) \subseteq Of(debt')
      BY <2>1, <2>2, SmallAppend DEF SmallInv
    <3>2. Of(pending') = Of(pending)
      BY <2>1
    <3> QED BY <2>1, <2>2, <3>1, <3>2 DEF OweInv, Recorded, OpenIsDebt, Due
  <2>3. CASE NotShipped(debt)
    BY <1>0, <2>1, <2>3, NotShippedDoes, NothingShips DEF SmallInv
  <2> QED BY <1>6, <2>2, <2>3 DEF CommitItem, Goes
<1>7. CASE CommitMd
  <2>1. /\ pc = "md" /\ pending # <<>> /\ debt # <<>>
        /\ UNCHANGED <<open, owed, forgotten>>
        /\ debt[Len(debt)] = Head(pending)
    BY <1>7 DEF CommitMd, SmallInv, left
  <2>2. CASE /\ pc' = "commit" /\ pending' = Tail(pending) /\ UNCHANGED <<debt, why>>
             /\ md' = md \cup OfItem(Head(pending))
    <3>1. /\ Of(pending) = OfItem(Head(pending)) \cup Of(pending')
          /\ OfItem(Head(pending)) \subseteq Of(debt)
      BY <2>1, <2>2, SmallHead DEF SmallInv
    <3>2. Of(debt') = Of(debt)
      BY <2>2
    <3>3. Due \subseteq (md \cap Of(debt)) \cup Of(pending)
      BY <2>1 DEF OweInv, Recorded
    <3>4. Due' = Due
      BY <2>1, <2>2 DEF Due
    <3> QED BY <1>0, <2>1, <2>2, <3>1, <3>2, <3>3, <3>4
            DEF OweInv, Recorded, OpenIsDebt
  <2>3. ASSUME NEW before \in {debt, Front(debt)}, NotShipped(before)
        PROVE  OweInv'
    <3>1. before \in Seq(SmallItem)
      BY <2>1, SmallHead DEF SmallInv
    <3> QED BY <1>0, <2>1, <2>3, <3>1, NotShippedDoes, NothingShips
  <2> QED BY <1>7, <2>2, <2>3 DEF CommitMd, Goes, OfItem
<1>8. CASE Committed
  <2>1. pc = "commit" /\ pending = <<>> /\ UNCHANGED <<open, owed, forgotten, md>>
    BY <1>8 DEF Committed, st, left
  <2>2. CASE pc' = "over" /\ UNCHANGED <<debt, why>>
    <3>1. Due \subseteq md \cap Of(debt)
      BY <2>1, NoItems DEF OweInv, Recorded
    <3>2. Of(debt') = Of(debt) /\ OpenIsDebt'
      BY <2>1, <2>2, <3>1 DEF OpenIsDebt, Of, Due
    <3> QED BY <2>2, <3>2 DEF OweInv
  <2>3. CASE RolledBack(debt)
    BY <2>1, <2>3, RolledBackDoes, NothingShips DEF SmallInv
  <2>4. CASE pc' = "halt"
    BY <1>0, <2>1, <2>4, NothingShips
  <2> QED BY <1>8, <2>2, <2>3, <2>4 DEF Committed, Over, Halts, Goes
<1>9. CASE More \/ GoOn
  <2>1. pc' = "round" /\ owed' \ forgotten' = {}
    BY <1>9 DEF More, GoOn, Runner, TreeStays, TreeGoesBack
  <2> QED BY <2>1, NothingShips
<1>10. CASE Skip
  <2>1. pc = "halt" /\ UNCHANGED <<open, owed, forgotten>>
    BY <1>10 DEF Skip, left
  <2>2. CASE RolledBack(debt)
    BY <2>1, <2>2, RolledBackDoes, NothingShips DEF SmallInv
  <2>3. CASE pc' = "gate" /\ why' = "skip" /\ pending' = SkipDebt
    <3>1. Of(pending') = open
      BY <2>3, OfSkipDebt
    <3> QED BY <1>0, <2>1, <2>3, <3>1, ShippedIsPending
  <2> QED BY <1>10, <2>2, <2>3 DEF Skip, Goes
<1>11. CASE HostShip \/ Stop
  BY <1>11, NothingShips DEF HostShip, Stop, Over, Goes
<1>12. CASE Die
  <2>1. pc' \in {"round", "halt"} /\ owed' \ forgotten' = {}
    BY <1>12 DEF Die, TreeStays, TreeGoesBack
  <2> QED BY <2>1, NothingShips
<1> QED BY <1>1, <1>2, <1>3, <1>4, <1>5, <1>6, <1>7, <1>8, <1>9, <1>10, <1>11, <1>12
        DEF Next

LEMMA InitOwed == Init => OweInv
BY DEF Init, OweInv, OpenIsDebt

\* A phase that the history or Opus ships has each finding the judge has left
\* open in the debt of state.json and in debt.md, whatever write has failed
\* before: commit_pending goes on only after both, and what it could not write
\* stays to be written.  So has a phase the owner skips, but for the findings
\* of a verdict from before its runner: those stay in the tree when the phase
\* goes on after a question (_go_on), or when the owner of the question dies,
\* and the new runner has no findings until its judge speaks.
THEOREM WhatIsOpenIsDebt == Spec => []OpenIsDebt
<1>1. ASSUME OweInv, UNCHANGED vars PROVE OweInv'
  BY <1>1 DEF OweInv, OpenIsDebt, Recorded, Of, Due, vars, st, files, left
<1>2. SmallInv /\ OweInv /\ [Next]_vars => OweInv'
  BY <1>1, NextOwed
<1>3. OweInv => OpenIsDebt
  BY DEF OweInv
<1> QED BY <1>2, <1>3, InitOwed, SmallIsKept, PTL DEF Spec

=============================================================================
