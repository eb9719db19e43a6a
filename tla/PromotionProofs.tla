---------------------------- MODULE PromotionProofs ----------------------------
(******************************************************************************)
(* What Promotion promises, for every set of files, commits and groups.  The  *)
(* invariant says what the files under workdir are at each step: as HEAD has  *)
(* them after the guard, and with the chosen commit laid over from then on.   *)
(******************************************************************************)
EXTENDS Promotion, SequenceTheorems, TLAPS

(* The shape of a choice under way, and of workdir.                           *)
ChoiceMade ==
  /\ pc = "resolve" => group # None
  /\ pc \in {"guard", "checkout", "overlay", "stage", "commit", "push"} => commit # None
WorkdirKnown ==
  /\ pc \in {"checkout", "overlay"} => \A f \in Work : index[f] = HeadTree[f] /\ work[f] = index[f]
  /\ pc = "stage" => \A f \in Work : work[f] = Laid(commit, HeadTree)[f] /\ index[f] = work[f]
  /\ pc = "commit" => \A f \in Work : index[f] = Laid(commit, HeadTree)[f]
Inv == TypeOK /\ ChoiceMade /\ WorkdirKnown /\ PromotedIsChosen

Trees == [File -> Content]
Branch == {None} \cup Seq(Commit)

------------------------------------------------------------------------------
(* Branches.                                                                  *)

LEMMA TipType == ASSUME NEW b \in Branch PROVE Tip(b) \in Trees
<1>1. Old \in Trees
  <2>1. {"old", None} \subseteq Content
    BY DEF Content
  <2> QED
    BY <2>1, PromotionAssumption DEF Trees
<1>2. CASE b \in {None, <<>>}
  BY <1>1, <1>2 DEF Tip
<1>3. CASE b \notin {None, <<>>}
  <2>1. b \in Seq(Commit) /\ b # <<>>
    BY <1>3 DEF Branch
  <2>2. Len(b) \in 1..Len(b)
    BY <2>1, EmptySeq
  <2>3. b[Len(b)] \in Commit
    BY <2>1, <2>2, ElementOfSeq
  <2> QED
    BY <1>3, <2>3 DEF Tip, Last, Commit, Trees
<1> QED
  BY <1>2, <1>3

LEMMA CommitType ==
  ASSUME NEW by \in {"operator", "team", "promotion"}, NEW c \in Candidate \cup {None}, NEW t \in Trees,
         NEW b \in Seq(Commit)
  PROVE  Append1(b, by, c, t) \in Seq(Commit)
BY DEF Append1, Commit, Trees

LEMMA SamePrefix ==
  ASSUME NEW b \in Seq(Commit), NEW t \in Seq(Commit), NEW n \in 0..Len(b), n <= Len(t),
         \A i \in 1..n : b[i] = t[i]
  PROVE  SubSeq(b, 1, n) = SubSeq(t, 1, n)
<1>1. Len(b) \in Nat /\ Len(t) \in Nat
  BY LenProperties
<1>2. \A i \in 1..n : b[i] \in Commit /\ t[i] \in Commit
  BY <1>1, ElementOfSeq
<1>3. n \in Int /\ 1 \in Int
  BY <1>1
<1>4. /\ SubSeq(b, 1, n) \in Seq(Commit) /\ SubSeq(t, 1, n) \in Seq(Commit)
      /\ Len(SubSeq(b, 1, n)) = Len(SubSeq(t, 1, n)) /\ Len(SubSeq(b, 1, n)) \in 0..n
      /\ \A i \in 1..n : SubSeq(b, 1, n)[i] = b[i] /\ SubSeq(t, 1, n)[i] = t[i]
  <2>1. SubSeq(b, 1, n) \in Seq(Commit) /\ Len(SubSeq(b, 1, n)) = (IF 1 <= n THEN n - 1 + 1 ELSE 0)
        /\ \A i \in 1..(n - 1 + 1) : SubSeq(b, 1, n)[i] = b[1 + i - 1]
    BY <1>2, <1>3, SubSeqProperties
  <2>2. SubSeq(t, 1, n) \in Seq(Commit) /\ Len(SubSeq(t, 1, n)) = (IF 1 <= n THEN n - 1 + 1 ELSE 0)
        /\ \A i \in 1..(n - 1 + 1) : SubSeq(t, 1, n)[i] = t[1 + i - 1]
    BY <1>2, <1>3, SubSeqProperties
  <2> QED
    BY <2>1, <2>2, <1>1
<1>5. \A i \in 1..Len(SubSeq(b, 1, n)) : SubSeq(b, 1, n)[i] = SubSeq(t, 1, n)[i]
  BY <1>4, <1>1
<1> QED
  BY <1>4, <1>5, SeqEqual

LEMMA WholePrefix == ASSUME NEW b \in Seq(Commit) PROVE SubSeq(b, 1, Len(b)) = b
<1>1. Len(b) \in Nat /\ \A i \in 1..Len(b) : b[i] \in Commit
  BY LenProperties, ElementOfSeq
<1>2. /\ SubSeq(b, 1, Len(b)) \in Seq(Commit) /\ Len(SubSeq(b, 1, Len(b))) = Len(b)
      /\ \A i \in 1..Len(b) : SubSeq(b, 1, Len(b))[i] = b[i]
  <2>1. /\ SubSeq(b, 1, Len(b)) \in Seq(Commit)
        /\ Len(SubSeq(b, 1, Len(b))) = (IF 1 <= Len(b) THEN Len(b) - 1 + 1 ELSE 0)
        /\ \A i \in 1..(Len(b) - 1 + 1) : SubSeq(b, 1, Len(b))[i] = b[1 + i - 1]
    BY <1>1, SubSeqProperties
  <2> QED
    BY <2>1, <1>1
<1> QED
  BY <1>2, SeqEqual

(* A commit on top leaves the commits below, and what was below each.         *)
LEMMA OnTop ==
  ASSUME NEW b \in Seq(Commit), NEW c \in Commit
  PROVE  /\ Len(b) \in Nat /\ Append(b, c) \in Seq(Commit) /\ Len(Append(b, c)) = Len(b) + 1
         /\ Append(b, c)[Len(b) + 1] = c
         /\ \A i \in 1..Len(b) : Append(b, c)[i] = b[i]
         /\ \A i \in 1..(Len(b) + 1) : SubSeq(Append(b, c), 1, i - 1) = SubSeq(b, 1, i - 1)
<1>1. /\ Len(b) \in Nat /\ Append(b, c) \in Seq(Commit) /\ Len(Append(b, c)) = Len(b) + 1
      /\ Append(b, c)[Len(b) + 1] = c
      /\ \A i \in 1..Len(b) : Append(b, c)[i] = b[i]
  BY AppendProperties, LenProperties
<1>2. ASSUME NEW i \in 1..(Len(b) + 1)
      PROVE  SubSeq(Append(b, c), 1, i - 1) = SubSeq(b, 1, i - 1)
  <2>1. i - 1 \in 0..Len(b) /\ i - 1 <= Len(Append(b, c))
        /\ \A j \in 1..(i - 1) : b[j] = Append(b, c)[j]
    BY <1>1
  <2> QED
    BY <1>1, <2>1, SamePrefix
<1> QED
  BY <1>1, <1>2

LEMMA PrefixOfAppend ==
  ASSUME NEW b \in Seq(Commit), NEW c \in Commit PROVE IsPrefix(b, Append(b, c))
<1>1. Len(b) + 1 \in 1..(Len(b) + 1) /\ (Len(b) + 1) - 1 = Len(b) /\ Len(b) <= Len(b) + 1
  BY LenProperties
<1>2. SubSeq(Append(b, c), 1, Len(b)) = SubSeq(b, 1, Len(b)) /\ Len(Append(b, c)) = Len(b) + 1
  BY <1>1, OnTop
<1> QED
  BY <1>1, <1>2 DEF IsPrefix

LEMMA AppendExists ==
  ASSUME NEW b \in Seq(Commit), NEW c \in Commit PROVE Append(b, c) # None
<1>1. Append(b, c) \in Seq(Commit)
  BY OnTop
<1> QED
  BY <1>1, PromotionAssumption

LEMMA PrefixOfItself == ASSUME NEW b \in Seq(Commit) PROVE IsPrefix(b, b)
BY LenProperties DEF IsPrefix

LEMMA LaidType == ASSUME NEW c \in Candidate, NEW t \in Trees PROVE Laid(c, t) \in Trees
<1>1. \A f \in Work : Tree[c][f] \in Content
  BY PromotionAssumption
<1>2. \A f \in File : t[f] \in Content
  BY DEF Trees
<1> QED
  BY <1>1, <1>2 DEF Laid, Trees

(* A commit on top keeps Chosen if it is itself as Chosen asks.               *)
LEMMA ChosenOnTop ==
  ASSUME NEW b \in Seq(Commit), NEW c \in Commit, b # None, Chosen(b),
         c.by = "promotion" =>
           \A f \in Work : c.tree[f] = IF Tree[c.of][f] # None THEN Tree[c.of][f] ELSE Tip(b)[f]
  PROVE  Chosen(Append(b, c))
<1> DEFINE t == Append(b, c)
<1>1. /\ Len(b) \in Nat /\ t \in Seq(Commit) /\ DOMAIN b = 1..Len(b) /\ DOMAIN t = 1..(Len(b) + 1)
      /\ t[Len(b) + 1] = c /\ \A i \in 1..Len(b) : t[i] = b[i]
      /\ \A i \in 1..(Len(b) + 1) : SubSeq(t, 1, i - 1) = SubSeq(b, 1, i - 1)
  BY OnTop, LenProperties
<1> HIDE DEF t
<1>2. SUFFICES ASSUME NEW i \in 1..(Len(b) + 1), t[i].by = "promotion", NEW f \in Work
               PROVE  t[i].tree[f] = IF Tree[t[i].of][f] # None THEN Tree[t[i].of][f]
                                     ELSE Tip(SubSeq(t, 1, i - 1))[f]
  BY <1>1 DEF Chosen, t
<1>3. SubSeq(t, 1, i - 1) = SubSeq(b, 1, i - 1)
  BY <1>1
<1>4. CASE i \in 1..Len(b)
  <2>1. t[i] = b[i] /\ i \in DOMAIN b
    BY <1>1, <1>4
  <2>2. b[i].by = "promotion"
    BY <1>2, <2>1
  <2>3. b[i].tree[f] = IF Tree[b[i].of][f] # None THEN Tree[b[i].of][f] ELSE Tip(SubSeq(b, 1, i - 1))[f]
    BY <2>1, <2>2 DEF Chosen
  <2> QED
    BY <1>3, <2>1, <2>3
<1>5. CASE i = Len(b) + 1
  <2>1. t[i] = c /\ i - 1 = Len(b)
    BY <1>1, <1>5
  <2>2. SubSeq(t, 1, i - 1) = b
    BY <1>3, <2>1, WholePrefix
  <2> QED
    BY <1>2, <2>1, <2>2
<1> QED
  BY <1>1, <1>4, <1>5

------------------------------------------------------------------------------
(* Types, and what is chosen when.                                            *)

LEMMA TypeFacts ==
  ASSUME TypeOK
  PROVE  /\ index \in Trees /\ work \in Trees /\ target \in Branch /\ remote \in Branch
         /\ HeadTree \in Trees /\ Tip(remote) \in Trees /\ Tip(target) \in Trees
<1>1. index \in Trees /\ work \in Trees /\ target \in Branch /\ remote \in Branch
  BY DEF TypeOK, Trees, Branch
<1>2. Tip(remote) \in Trees /\ Tip(target) \in Trees /\ Tip(None) \in Trees
  BY <1>1, TipType DEF Branch
<1>3. Old \in Trees
  BY <1>2 DEF Tip
<1> QED
  BY <1>1, <1>2, <1>3 DEF HeadTree

LEMMA TypeInit == Init => TypeOK /\ ChoiceMade
<1> SUFFICES ASSUME Init PROVE TypeOK /\ ChoiceMade
  OBVIOUS
<1>1. Old \in Trees
  <2>1. Tip(None) \in Trees
    BY TipType DEF Branch
  <2> QED
    BY <2>1 DEF Tip
<1>2. {None, <<>>} \subseteq Branch
  BY EmptySeq DEF Branch
<1> QED
  BY <1>1, <1>2 DEF Init, TypeOK, ChoiceMade, Trees, Branch

LEMMA TypeStep == TypeOK /\ ChoiceMade /\ [Next]_vars => (TypeOK /\ ChoiceMade)'
<1> SUFFICES ASSUME TypeOK, ChoiceMade, [Next]_vars PROVE (TypeOK /\ ChoiceMade)'
  OBVIOUS
<1> USE DEF ChoiceMade
<1>0. /\ index \in Trees /\ work \in Trees /\ target \in Branch /\ remote \in Branch
      /\ HeadTree \in Trees /\ Tip(remote) \in Trees /\ Tip(target) \in Trees /\ Old \in Trees
  <2>1. Tip(None) \in Trees
    BY TipType DEF Branch
  <2> QED
    BY <2>1, TypeFacts DEF Tip
<1>1. CASE Study
  BY <1>1 DEF Study, Record, choice, git, TypeOK
<1>2. CASE Operator
  <2>1. ASSUME NEW f \in File, Edit(f) PROVE (TypeOK /\ ChoiceMade)'
    <3>1. work' \in Trees
      BY <1>0, <2>1 DEF Edit, Trees, Content
    <3> QED
      BY <2>1, <3>1 DEF Edit, choice, TypeOK, Trees
  <2>2. ASSUME NEW f \in File, Add(f) PROVE (TypeOK /\ ChoiceMade)'
    <3>1. index' \in Trees
      BY <1>0, <2>2 DEF Add, Trees
    <3> QED
      BY <2>2, <3>1 DEF Add, choice, TypeOK, Trees
  <2>3. CASE OperatorCommits
    <3>1. target \in Seq(Commit)
      BY <1>0, <2>3 DEF OperatorCommits, Branch, TypeOK
    <3>2. target' \in Seq(Commit)
      BY <1>0, <2>3, <3>1, CommitType DEF OperatorCommits
    <3> QED
      BY <2>3, <3>2, PromotionAssumption DEF OperatorCommits, choice, TypeOK
  <2>4. CASE DiscardAll
    BY <1>0, <2>4 DEF DiscardAll, choice, TypeOK, Trees
  <2>5. CASE Leave
    BY <1>0, <2>5 DEF Leave, choice, TypeOK, Trees
  <2>6. CASE Fetch
    BY <2>6 DEF Fetch, choice, TypeOK
  <2> QED
    BY <1>2, <2>1, <2>2, <2>3, <2>4, <2>5, <2>6 DEF Operator
<1>3. CASE TeamPushes
  <2>1. remote \in Seq(Commit)
    BY <1>0, <1>3 DEF TeamPushes, Branch
  <2>2. [f \in File |-> IF f \in Work THEN Theirs ELSE Tip(remote)[f]] \in Trees
    BY <1>0 DEF Trees, Content
  <2>3. remote' \in Seq(Commit)
    BY <1>3, <2>1, <2>2, CommitType DEF TeamPushes
  <2> QED
    BY <1>3, <2>3 DEF TeamPushes, choice, TypeOK
<1>4. CASE Promotion
  <2>1. CASE Promote
    <3>1. group' \in Group /\ group' # None
      BY <2>1, PromotionAssumption DEF Promote, Strongest, First, Scored
    <3> QED
      BY <2>1, <3>1 DEF Promote, git, TypeOK
  <2>2. CASE Resolve
    <3>1. group \in Group /\ anchors[group] \in Candidate \cup {None}
      BY <2>2 DEF Resolve, TypeOK
    <3> QED
      BY <2>2, <3>1, PromotionAssumption DEF Resolve, Idle, git, TypeOK
  <2>3. CASE Guard
    BY <2>3 DEF Guard, Go, Idle, git, TypeOK
  <2>4. CASE Checkout
    <3>1. CASE Carried(Tip(target))
      <4>1. Switch(Tip(target))
        BY <2>4, <3>1 DEF Checkout
      <4>2. index' \in Trees /\ work' \in Trees
        BY <1>0, <4>1 DEF Switch, Trees
      <4>3. target' \in Branch /\ target' # None
        <5>1. <<>> \in Seq(Commit)
          BY EmptySeq
        <5>2. target' = IF target = None THEN <<>> ELSE target
          BY <2>4, <3>1 DEF Checkout
        <5> QED
          BY <1>0, <5>1, <5>2, PromotionAssumption DEF Branch
      <4> QED
        BY <2>4, <3>1, <4>2, <4>3 DEF Checkout, choice, TypeOK, Trees, Branch
    <3>2. CASE ~Carried(Tip(target))
      BY <2>4, <3>2 DEF Checkout, Idle, TypeOK
    <3> QED
      BY <3>1, <3>2
  <2>5. CASE Overlay
    <3>1. commit \in Candidate
      BY <2>5 DEF Overlay, TypeOK
    <3>2. index' \in Trees /\ work' \in Trees
      BY <1>0, <2>5, <3>1, LaidType DEF Overlay
    <3> QED
      BY <2>5, <3>2 DEF Overlay, choice, TypeOK, Trees
  <2>6. CASE Stage
    <3>1. index' \in Trees
      BY <1>0, <2>6 DEF Stage, Trees
    <3> QED
      BY <2>6, <3>1 DEF Stage, choice, TypeOK, Trees
  <2>7. CASE CommitPromotion
    <3>1. commit \in Candidate /\ target \in Seq(Commit) /\ head = "target"
      BY <1>0, <2>7 DEF CommitPromotion, TypeOK, Branch
    <3>2. Append1(target, "promotion", commit, index) \in Seq(Commit)
      BY <1>0, <3>1, CommitType
    <3>3. target' \in Seq(Commit) /\ target' # None
      BY <2>7, <3>1, <3>2, PromotionAssumption DEF CommitPromotion
    <3> QED
      BY <2>7, <3>3 DEF CommitPromotion, Idle, choice, TypeOK
  <2>8. CASE Push
    BY <2>8 DEF Push, Idle, TypeOK
  <2> QED
    BY <1>4, <2>1, <2>2, <2>3, <2>4, <2>5, <2>6, <2>7, <2>8 DEF Promotion
<1>5. CASE Crash
  BY <1>5 DEF Crash, Idle, git, TypeOK
<1>6. CASE UNCHANGED vars
  BY <1>6 DEF vars, TypeOK
<1> QED
  BY <1>1, <1>2, <1>3, <1>4, <1>5, <1>6 DEF Next
------------------------------------------------------------------------------
(* workdir, from the guard to the commit.                                     *)

LEMMA WorkdirStep == TypeOK /\ WorkdirKnown /\ [Next]_vars => WorkdirKnown'
<1> SUFFICES ASSUME TypeOK, WorkdirKnown, [Next]_vars PROVE WorkdirKnown'
  OBVIOUS
<1>0. Work \subseteq File
  BY DEF File
<1>1. CASE UNCHANGED <<pc, commit, head, index, work, target>>
  BY <1>1 DEF WorkdirKnown, HeadTree
<1>2. CASE pc' \in {"idle", "resolve", "guard", "push"}
  BY <1>2 DEF WorkdirKnown
<1>3. CASE Guard
  <2>1. CASE Changed \cap Work = {}
    <3>1. \A f \in Work : index[f] = HeadTree[f] /\ work[f] = index[f]
      BY <1>0, <2>1 DEF Changed
    <3>2. pc' = "checkout" /\ index' = index /\ work' = work /\ HeadTree' = HeadTree
      BY <1>3, <2>1 DEF Guard, Go, git, HeadTree
    <3> QED
      BY <3>1, <3>2 DEF WorkdirKnown
  <2> QED
    BY <1>2, <1>3, <2>1 DEF Guard, Idle
<1>4. CASE Checkout
  <2>1. CASE Carried(Tip(target))
    <3>1. pc' = "overlay" /\ Switch(Tip(target)) /\ HeadTree' = Tip(target)
      BY <1>4, <2>1 DEF Checkout, HeadTree, Tip
    <3>2. \A f \in Work : f \in File /\ f \notin Changed
      BY <1>0, <1>4 DEF Checkout, WorkdirKnown, Changed
    <3>3. \A f \in Work : index'[f] = Tip(target)[f] /\ work'[f] = Tip(target)[f]
      BY <3>1, <3>2 DEF Switch
    <3> QED
      BY <3>1, <3>3 DEF WorkdirKnown
  <2> QED
    BY <1>2, <1>4, <2>1 DEF Checkout, Idle
<1>5. CASE Overlay
  <2>1. /\ pc' = "stage" /\ HeadTree' = HeadTree /\ commit' = commit
        /\ index' = Laid(commit, index) /\ work' = Laid(commit, work)
    BY <1>5 DEF Overlay, choice, HeadTree
  <2>2. \A f \in Work : index[f] = HeadTree[f] /\ work[f] = HeadTree[f]
    BY <1>5 DEF Overlay, WorkdirKnown
  <2>3. \A f \in Work : index'[f] = Laid(commit, HeadTree)[f] /\ work'[f] = Laid(commit, HeadTree)[f]
    BY <1>0, <2>1, <2>2 DEF Laid
  <2> QED
    BY <2>1, <2>3 DEF WorkdirKnown
<1>6. CASE Stage
  <2>1. /\ pc' = "commit" /\ HeadTree' = HeadTree /\ commit' = commit
        /\ \A f \in Work : index'[f] = work[f] /\ work[f] = Laid(commit, HeadTree)[f]
    BY <1>0, <1>6 DEF Stage, choice, HeadTree, WorkdirKnown
  <2> QED
    BY <2>1 DEF WorkdirKnown
<1>7. CASE Study \/ TeamPushes \/ UNCHANGED vars
  BY <1>1, <1>7 DEF Study, Record, TeamPushes, choice, git, vars
<1>8. CASE Operator
  BY <1>2, <1>8 DEF Operator, Edit, Add, OperatorCommits, DiscardAll, Leave, Fetch
<1>9. CASE Promote \/ Resolve \/ CommitPromotion \/ Push \/ Crash
  BY <1>2, <1>9 DEF Promote, Resolve, CommitPromotion, Push, Crash, Idle
<1> QED
  BY <1>3, <1>4, <1>5, <1>6, <1>7, <1>8, <1>9 DEF Next, Promotion

------------------------------------------------------------------------------
(* What is committed.  A commit of the operator's or of the team promises     *)
(* nothing; one of a promotion is read off workdir.                           *)

LEMMA ChosenStep == TypeOK /\ ChoiceMade /\ WorkdirKnown /\ PromotedIsChosen /\ [Next]_vars => PromotedIsChosen'
<1> SUFFICES ASSUME TypeOK, ChoiceMade, WorkdirKnown, Chosen(target), Chosen(remote), [Next]_vars
             PROVE  Chosen(target') /\ Chosen(remote')
  BY DEF PromotedIsChosen, Chosen
<1>0. target \in Branch /\ remote \in Branch /\ index \in Trees /\ Tip(remote) \in Trees
  BY TypeFacts
<1>1. CASE target' = target /\ remote' = remote
  BY <1>1
<1>2. CASE OperatorCommits
  <2>1. target \in Seq(Commit) /\ target # None /\ remote' = remote
    BY <1>0, <1>2 DEF OperatorCommits, TypeOK, Branch
  <2> DEFINE c == [by |-> "operator", of |-> None, tree |-> index]
  <2>2. c \in Commit /\ c.by # "promotion"
    BY <1>0 DEF Commit, Trees
  <2>3. target' = Append(target, c)
    BY <1>2 DEF OperatorCommits, Append1
  <2> HIDE DEF c
  <2> QED
    BY <2>1, <2>2, <2>3, ChosenOnTop
<1>3. CASE TeamPushes
  <2>1. remote \in Seq(Commit) /\ remote # None /\ target' = target
    BY <1>0, <1>3 DEF TeamPushes, Branch
  <2> DEFINE t == [f \in File |-> IF f \in Work THEN Theirs ELSE Tip(remote)[f]]
             c == [by |-> "team", of |-> None, tree |-> t]
  <2>2. t \in Trees
    BY <1>0 DEF Trees, Content
  <2>3. remote' = Append(remote, c)
    BY <1>3 DEF TeamPushes, Append1
  <2> HIDE DEF t
  <2>4. c \in Commit /\ c.by # "promotion"
    BY <2>2 DEF Commit, Trees
  <2> HIDE DEF c
  <2> QED
    BY <2>1, <2>3, <2>4, ChosenOnTop
<1>4. CASE Fetch
  BY <1>4 DEF Fetch
<1>5. CASE Checkout
  <2>1. remote' = remote /\ target' \in {target, <<>>}
    BY <1>5 DEF Checkout
  <2>2. Chosen(<<>>)
    BY DEF Chosen
  <2> QED
    BY <2>1, <2>2
<1>6. CASE CommitPromotion
  <2>1. target \in Seq(Commit) /\ target # None /\ remote' = remote /\ HeadTree = Tip(target)
    BY <1>0, <1>6 DEF CommitPromotion, TypeOK, Branch, HeadTree
  <2>2. commit \in Candidate
    BY <1>6 DEF CommitPromotion, TypeOK, ChoiceMade
  <2>3. \A f \in Work : index[f] = IF Tree[commit][f] # None THEN Tree[commit][f] ELSE Tip(target)[f]
    BY <1>6, <2>1 DEF CommitPromotion, WorkdirKnown, Laid, File
  <2> DEFINE c == [by |-> "promotion", of |-> commit, tree |-> index]
  <2>4. c \in Commit /\ c.of = commit /\ c.tree = index
    BY <1>0, <2>2 DEF Commit, Trees
  <2>5. target' \in {target, Append(target, c)}
    BY <1>6 DEF CommitPromotion, Append1
  <2> HIDE DEF c
  <2>6. Chosen(Append(target, c))
    BY <2>1, <2>3, <2>4, ChosenOnTop
  <2> QED
    BY <2>1, <2>5, <2>6
<1>7. CASE Push
  BY <1>7 DEF Push
<1>8. CASE Operator
  BY <1>1, <1>2, <1>4, <1>8 DEF Operator, Edit, Add, DiscardAll, Leave
<1>9. CASE Study \/ Crash \/ UNCHANGED vars
  BY <1>1, <1>9 DEF Study, Record, Crash, git, vars
<1>10. CASE Promotion
  BY <1>1, <1>5, <1>6, <1>7, <1>10 DEF Promotion, Promote, Resolve, Guard, Overlay, Stage, git
<1> QED
  BY <1>3, <1>8, <1>9, <1>10 DEF Next

LEMMA Invariance == Spec => []Inv
<1>1. Init => Inv
  <2>1. Init => WorkdirKnown
    BY DEF Init, WorkdirKnown
  <2>2. Init => PromotedIsChosen
    BY DEF Init, PromotedIsChosen, Chosen
  <2> QED
    BY <2>1, <2>2, TypeInit DEF Inv
<1>2. Inv /\ [Next]_vars => Inv'
  BY TypeStep, WorkdirStep, ChosenStep DEF Inv
<1> QED
  BY <1>1, <1>2, PTL DEF Spec

------------------------------------------------------------------------------
(* Theorems.                                                                  *)

(* Every variable keeps its type, and a target that is checked out exists.    *)
THEOREM TypeCorrect == Spec => []TypeOK
<1>1. Inv => TypeOK
  BY DEF Inv
<1> QED
  BY <1>1, Invariance, PTL

(* No promotion commits anything into workdir but the files of the commit it  *)
(* names: no edit that was not committed, nothing a dead promotion has left.  *)
THEOREM PromotedAreChosen == Spec => []PromotedIsChosen
<1>1. Inv => PromotedIsChosen
  BY DEF Inv
<1> QED
  BY <1>1, Invariance, PTL

(* While a promotion runs no edit of the operator's leaves the checkout.      *)
THEOREM EditsAreKept == Spec => EditsSurvive
<1>1. ASSUME Inv, [Next]_vars
      PROVE  [pc # "idle" => \A f \in Changed : work[f] = Mine => work'[f] = Mine]_vars
  <2> SUFFICES ASSUME pc # "idle", NEW f \in Changed, work[f] = Mine PROVE work'[f] = work[f]
    OBVIOUS
  <2>1. f \in File
    BY DEF Changed
  <2>2. CASE UNCHANGED work
    BY <2>2
  <2>3. CASE Checkout
    BY <2>1, <2>3 DEF Checkout, Switch
  <2>4. CASE Overlay
    <3>1. f \notin Work
      BY <1>1, <2>4 DEF Overlay, Inv, WorkdirKnown, Changed
    <3> QED
      BY <2>1, <2>4, <3>1 DEF Overlay, Laid
  <2>5. CASE Operator
    BY <2>5 DEF Operator, Edit, Add, OperatorCommits, DiscardAll, Leave, Fetch
  <2>6. CASE Study \/ TeamPushes \/ Crash \/ UNCHANGED vars
    BY <2>2, <2>6 DEF Study, Record, TeamPushes, Crash, git, vars
  <2>7. CASE Promotion
    BY <2>2, <2>3, <2>4, <2>7 DEF Promotion, Promote, Resolve, Guard, Stage, CommitPromotion, Push, git
  <2> QED
    BY <1>1, <2>5, <2>6, <2>7 DEF Next
<1> QED
  BY <1>1, Invariance, PTL DEF Spec, EditsSurvive

(* What others have pushed to the target, and what was committed here, stays: *)
(* the target is pushed without force.                                        *)
THEOREM NothingLost == Spec => NothingIsLost
<1>1. ASSUME Inv, [Next]_vars
      PROVE  [Grows(remote, remote') /\ Grows(target, target')]_vars
  <2>0. target \in Branch /\ remote \in Branch /\ index \in Trees /\ Tip(remote) \in Trees
    BY <1>1, TypeFacts DEF Inv
  <2>1. Grows(remote, remote) /\ Grows(target, target)
    BY <2>0, PrefixOfItself DEF Grows, Branch
  <2>2. CASE target' = target /\ remote' = remote
    BY <2>1, <2>2
  <2>3. CASE OperatorCommits
    <3>1. target \in Seq(Commit) /\ remote' = remote
      BY <1>1, <2>0, <2>3 DEF OperatorCommits, Inv, TypeOK, Branch
    <3> DEFINE c == [by |-> "operator", of |-> None, tree |-> index]
    <3>2. c \in Commit /\ target' = Append(target, c)
      BY <2>0, <2>3 DEF OperatorCommits, Append1, Commit, Trees
    <3> HIDE DEF c
    <3>3. IsPrefix(target, Append(target, c)) /\ Append(target, c) # None
      BY <3>1, <3>2, PrefixOfAppend, AppendExists
    <3> QED
      BY <2>1, <3>1, <3>2, <3>3 DEF Grows
  <2>4. CASE TeamPushes
    <3>1. remote \in Seq(Commit) /\ target' = target
      BY <2>0, <2>4 DEF TeamPushes, Branch
    <3> DEFINE t == [f \in File |-> IF f \in Work THEN Theirs ELSE Tip(remote)[f]]
               c == [by |-> "team", of |-> None, tree |-> t]
    <3>2. t \in Trees
      BY <2>0 DEF Trees, Content
    <3>3. remote' = Append(remote, c)
      BY <2>4 DEF TeamPushes, Append1
    <3> HIDE DEF t
    <3>4. c \in Commit
      BY <3>2 DEF Commit, Trees
    <3> HIDE DEF c
    <3>5. IsPrefix(remote, Append(remote, c)) /\ Append(remote, c) # None
      BY <3>1, <3>4, PrefixOfAppend, AppendExists
    <3> QED
      BY <2>1, <3>1, <3>3, <3>5 DEF Grows
  <2>5. CASE Fetch
    BY <2>1, <2>5 DEF Fetch, Grows
  <2>6. CASE Checkout
    BY <2>1, <2>6 DEF Checkout, Grows
  <2>7. CASE CommitPromotion
    <3>1. target \in Seq(Commit) /\ commit \in Candidate /\ remote' = remote
      BY <1>1, <2>0, <2>7 DEF CommitPromotion, Inv, ChoiceMade, TypeOK, Branch
    <3> DEFINE c == [by |-> "promotion", of |-> commit, tree |-> index]
    <3>2. c \in Commit /\ target' \in {target, Append(target, c)}
      BY <2>0, <2>7, <3>1 DEF CommitPromotion, Append1, Commit, Trees
    <3> HIDE DEF c
    <3>3. IsPrefix(target, Append(target, c)) /\ Append(target, c) # None
      BY <3>1, <3>2, PrefixOfAppend, AppendExists
    <3> QED
      BY <2>1, <3>1, <3>2, <3>3 DEF Grows
  <2>8. CASE Push
    <3>1. target # None
      BY <1>1, <2>8 DEF Push, Inv, TypeOK
    <3> QED
      BY <2>1, <2>8, <3>1 DEF Push, Grows
  <2>9. CASE Operator
    BY <2>2, <2>3, <2>5, <2>9 DEF Operator, Edit, Add, DiscardAll, Leave
  <2>10. CASE Study \/ Crash \/ UNCHANGED vars
    BY <2>2, <2>10 DEF Study, Record, Crash, git, vars
  <2>11. CASE Promotion
    BY <2>2, <2>6, <2>7, <2>8, <2>11 DEF Promotion, Promote, Resolve, Guard, Overlay, Stage, git
  <2> QED
    BY <1>1, <2>4, <2>9, <2>10, <2>11 DEF Next
<1> QED
  BY <1>1, Invariance, PTL DEF Spec, NothingIsLost

------------------------------------------------------------------------------
(* The automatic choice.  Between the two reads of the registry the anchor of *)
(* the chosen group may only have been replaced by a better one, as long as   *)
(* its policy is best_commit.                                                 *)
StillStrongest ==
  seen # None =>
    /\ group \in Group /\ seen[group] \in Candidate
    /\ \A g \in Group : seen[g] # None => ~Better(seen[g], seen[group])
    /\ TopPolicy[group] = "best_commit" =>
         /\ anchors[group] # None /\ ~Better(seen[group], anchors[group])
         /\ commit # None => ~Better(seen[group], commit)

LEMMA Transitive ==
  ASSUME NEW a \in Candidate, NEW b \in Candidate, NEW c \in Candidate, ~Better(a, b), ~Better(b, c)
  PROVE  ~Better(a, c)
BY PromotionAssumption DEF Better

LEMMA BetterIsNotWorse ==
  ASSUME NEW a \in Candidate, NEW b \in Candidate, NEW c \in Candidate, ~Better(a, b), Better(c, b)
  PROVE  ~Better(a, c)
BY PromotionAssumption DEF Better

LEMMA StrongestStep == TypeOK /\ StillStrongest /\ [Next]_vars => StillStrongest'
<1> SUFFICES ASSUME TypeOK, StillStrongest, [Next]_vars, seen' # None
             PROVE  StillStrongest'
  BY DEF StillStrongest
<1>1. /\ anchors \in [Group -> Candidate \cup {None}] /\ None \notin Candidate
      /\ seen \in {None} \cup [Group -> Candidate \cup {None}] /\ commit \in Candidate \cup {None}
  BY PromotionAssumption DEF TypeOK
<1>2. CASE Promote
  <2>1. group' \in Strongest /\ seen' = anchors /\ commit' = None /\ anchors' = anchors
    BY <1>2 DEF Promote
  <2>2. group' \in Scored /\ \A h \in Scored : ~Better(anchors[h], anchors[group'])
    BY <2>1 DEF Strongest, First
  <2>3. group' \in Group /\ anchors[group'] \in Candidate
    BY <1>1, <2>2 DEF Scored
  <2>4. \A g \in Group : anchors[g] # None => ~Better(anchors[g], anchors[group'])
    BY <2>2 DEF Scored
  <2> QED
    BY <1>1, <2>1, <2>3, <2>4 DEF StillStrongest, Better
<1>3. CASE Resolve
  <2>1. /\ seen' = seen /\ group' = group /\ anchors' = anchors
        /\ seen = None \/ commit' = anchors[group]
    BY <1>3 DEF Resolve, Idle
  <2> QED
    BY <2>1 DEF StillStrongest, Better
<1>4. CASE Study
  <2>1. PICK g \in Group : Record(g)
    BY <1>4 DEF Study
  <2>2. PICK c \in Candidate : /\ TopPolicy[g] = "best_commit" /\ anchors[g] # None => Better(c, anchors[g])
                              /\ anchors' = [anchors EXCEPT ![g] = c]
    BY <2>1 DEF Record
  <2>3. seen' = seen /\ group' = group /\ commit' = commit
    BY <2>1 DEF Record, choice
  <2>4. CASE group # g
    BY <1>1, <2>2, <2>3, <2>4 DEF StillStrongest, Better
  <2>5. CASE group = g
    <3>1. group \in Group /\ seen[group] \in Candidate /\ anchors'[group] = c
      BY <1>1, <2>2, <2>3, <2>5 DEF StillStrongest
    <3>2. TopPolicy[group] = "best_commit" => ~Better(seen[group], c)
      <4> SUFFICES ASSUME TopPolicy[group] = "best_commit" PROVE ~Better(seen[group], c)
        OBVIOUS
      <4>1. anchors[group] \in Candidate /\ ~Better(seen[group], anchors[group])
        BY <1>1, <2>3, <3>1 DEF StillStrongest
      <4>2. Better(c, anchors[group])
        BY <1>1, <2>2, <2>5, <4>1
      <4> QED
        BY <3>1, <4>1, <4>2, BetterIsNotWorse
    <3> QED
      BY <1>1, <2>2, <2>3, <3>1, <3>2 DEF StillStrongest, Better
  <2> QED
    BY <2>4, <2>5
<1>5. CASE Guard \/ Crash \/ Push      \* they forget the choice
  BY <1>5 DEF Guard, Go, Crash, Push, Idle
<1>6. CASE UNCHANGED <<anchors, choice>>
  BY <1>6 DEF StillStrongest, Better, choice
<1>7. CASE Checkout
  BY <1>6, <1>7 DEF Checkout, Idle, choice
<1>8. CASE Overlay \/ Stage \/ CommitPromotion
  BY <1>6, <1>8 DEF Overlay, Stage, CommitPromotion, Idle, choice
<1>9. CASE Operator \/ TeamPushes \/ UNCHANGED vars
  BY <1>6, <1>9
     DEF Operator, Edit, Add, OperatorCommits, DiscardAll, Leave, Fetch, TeamPushes, vars, choice
<1> QED
  BY <1>2, <1>3, <1>4, <1>5, <1>7, <1>8, <1>9 DEF Next, Promotion

(* Whatever the study records between the two reads, an automatic choice ends *)
(* with a commit that no anchor it was made from beats.                       *)
THEOREM ChoiceStrongest == Spec => []ChoiceIsStrongest
<1>1. Init => StillStrongest
  BY DEF Init, StillStrongest
<1>2. TypeOK /\ StillStrongest => ChoiceIsStrongest
  <2> SUFFICES ASSUME TypeOK, StillStrongest, seen # None, commit # None, TopPolicy[group] = "best_commit",
                      NEW g \in Group, seen[g] # None
               PROVE  ~Better(seen[g], commit)
    BY DEF ChoiceIsStrongest
  <2>1. seen[g] \in Candidate /\ commit \in Candidate
    BY DEF TypeOK
  <2>2. seen[group] \in Candidate /\ ~Better(seen[g], seen[group]) /\ ~Better(seen[group], commit)
    BY DEF StillStrongest
  <2> QED
    BY <2>1, <2>2, Transitive
<1> QED
  BY <1>1, <1>2, StrongestStep, TypeCorrect, PTL DEF Spec
==============================================================================
