---------------------------- MODULE LineageProofs ----------------------------
(******************************************************************************)
(* What holds of the lineage of every study, whatever its groups, policies    *)
(* and scores and however often it is resumed.                                *)
(******************************************************************************)
EXTENDS Lineage, FiniteSetTheorems, WellFoundedInduction, TLAPS

(* A finite set has an element that nothing in it precedes.                   *)
LEMMA Extremum ==
  ASSUME NEW C, IsFiniteSet(C), C # {}, NEW R,
         \A c \in C : <<c, c>> \notin R,
         \A c, d, e \in C : <<c, d>> \in R /\ <<d, e>> \in R => <<c, e>> \in R
  PROVE  \E c \in C : \A d \in C : <<d, c>> \notin R
<1> DEFINE Below(c) == {d \in C : <<d, c>> \in R}
           T == {Below(c) : c \in C}
<1>1. IsWellFoundedOn(StrictSubsetOrdering(C), SUBSET C)
  BY FS_StrictSubsetOrderingWellFounded, FS_FiniteSubsetsOfFinite
<1>2. T \subseteq SUBSET C /\ T # {}
  <2>1. PICK c \in C : TRUE
    OBVIOUS
  <2>2. Below(c) \in T
    BY <2>1
  <2>3. T \subseteq SUBSET C
    <3>1. \A b \in C : Below(b) \subseteq C
      OBVIOUS
    <3> HIDE DEF Below
    <3> QED
      BY <3>1
  <2> QED
    BY <2>2, <2>3
<1>3. PICK x \in T : \A y \in T : <<y, x>> \notin StrictSubsetOrdering(C)
  <2> HIDE DEF T
  <2> QED
    BY <1>1, <1>2, WFMin
<1>4. PICK c \in C : x = Below(c)
  BY <1>3
<1>5. ASSUME NEW d \in C, <<d, c>> \in R
      PROVE  FALSE
  <2>1. Below(d) \subseteq Below(c) /\ d \in Below(c) /\ d \notin Below(d)
    BY <1>5
  <2>2. <<Below(d), Below(c)>> \in StrictSubsetOrdering(C)
    <3>1. Below(d) \subseteq C /\ Below(c) \subseteq C /\ Below(d) # Below(c)
      BY <2>1
    <3> HIDE DEF Below
    <3> QED
      BY <2>1, <3>1 DEF StrictSubsetOrdering
  <2> QED
    BY <1>3, <1>4, <2>2
<1> QED
  BY <1>5

------------------------------------------------------------------------------
(* Commits and their rows.                                                    *)

CommitsKept == commits \in [Group -> Seq(CommitRow)]

(* What a commit of a group is.                                               *)
LEMMA MadeFacts ==
  ASSUME CommitsKept, NEW g \in Group, NEW c \in Made(g)
  PROVE  /\ c \in LoopCommit /\ c \in Commit /\ c # Base /\ c[1] = g /\ c[2] \in Nat \ {0}
         /\ c = <<g, c[2]>> /\ c[2] \in DOMAIN commits[g]
         /\ Row(c) \in CommitRow
<1>1. PICK i \in DOMAIN commits[g] : c = <<g, i>>
  BY DEF Made
<1>2. commits[g] \in Seq(CommitRow)
  BY DEF CommitsKept
<1>3. i \in Nat \ {0} /\ commits[g][i] \in CommitRow
  <2> HIDE DEF CommitRow
  <2> QED
    BY <1>1, <1>2
<1>4. c \in LoopCommit
  BY <1>1, <1>3 DEF LoopCommit
<1> QED
  BY <1>1, <1>3, <1>4, NothingAssumption DEF Row, Commit

(* What a row says.                                                           *)
LEMMA RowFacts ==
  ASSUME NEW r \in CommitRow
  PROVE  /\ r.past \subseteq LoopCommit /\ r.loop \in Nat \ {0} /\ r.whole \in BOOLEAN
         /\ r.result \in Score \cup {Failed, Unscored, None}
BY DEF CommitRow

(* The loop a commit is taken for is the first one, or its own.               *)
LEMMA LoopOfFacts ==
  ASSUME NEW c, Row(c) \in CommitRow
  PROVE  /\ LoopOf(c) \in Nat \ {0} /\ LoopOf(c) <= Row(c).loop
         /\ LoopRank(c) \in Nat
<1>1. Row(c).loop \in Nat \ {0} /\ Row(c).whole \in BOOLEAN
  BY RowFacts
<1> QED
  BY <1>1 DEF LoopOf, LoopRank

(* A group makes finitely many commits.                                       *)
LEMMA MadeFinite ==
  ASSUME CommitsKept, NEW g \in Group
  PROVE  IsFiniteSet(Made(g))
<1> DEFINE D == 1 .. Len(commits[g])
           f == [c \in Made(g) |-> c[2]]
<1>1. commits[g] \in Seq(CommitRow) /\ DOMAIN commits[g] = D
  BY DEF CommitsKept
<1>2. Len(commits[g]) \in Nat
  BY <1>1
<1>3. IsFiniteSet(D)
  BY <1>2, FS_Interval
<1>4. f \in Injection(Made(g), D)
  <2>1. \A c \in Made(g) : c[2] \in D /\ c = <<g, c[2]>>
    BY <1>1, MadeFacts
  <2>2. f \in [Made(g) -> D]
    BY <2>1
  <2>3. \A c, d \in Made(g) : f[c] = f[d] => c = d
    BY <2>1
  <2> QED
    BY <2>2, <2>3 DEF Injection, IsInjective
<1> HIDE DEF f, D
<1> QED
  BY <1>3, <1>4, FS_Injection

(* What is better is ordered.                                                 *)
LEMMA BetterOrder ==
  ASSUME NEW x \in Nat, NEW y \in Nat, NEW z \in Nat
  PROVE  /\ ~Better(x, x)
         /\ Better(x, y) /\ Better(y, z) => Better(x, z)
         /\ Better(x, y) => ~Better(y, x)
         /\ Better(x, y) /\ ~Better(z, y) => ~Better(z, x)
         /\ ~Better(y, x) /\ ~Better(z, y) => ~Better(z, x)
         /\ Better(x, y) \/ Better(y, x) \/ x = y
BY DEF Better

------------------------------------------------------------------------------
(* Anchors.                                                                   *)

GoodAnchor(a) ==
  /\ a \in Anchor
  /\ a.owner = None => a = L0
  /\ a.owner # None => a.ref \in CleanCommits(a.owner)

(* Scored commits are clean, clean ones are the group's.                      *)
LEMMA CleanFacts ==
  ASSUME NEW g \in Group
  PROVE  /\ ScoredCommits(g) \subseteq CleanCommits(g) /\ CleanCommits(g) \subseteq Made(g)
         /\ \A c \in ScoredCommits(g) : Row(c).result \in Score
         /\ \A c \in Made(g) : Row(c).result \in Score => c \in ScoredCommits(g)
BY DEF ScoredCommits, CleanCommits

(* The baseline is an anchor.                                                 *)
LEMMA L0Facts ==
  /\ L0 \in Anchor /\ L0.owner = None /\ L0.ref = Base /\ L0.step = 0 /\ L0.value = BaselineScore
  /\ GoodAnchor(L0)
BY StudyAssumption, ScoreAssumption DEF L0, Anchor, Commit, GoodAnchor

(* The origin of a group is the baseline, or a scored commit of its owner.    *)
LEMMA OriginFacts ==
  ASSUME CommitsKept, NEW g \in Group, origin[g] \in Bootstrap \cup {None}
  PROVE  /\ GoodAnchor(OriginAnchor(g))
         /\ OriginAnchor(g).owner # None =>
              /\ origin[g] # None /\ origin[g].parent # None
              /\ OriginAnchor(g).ref = origin[g].start /\ OriginAnchor(g).step = origin[g].step
              /\ OriginAnchor(g).owner \in OwnedBy(origin[g])
              /\ OriginAnchor(g).ref \in ScoredCommits(OriginAnchor(g).owner)
              /\ OriginAnchor(g).value = Row(origin[g].start).result
<1> DEFINE m == origin[g]
           away == m = None \/ m.parent = None \/ OwnedBy(m) = {}
           o == [ref |-> m.start, step |-> m.step, value |-> Row(m.start).result,
                 owner |-> IF m.owner \in OwnedBy(m) THEN m.owner ELSE m.parent]
<1>1. CASE away
  <2>1. OriginAnchor(g) = L0
    BY <1>1 DEF OriginAnchor
  <2> QED
    BY <2>1, L0Facts
<1>2. CASE ~away
  <2>1. OriginAnchor(g) = o
    BY <1>2 DEF OriginAnchor
  <2>2. m \in Bootstrap /\ m.parent # None /\ m.start \in Commit /\ m.step \in Nat
        /\ m.parent \in Group \cup {None} /\ m.owner \in Group \cup {None}
    BY <1>2 DEF Bootstrap
  <2>3. o.owner \in OwnedBy(m)
    BY <1>2, <2>2 DEF OwnedBy
  <2>4. o.owner \in Group /\ o.owner # None /\ m.start \in ScoredCommits(o.owner)
    BY <2>2, <2>3, StudyAssumption DEF OwnedBy
  <2>5. Row(m.start).result \in Score /\ m.start \in CleanCommits(o.owner)
    BY <2>4, CleanFacts
  <2>6. o \in Anchor
    BY <2>2, <2>4, <2>5 DEF Anchor
  <2>7. GoodAnchor(o)
    BY <2>4, <2>5, <2>6 DEF GoodAnchor
  <2> HIDE DEF m
  <2> QED
    BY <1>2, <2>1, <2>3, <2>4, <2>7 DEF m
<1> QED
  BY <1>1, <1>2

(* A clean loop is an anchor, as many steps above the origin.                 *)
LEMMA LoopAnchorFacts ==
  ASSUME CommitsKept, NEW g \in Group, origin[g] \in Bootstrap \cup {None}, NEW c \in CleanCommits(g)
  PROVE  /\ GoodAnchor(LoopAnchor(g, c)) /\ LoopAnchor(g, c).owner = g /\ LoopAnchor(g, c).ref = c
         /\ LoopAnchor(g, c).step = OriginAnchor(g).step + LoopOf(c)
         /\ Row(c).result \in Score => LoopAnchor(g, c).value = Row(c).result
<1>1. c \in Commit /\ LoopOf(c) \in Nat
  BY CleanFacts, MadeFacts, LoopOfFacts
<1>2. OriginAnchor(g).step \in Nat /\ OriginAnchor(g).value \in Score
  BY OriginFacts DEF GoodAnchor, Anchor
<1> DEFINE a == LoopAnchor(g, c)
<1>3. a = [ref |-> c, step |-> OriginAnchor(g).step + LoopOf(c), owner |-> g,
           value |-> IF Row(c).result \in Score THEN Row(c).result ELSE OriginAnchor(g).value]
  BY DEF LoopAnchor
<1>4. a \in Anchor
  BY <1>1, <1>2, <1>3 DEF Anchor
<1> QED
  BY <1>3, <1>4, StudyAssumption DEF GoodAnchor

(* The best anchor of a group is its origin, when no loop is better, or the   *)
(* loop that no other beats.                                                  *)
LEMMA BestFacts ==
  ASSUME CommitsKept, NEW g \in Group, origin[g] \in Bootstrap \cup {None}
  PROVE  \/ /\ BestAnchor(g) = OriginAnchor(g)
            /\ \A d \in ScoredCommits(g) : ~Better(Row(d).result, OriginAnchor(g).value)
         \/ \E c \in ScoredCommits(g) :
              /\ BestAnchor(g) = LoopAnchor(g, c)
              /\ Better(Row(c).result, OriginAnchor(g).value)
              /\ \A d \in ScoredCommits(g) : ~Better(Row(d).result, Row(c).result)
<1> DEFINE o == OriginAnchor(g)
           better == {c \in ScoredCommits(g) : Better(Row(c).result, o.value)}
           Wins(c, d) == \/ Better(Row(c).result, Row(d).result)
                         \/ Row(c).result = Row(d).result /\ c[2] <= d[2]
           R == {e \in better \X better :
                   \/ Better(Row(e[1]).result, Row(e[2]).result)
                   \/ Row(e[1]).result = Row(e[2]).result /\ e[1][2] < e[2][2]}
<1>1. BestAnchor(g) = IF better = {} THEN o ELSE LoopAnchor(g, CHOOSE c \in better : \A d \in better : Wins(c, d))
  BY DEF BestAnchor
<1>2. o.value \in Nat
  BY OriginFacts, ScoreAssumption DEF GoodAnchor, Anchor
<1>3. \A c \in ScoredCommits(g) : Row(c).result \in Nat /\ c[2] \in Nat
  BY CleanFacts, MadeFacts, ScoreAssumption
<1>4. CASE better = {}
  BY <1>1, <1>4
<1>5. CASE better # {}
  <2>1. IsFiniteSet(better)
    <3>1. better \in SUBSET Made(g)
      BY CleanFacts
    <3> HIDE DEF better
    <3> QED
      BY <3>1, MadeFinite, FS_Subset
  <2>2. \A c \in better : <<c, c>> \notin R
    BY <1>3, BetterOrder
  <2>3. \A c, d, e \in better : <<c, d>> \in R /\ <<d, e>> \in R => <<c, e>> \in R
    <3> TAKE c, d, e \in better
    <3>1. Row(c).result \in Nat /\ Row(d).result \in Nat /\ Row(e).result \in Nat
          /\ c[2] \in Nat /\ d[2] \in Nat /\ e[2] \in Nat
      BY <1>3
    <3> QED
      BY <3>1, BetterOrder
  <2>4. PICK c \in better : \A d \in better : <<d, c>> \notin R
    <3> HIDE DEF better, R
    <3> QED
      BY <1>5, <2>1, <2>2, <2>3, Extremum
  <2>5. \A d \in better : Wins(c, d)
    <3> TAKE d \in better
    <3>1. Row(c).result \in Nat /\ Row(d).result \in Nat /\ c[2] \in Nat /\ d[2] \in Nat
      BY <1>3
    <3>2. <<d, c>> \in better \X better /\ <<d, c>>[1] = d /\ <<d, c>>[2] = c
      OBVIOUS
    <3>3. ~(Better(Row(d).result, Row(c).result) \/ (Row(d).result = Row(c).result /\ d[2] < c[2]))
      <4> HIDE DEF better
      <4> QED
        BY <2>4, <3>2
    <3> QED
      BY <3>1, <3>3, BetterOrder
  <2>6. PICK w \in better : BestAnchor(g) = LoopAnchor(g, w) /\ \A d \in better : Wins(w, d)
    <3> HIDE DEF better, Wins
    <3> QED
      BY <1>1, <1>5, <2>5
  <2>7. ASSUME NEW d \in ScoredCommits(g)
        PROVE  ~Better(Row(d).result, Row(w).result)
    <3>1. Row(w).result \in Nat /\ Row(d).result \in Nat
      BY <1>3
    <3>2. CASE d \in better
      BY <2>6, <3>1, <3>2, BetterOrder
    <3>3. CASE d \notin better
      BY <1>2, <3>1, <3>3, BetterOrder
    <3> QED
      BY <3>2, <3>3
  <2> QED
    BY <2>6, <2>7
<1> QED
  BY <1>4, <1>5

(* The last anchor is a clean loop, unless there is none.                     *)
LEMMA LastFacts ==
  ASSUME CommitsKept, NEW g \in Group
  PROVE  \/ CleanCommits(g) = {} /\ LastAnchor(g) = None
         \/ CleanCommits(g) # {} /\ \E c \in CleanCommits(g) : LastAnchor(g) = LoopAnchor(g, c)
<1> DEFINE C == CleanCommits(g)
           Later(c, d) == LoopRank(c) > LoopRank(d) \/ (LoopRank(c) = LoopRank(d) /\ c[2] >= d[2])
           R == {e \in C \X C : \/ LoopRank(e[1]) > LoopRank(e[2])
                                \/ LoopRank(e[1]) = LoopRank(e[2]) /\ e[1][2] > e[2][2]}
<1>1. LastAnchor(g) = IF C = {} THEN None ELSE LoopAnchor(g, CHOOSE c \in C : \A d \in C : Later(c, d))
  BY DEF LastAnchor
<1>2. \A c \in C : LoopRank(c) \in Nat /\ c[2] \in Nat
  BY CleanFacts, MadeFacts, LoopOfFacts
<1>3. IsFiniteSet(C)
  BY CleanFacts, MadeFinite, FS_Subset
<1> HIDE DEF C
<1>4. CASE C = {}
  BY <1>1, <1>4 DEF C
<1>5. CASE C # {}
  <2>1. \A c \in C : <<c, c>> \notin R
    BY <1>2
  <2>2. \A c, d, e \in C : <<c, d>> \in R /\ <<d, e>> \in R => <<c, e>> \in R
    BY <1>2
  <2>3. PICK c \in C : \A d \in C : <<d, c>> \notin R
    <3> HIDE DEF R
    <3> QED
      BY <1>3, <1>5, <2>1, <2>2, Extremum
  <2>4. \A d \in C : Later(c, d)
    <3> TAKE d \in C
    <3>1. LoopRank(c) \in Nat /\ LoopRank(d) \in Nat /\ c[2] \in Nat /\ d[2] \in Nat
      BY <1>2
    <3>2. <<d, c>> \in C \X C /\ <<d, c>>[1] = d /\ <<d, c>>[2] = c
      OBVIOUS
    <3>3. ~(LoopRank(d) > LoopRank(c) \/ (LoopRank(d) = LoopRank(c) /\ d[2] > c[2]))
      BY <2>3, <3>2
    <3> QED
      BY <3>1, <3>3
  <2>5. \E w \in C : LastAnchor(g) = LoopAnchor(g, w)
    <3> HIDE DEF Later
    <3> QED
      BY <1>1, <1>5, <2>4
  <2> QED
    BY <1>5, <2>5 DEF C
<1> QED
  BY <1>4, <1>5

(* What a policy makes of a group.                                            *)
LEMMA PolicyFacts ==
  ASSUME CommitsKept, NEW g \in Group, origin[g] \in Bootstrap \cup {None},
         NEW policy \in {"best_commit", "last_commit"}
  PROVE  LET a == PolicyAnchor(policy, g) IN
         /\ policy = "best_commit" => a = BestAnchor(g) /\ a # None
         /\ policy = "last_commit" => a = LastAnchor(g)
         /\ a = None => CleanCommits(g) = {}
         /\ a # None => GoodAnchor(a) /\ (a = OriginAnchor(g) \/ \E c \in CleanCommits(g) : a = LoopAnchor(g, c))
         /\ a # None /\ policy = "last_commit" => a.ref \in CleanCommits(g) /\ a.owner # None
<1>1. \A x : GoodAnchor(x) => x # None
  BY NothingAssumption DEF GoodAnchor
<1>2. CASE policy = "best_commit"
  <2>1. PolicyAnchor(policy, g) = BestAnchor(g)
    BY <1>2 DEF PolicyAnchor
  <2>2. BestAnchor(g) = OriginAnchor(g) \/ \E c \in CleanCommits(g) : BestAnchor(g) = LoopAnchor(g, c)
    BY BestFacts, CleanFacts
  <2>3. GoodAnchor(BestAnchor(g))
    BY <2>2, OriginFacts, LoopAnchorFacts
  <2> QED
    BY <1>1, <1>2, <2>1, <2>2, <2>3
<1>3. CASE policy = "last_commit"
  <2>1. PolicyAnchor(policy, g) = LastAnchor(g)
    BY <1>3 DEF PolicyAnchor
  <2>2. CASE CleanCommits(g) = {} /\ LastAnchor(g) = None
    BY <1>3, <2>1, <2>2
  <2>3. ASSUME NEW c \in CleanCommits(g), LastAnchor(g) = LoopAnchor(g, c)
        PROVE  GoodAnchor(LastAnchor(g)) /\ LastAnchor(g).ref = c /\ LastAnchor(g).owner = g
    BY <2>3, LoopAnchorFacts
  <2> QED
    BY <1>1, <1>3, <2>1, <2>2, <2>3, LastFacts, StudyAssumption
<1> QED
  BY <1>2, <1>3

------------------------------------------------------------------------------
(* Bootstraps.                                                                *)

(* The sources of a merge, at finitely many places.                           *)
LEMMA SourceFacts ==
  ASSUME NEW g \in Group
  PROVE  /\ IsFiniteSet(DOMAIN SourceIds(g)) /\ DOMAIN SourceIds(g) \subseteq Nat
         /\ \A i \in DOMAIN SourceIds(g) : SourceIds(g)[i] \in Group
<1>1. \A s \in Seq(Group) : /\ IsFiniteSet(DOMAIN s) /\ DOMAIN s \subseteq Nat
                            /\ \A i \in DOMAIN s : s[i] \in Group
  <2> TAKE s \in Seq(Group)
  <2>1. DOMAIN s = 1 .. Len(s) /\ Len(s) \in Nat /\ \A i \in DOMAIN s : s[i] \in Group
    OBVIOUS
  <2> QED
    BY <2>1, FS_Interval
<1>2. CASE Draws[g] # <<>>
  BY <1>1, <1>2, StudyAssumption DEF SourceIds
<1>3. CASE Draws[g] = <<>>
  <2>1. SourceIds(g) = Tips
    BY <1>3 DEF SourceIds
  <2>2. DOMAIN Tips \in SUBSET (DOMAIN Order) /\ \A i \in DOMAIN Tips : Tips[i] = Order[i]
    BY DEF Tips
  <2>3. Order \in Seq(Group)
    BY StudyAssumption
  <2>4. IsFiniteSet(DOMAIN Order) /\ DOMAIN Order \subseteq Nat /\ \A i \in DOMAIN Order : Order[i] \in Group
    BY <1>1, <2>3
  <2>5. IsFiniteSet(DOMAIN Tips)
    BY <2>2, <2>4, FS_Subset
  <2> QED
    BY <2>1, <2>2, <2>4, <2>5
<1> QED
  BY <1>2, <1>3

OriginsKept == \A g \in Group : origin[g] \in Bootstrap \cup {None}

(* The anchors of the sources of a merge.                                     *)
LEMMA SourceAnchorFacts ==
  ASSUME CommitsKept, OriginsKept, NEW g \in Group, NEW i \in Resolved(SourceAnchors(g))
  PROVE  LET p == SourceIds(g)[i] IN
         /\ i \in DOMAIN SourceIds(g) /\ p \in Group
         /\ SourceAnchors(g)[i] = PolicyAnchor(TopPolicy[p], p)
         /\ SourceAnchors(g)[i] # None /\ GoodAnchor(SourceAnchors(g)[i])
<1>1. i \in DOMAIN SourceIds(g) /\ SourceAnchors(g)[i] # None
      /\ SourceAnchors(g)[i] = PolicyAnchor(TopPolicy[SourceIds(g)[i]], SourceIds(g)[i])
  BY DEF Resolved, SourceAnchors
<1>2. SourceIds(g)[i] \in Group
  BY <1>1, SourceFacts
<1>3. TopPolicy[SourceIds(g)[i]] \in {"best_commit", "last_commit"}
  BY <1>2, StudyAssumption
<1> QED
  BY <1>1, <1>2, <1>3, PolicyFacts DEF OriginsKept

(* A merge with a source that resolves has a strongest one.                   *)
LEMMA StrongestFacts ==
  ASSUME CommitsKept, OriginsKept, NEW g \in Group, Resolved(SourceAnchors(g)) # {}
  PROVE  Strongest(SourceAnchors(g)) \in Resolved(SourceAnchors(g))
<1> DEFINE C == Resolved(SourceAnchors(g))
           Value(i) == SourceAnchors(g)[i].value
           Beats(i, j) == Better(Value(i), Value(j)) \/ (Value(i) = Value(j) /\ i <= j)
           R == {e \in C \X C : \/ Better(Value(e[1]), Value(e[2]))
                                \/ Value(e[1]) = Value(e[2]) /\ e[1] < e[2]}
<1>1. Strongest(SourceAnchors(g)) = CHOOSE i \in C : \A j \in C : Beats(i, j)
  BY DEF Strongest
<1>2. \A i \in C : Value(i) \in Nat /\ i \in Nat
  BY SourceAnchorFacts, SourceFacts, ScoreAssumption DEF GoodAnchor, Anchor
<1>3. IsFiniteSet(C)
  <2>1. C \in SUBSET (DOMAIN SourceIds(g))
    BY SourceAnchorFacts
  <2> HIDE DEF C
  <2> QED
    BY <2>1, SourceFacts, FS_Subset
<1> HIDE DEF C, Value
<1>4. \A c \in C : <<c, c>> \notin R
  BY <1>2, BetterOrder
<1>5. \A c, d, e \in C : <<c, d>> \in R /\ <<d, e>> \in R => <<c, e>> \in R
  <2> TAKE c, d, e \in C
  <2>1. Value(c) \in Nat /\ Value(d) \in Nat /\ Value(e) \in Nat /\ c \in Nat /\ d \in Nat /\ e \in Nat
    BY <1>2
  <2> QED
    BY <2>1, BetterOrder
<1>6. PICK c \in C : \A d \in C : <<d, c>> \notin R
  <2>1. C # {}
    BY DEF C
  <2> HIDE DEF R
  <2> QED
    BY <1>3, <1>4, <1>5, <2>1, Extremum
<1>7. \A d \in C : Beats(c, d)
  <2> TAKE d \in C
  <2>1. Value(c) \in Nat /\ Value(d) \in Nat /\ c \in Nat /\ d \in Nat
    BY <1>2
  <2>2. ~(Better(Value(d), Value(c)) \/ (Value(d) = Value(c) /\ d < c))
    BY <1>6
  <2> QED
    BY <2>1, <2>2, BetterOrder
<1> HIDE DEF Beats
<1>8. Strongest(SourceAnchors(g)) \in C
  BY <1>1, <1>7
<1> QED
  BY <1>8 DEF C

(* A plan folds in clean commits, none of them the base, of areas that the    *)
(* group of the base is not below.                                            *)
PlanKept(b) ==
  \A f \in b.foldIns :
    /\ f \in FoldIn /\ f.commit \in CleanCommits(f.owner) /\ f.commit # b.start
    /\ b.owner # None => AreaNode(f.owner) \notin Upstream[b.owner]

(* A bootstrap is the anchor of a source, ...                                 *)
TakenFrom(h, b, p, policy) ==
  LET a == PolicyAnchor(policy, p) IN
  /\ p \in SourcesOf(h) \cap Group /\ policy \in {"best_commit", "last_commit"} /\ a # None
  /\ b.start = a.ref /\ b.owner = a.owner /\ b.step = a.step
  /\ Mode[h] # "baseline"
  /\ Mode[h] = "inherit" => p = Parent[h] /\ policy = InheritPolicy[h] /\ b.parent = p
  /\ Mode[h] = "merge" => policy = TopPolicy[p] /\ b.parent = a.owner

(* ... or the branch of a parent without a clean commit.                      *)
TakenFromBranch(h, b) ==
  /\ Mode[h] = "inherit" /\ InheritPolicy[h] = "last_commit" /\ CleanCommits(Parent[h]) = {}
  /\ b.start = head[Parent[h]] /\ b.start # None /\ b.owner = None /\ b.step = 0 /\ b.parent = Parent[h]

HeadsKept == head \in [Group -> Commit \cup {None}]

(* A merge starts at the anchor of a source and plans the others.             *)
LEMMA MergeFacts ==
  ASSUME CommitsKept, OriginsKept, NEW h \in Group, Mode[h] = "merge", NEW b \in Bootstraps(h)
  PROVE  b \in Bootstrap /\ PlanKept(b) /\ \E p, policy : TakenFrom(h, b, p, policy)
<1> DEFINE anchors == SourceAnchors(h)
           i == Strongest(anchors)
           base == anchors[i]
           adds == {j \in Resolved(anchors) \ {i} : ~NoOp(anchors[j], base)}
           Fold(j) == [owner |-> anchors[j].owner, commit |-> anchors[j].ref]
           Before(j, k) == \/ Better(anchors[j].value, anchors[k].value)
                           \/ anchors[j].value = anchors[k].value /\ j < k
           first == {j \in adds : \A k \in adds : ~Before(k, j)}
           p == SourceIds(h)[i]
<1>1. Resolved(anchors) # {} /\ b = MergeBoot(anchors)
  BY DEF Bootstraps, MergeBoots
<1>2. i \in Resolved(anchors)
  BY <1>1, StrongestFacts
<1>3. p \in Group /\ p \in SourcesOf(h) /\ base = PolicyAnchor(TopPolicy[p], p) /\ base # None /\ GoodAnchor(base)
  BY <1>2, SourceAnchorFacts DEF SourcesOf
<1>4. b = [start |-> base.ref, parent |-> base.owner, owner |-> base.owner, step |-> base.step,
           foldIns |-> {Fold(j) : j \in adds}, first |-> {Fold(j) : j \in first}]
  BY <1>1 DEF MergeBoot
<1> HIDE DEF Before
<1>5. TakenFrom(h, b, p, TopPolicy[p])
  <2>1. TopPolicy[p] \in {"best_commit", "last_commit"}
    BY <1>3, StudyAssumption
  <2>2. b.start = base.ref /\ b.owner = base.owner /\ b.step = base.step /\ b.parent = base.owner
    BY <1>4
  <2> HIDE DEF p, base
  <2> QED
    BY <1>3, <2>1, <2>2 DEF TakenFrom
<1>6. \A j \in adds : GoodAnchor(anchors[j]) /\ ~NoOp(anchors[j], base)
  BY SourceAnchorFacts
<1>7. ASSUME NEW j \in adds
      PROVE  /\ Fold(j).owner \in Group /\ Fold(j).commit \in Commit /\ Fold(j) \in FoldIn
             /\ Fold(j).commit \in CleanCommits(Fold(j).owner) /\ Fold(j).commit # base.ref
             /\ base.owner # None => AreaNode(Fold(j).owner) \notin Upstream[base.owner]
  <2> DEFINE s == anchors[j]
  <2>1. GoodAnchor(s) /\ ~NoOp(s, base)
    BY <1>6
  <2>2. Fold(j) = [owner |-> s.owner, commit |-> s.ref]
    OBVIOUS
  <2> HIDE DEF Fold, adds, base, s
  <2>3. /\ s.owner \in Group /\ s.ref \in Commit /\ s.ref \in CleanCommits(s.owner) /\ s.ref # base.ref
        /\ base.owner # None => AreaNode(s.owner) \notin Upstream[base.owner]
    BY <2>1 DEF NoOp, GoodAnchor, Anchor
  <2> QED
    BY <2>2, <2>3 DEF FoldIn
<1> HIDE DEF Fold, adds
<1>8. base.ref \in Commit /\ base.owner \in Group \cup {None} /\ base.step \in Nat
  BY <1>3 DEF GoodAnchor, Anchor
<1> HIDE DEF base
<1>9. PlanKept(b)
  <2>1. b.owner = base.owner /\ b.start = base.ref
    BY <1>4
  <2> SUFFICES ASSUME NEW f \in b.foldIns
               PROVE  /\ f \in FoldIn /\ f.commit \in CleanCommits(f.owner)
                      /\ f.commit # b.start
                      /\ b.owner # None => AreaNode(f.owner) \notin Upstream[b.owner]
    BY DEF PlanKept
  <2>2. PICK j \in adds : f = Fold(j)
    BY <1>4
  <2> QED
    BY <1>7, <2>1, <2>2
<1>10. b.foldIns \subseteq FoldIn /\ b.first \subseteq FoldIn
  <2>1. b.first \subseteq b.foldIns
    BY <1>4
  <2> QED
    BY <1>9, <2>1 DEF PlanKept
<1>11. b \in Bootstrap
  BY <1>4, <1>8, <1>10 DEF Bootstrap
<1> QED
  BY <1>5, <1>9, <1>11

(* An inherit group starts at its parent's anchor or branch.                  *)
LEMMA InheritFacts ==
  ASSUME CommitsKept, OriginsKept, HeadsKept, NEW h \in Group, Mode[h] = "inherit", NEW b \in Bootstraps(h)
  PROVE  /\ b \in Bootstrap /\ b.foldIns = {}
         /\ TakenFromBranch(h, b) \/ TakenFrom(h, b, Parent[h], InheritPolicy[h])
<1> DEFINE p == Parent[h]
           policy == InheritPolicy[h]
           a == PolicyAnchor(policy, p)
<1>1. p \in Group /\ policy \in {"best_commit", "last_commit"} /\ SourcesOf(h) = {p}
  BY StudyAssumption DEF SourcesOf
<1>2. b = InheritFrom(p, a) /\ b.start # None
  BY DEF Bootstraps, InheritBoot
<1>3. CASE a = None
  <2>1. b = [start |-> head[p], parent |-> p, owner |-> None, step |-> 0, foldIns |-> {}, first |-> {}]
    BY <1>2, <1>3 DEF InheritFrom
  <2>2. policy = "last_commit" /\ CleanCommits(p) = {}
    BY <1>1, <1>3, PolicyFacts DEF OriginsKept
  <2>3. head[p] \in Commit
    BY <1>1, <1>2, <2>1 DEF HeadsKept
  <2>4. b \in Bootstrap
    BY <1>1, <2>1, <2>3 DEF Bootstrap
  <2> QED
    BY <1>2, <2>1, <2>2, <2>4 DEF TakenFromBranch
<1>4. CASE a # None
  <2>1. b = [start |-> a.ref, parent |-> p, owner |-> a.owner, step |-> a.step, foldIns |-> {}, first |-> {}]
    BY <1>2, <1>4 DEF InheritFrom
  <2>2. a.ref \in Commit /\ a.owner \in Group \cup {None} /\ a.step \in Nat
    BY <1>1, <1>4, PolicyFacts DEF OriginsKept, GoodAnchor, Anchor
  <2>3. b \in Bootstrap
    BY <1>1, <2>1, <2>2 DEF Bootstrap
  <2>4. TakenFrom(h, b, p, policy)
    <3> HIDE DEF a
    <3> QED
      BY <1>1, <1>4, <2>1 DEF TakenFrom, a
  <2> QED
    BY <2>1, <2>3, <2>4
<1> QED
  BY <1>3, <1>4

(* Every bootstrap is the baseline, a parent's branch or a source's anchor.   *)
LEMMA BootFacts ==
  ASSUME CommitsKept, OriginsKept, HeadsKept, NEW h \in Group, NEW b \in Bootstraps(h)
  PROVE  /\ b \in Bootstrap /\ PlanKept(b)
         /\ \/ Mode[h] = "baseline" /\ b = BaselineBoot
            \/ TakenFromBranch(h, b)
            \/ \E p, policy : TakenFrom(h, b, p, policy)
<1>1. CASE Mode[h] = "merge"
  BY <1>1, MergeFacts
<1>2. CASE Mode[h] = "inherit"
  BY <1>2, InheritFacts DEF PlanKept
<1>3. CASE Mode[h] = "baseline"
  <2>1. b = BaselineBoot
    BY <1>3 DEF Bootstraps
  <2>2. b \in Bootstrap
    BY <2>1 DEF BaselineBoot, Bootstrap, Commit
  <2> QED
    BY <1>3, <2>1, <2>2 DEF PlanKept, BaselineBoot
<1> QED
  BY <1>1, <1>2, <1>3, StudyAssumption

------------------------------------------------------------------------------
(* What a step leaves as it is: the commits there are, and what is said of    *)
(* them.                                                                      *)

AllMade == UNION {Made(g) : g \in Group}
Known == {Base} \cup AllMade

(* The commit of a loop.                                                      *)
LEMMA LoopFacts ==
  ASSUME CommitsKept, NEW g \in Group, NEW r, Loop(g, r), HeadsKept
  PROVE  /\ \E n \in LoopCommit \ Known, whole \in BOOLEAN :
              /\ Made(g)' = Made(g) \cup {n} /\ head'[g] = n
              /\ Row(n)' = [past |-> History(head[g]), loop |-> loop[g], whole |-> whole, result |-> r]
         /\ \A h \in Group : /\ h # g => Made(h)' = Made(h) /\ head'[h] = head[h]
                             /\ \A c \in Made(h) : Row(c)' = Row(c)
<1> DEFINE Written(w) == [past |-> History(head[g]), loop |-> loop[g], whole |-> w, result |-> r]
<1>1. PICK whole \in BOOLEAN : commits' = [commits EXCEPT ![g] = Append(@, Written(whole))]
                               /\ head' = [head EXCEPT ![g] = <<g, Len(commits'[g])>>]
  BY DEF Loop
<1> HIDE DEF Written
<1> PICK row : row = Written(whole)
  OBVIOUS
<1>2. commits[g] \in Seq(CommitRow) /\ DOMAIN commits = Group
  BY DEF CommitsKept
<1>3. /\ Len(commits[g]) \in Nat /\ DOMAIN commits[g] = 1 .. Len(commits[g])
      /\ DOMAIN Append(commits[g], row) = 1 .. (Len(commits[g]) + 1)
      /\ Len(Append(commits[g], row)) = Len(commits[g]) + 1
      /\ Append(commits[g], row)[Len(commits[g]) + 1] = row
      /\ \A i \in DOMAIN commits[g] : Append(commits[g], row)[i] = commits[g][i]
  <2> DEFINE s == commits[g]
  <2>1. \E S : s \in Seq(S \cup {row})
    <3>1. s \in Seq(CommitRow \cup {row})
      BY <1>2
    <3> QED
      BY <3>1
  <2> HIDE DEF s
  <2>2. PICK S : s \in Seq(S) /\ row \in S
    BY <2>1
  <2>3. /\ Len(s) \in Nat /\ DOMAIN s = 1 .. Len(s)
        /\ DOMAIN Append(s, row) = 1 .. (Len(s) + 1) /\ Len(Append(s, row)) = Len(s) + 1
        /\ Append(s, row)[Len(s) + 1] = row
        /\ \A i \in DOMAIN s : Append(s, row)[i] = s[i]
    BY <2>2
  <2> QED
    BY <2>3 DEF s
<1>4. commits'[g] = Append(commits[g], row) /\ \A h \in Group \ {g} : commits'[h] = commits[h]
  BY <1>1, <1>2
<1> PICK n : n = <<g, Len(commits[g]) + 1>>
  OBVIOUS
<1>5. Made(g)' = Made(g) \cup {n}
  <2>1. DOMAIN commits'[g] = DOMAIN commits[g] \cup {Len(commits[g]) + 1}
    BY <1>3, <1>4
  <2> QED
    BY <2>1 DEF Made
<1>6. n \notin Known
  <2>1. n \in LoopCommit /\ n # Base
    BY <1>3, NothingAssumption DEF LoopCommit
  <2>2. ASSUME NEW h \in Group, n \in Made(h)
        PROVE  FALSE
    <3>1. n[1] = h /\ n[2] \in DOMAIN commits[h]
      BY <2>2, MadeFacts
    <3> QED
      BY <1>3, <3>1
  <2> QED
    BY <2>1, <2>2 DEF Known, AllMade
<1>7. head'[g] = n
  BY <1>1, <1>3, <1>4 DEF HeadsKept
<1>8. Row(n)' = row
  BY <1>3, <1>4 DEF Row
<1>9. ASSUME NEW h \in Group
      PROVE  h # g => Made(h)' = Made(h) /\ head'[h] = head[h]
  BY <1>1, <1>4 DEF Made, HeadsKept
<1>10. ASSUME NEW h \in Group, NEW c \in Made(h)
       PROVE  Row(c)' = Row(c)
  <2>1. c[1] = h /\ c[2] \in DOMAIN commits[h]
    BY MadeFacts
  <2>2. commits'[h][c[2]] = commits[h][c[2]]
    BY <1>3, <1>4, <2>1
  <2> QED
    BY <2>1, <2>2 DEF Row
<1>11. n \in LoopCommit
  BY <1>3 DEF LoopCommit
<1> QED
  BY <1>5, <1>6, <1>7, <1>8, <1>9, <1>10, <1>11 DEF Written

(* Commits are only added, and what is said of one stays.                     *)
Grows ==
  /\ \A c \in AllMade : Row(c)' = Row(c)
  /\ \A g \in Group : /\ Made(g) \subseteq Made(g)' /\ starts[g] \subseteq starts'[g]
                      /\ \A c \in Known : c \in Made(g)' => c \in Made(g)

(* No step takes back a commit, its row or a start.                           *)
LEMMA StepGrows ==
  ASSUME CommitsKept, HeadsKept, starts \in [Group -> SUBSET Commit], [Next]_vars
  PROVE  Grows
<1>1. ASSUME UNCHANGED commits
      PROVE  \A g \in Group : Made(g)' = Made(g) /\ \A c : Row(c)' = Row(c)
  BY <1>1 DEF Made, Row
<1>2. ASSUME NEW g \in Group, NEW r, Loop(g, r)
      PROVE  Grows
  <2>1. starts' = starts
    BY <1>2 DEF Loop
  <2>2. \A h \in Group : Made(h) \subseteq Made(h)' /\ \A c \in Known : c \in Made(h)' => c \in Made(h)
    BY <1>2, LoopFacts
  <2>3. \A h \in Group : \A c \in Made(h) : Row(c)' = Row(c)
    BY <1>2, LoopFacts
  <2>4. \A c \in AllMade : Row(c)' = Row(c)
    BY <2>3 DEF AllMade
  <2> QED
    BY <2>1, <2>2, <2>4 DEF Grows
<1>3. ASSUME NEW g \in Group, Begin(g)
      PROVE  Grows
  <2>1. UNCHANGED commits /\ starts' = [starts EXCEPT ![g] = @ \cup {head'[g]}]
    BY <1>3 DEF Begin
  <2> QED
    BY <1>1, <2>1 DEF Grows
<1>4. ASSUME UNCHANGED <<commits, starts>>
      PROVE  Grows
  <2>1. starts' = starts /\ UNCHANGED commits
    BY <1>4
  <2>2. \A g \in Group : Made(g)' = Made(g)
    BY <1>1, <2>1
  <2>3. \A c : Row(c)' = Row(c)
    BY <2>1 DEF Row
  <2> QED
    BY <2>1, <2>2, <2>3 DEF Grows
<1>5. ASSUME NEW g \in Group, GiveUp(g)
      PROVE  Grows
  BY <1>4, <1>5 DEF GiveUp
<1>6. Resume \/ UNCHANGED vars => Grows
  BY <1>4 DEF Resume, vars
<1> QED
  BY <1>2, <1>3, <1>5, <1>6 DEF Next

(* So what is known of a commit is known after a step.                        *)
LEMMA KnownStays ==
  ASSUME Grows, NEW c \in Known
  PROVE  /\ c \in Known' /\ History(c)' = History(c)
         /\ \A g \in Group : /\ c \in Made(g)' <=> c \in Made(g)
                             /\ c \in CleanCommits(g)' <=> c \in CleanCommits(g)
                             /\ c \in ScoredCommits(g)' <=> c \in ScoredCommits(g)
<1>1. c # Base => c \in AllMade
  BY DEF Known
<1>2. History(c)' = History(c)
  BY <1>1 DEF Grows, History
<1>3. \A g \in Group : c \in Made(g)' <=> c \in Made(g)
  BY DEF Grows
<1>4. \A g \in Group : c \in Made(g) => Row(c)' = Row(c)
  BY DEF Grows, AllMade
<1>5. c \in Known'
  BY <1>3 DEF Known, AllMade
<1> QED
  BY <1>2, <1>3, <1>4, <1>5 DEF CleanCommits, ScoredCommits

------------------------------------------------------------------------------
(* The types, and what keeps them: everything refers to commits there are.    *)

StartKept(g, b) ==
  /\ b \in Bootstrap /\ PlanKept(b) /\ b.start \in Known
  /\ b.start = Base => b.step = 0
  /\ b.owner = None => b.step = 0
  /\ Mode[g] = "baseline" => b.start = Base /\ b.owner = None
  /\ b.owner # None => b.parent # None /\ b.start \in CleanCommits(b.owner)
  /\ b.owner # None /\ Mode[g] = "inherit" /\ InheritPolicy[g] = "last_commit" =>
       b.start \in CleanCommits(Parent[g])
  /\ b.owner = None /\ b.start # Base =>
       /\ Mode[g] = "inherit" /\ InheritPolicy[g] = "last_commit"
       /\ b.parent = Parent[g] /\ b.start \notin CleanCommits(Parent[g])

BranchKept(g) ==
  /\ head[g] \in Known \cup {None} /\ starts[g] \subseteq Known
  /\ \A c \in Made(g) : /\ Row(c).past \subseteq AllMade /\ IsFiniteSet(Row(c).past)
                        /\ Row(c).loop <= Budget[g]

StartsKept(g) == \A b \in {boot[g], origin[g]} \ {None} : StartKept(g, b) /\ b.start \in starts[g]

PhaseKept(g) ==
  /\ phase[g] = "running" => boot[g] # None /\ loop[g] \in 1 .. Budget[g]
  /\ Made(g) # {} => origin[g] # None
  /\ origin[g] # None => boot[g] # None
  /\ boot[g] # None <=> head[g] # None

GroupKept(g) == BranchKept(g) /\ StartsKept(g) /\ PhaseKept(g)

Typed ==
  /\ CommitsKept /\ HeadsKept
  /\ origin \in [Group -> Bootstrap \cup {None}] /\ boot \in [Group -> Bootstrap \cup {None}]
  /\ phase \in [Group -> {"idle", "running", "finished"}]
  /\ loop \in [Group -> Nat] /\ \A g \in Group : loop[g] <= Budget[g]
  /\ starts \in [Group -> SUBSET Commit] /\ invocations \in 1 .. MaxInvocations

Inv == Typed /\ \A g \in Group : GroupKept(g)

(* The commits there are.                                                     *)
LEMMA KnownFacts ==
  ASSUME CommitsKept
  PROVE  /\ Base \in Known /\ AllMade \subseteq Known /\ Known \subseteq Commit /\ AllMade \subseteq LoopCommit
         /\ \A g \in Group : /\ Made(g) \subseteq AllMade /\ CleanCommits(g) \subseteq AllMade
                             /\ Base \notin CleanCommits(g)
         /\ None \notin Known /\ None \notin Bootstrap
<1>1. \A g \in Group : Made(g) \subseteq LoopCommit
  BY MadeFacts
<1>2. AllMade \subseteq LoopCommit
  BY <1>1 DEF AllMade
<1>3. \A g \in Group : Made(g) \subseteq AllMade
  BY DEF AllMade
<1> QED
  BY <1>2, <1>3, CleanFacts, NothingAssumption DEF Known, Commit

(* What a bootstrap may be, from the registry it was made of.                 *)
LEMMA BootStarts ==
  ASSUME Inv, NEW g \in Group, NEW b \in Bootstraps(g)
  PROVE  StartKept(g, b)
<1>1. CommitsKept /\ OriginsKept /\ HeadsKept
  BY DEF Inv, Typed, OriginsKept
<1>2. b \in Bootstrap /\ PlanKept(b)
  BY <1>1, BootFacts
<1>3. CASE Mode[g] = "baseline" /\ b = BaselineBoot
  BY <1>1, <1>2, <1>3, KnownFacts DEF StartKept, BaselineBoot
<1>4. CASE TakenFromBranch(g, b)
  <2>1. Parent[g] \in Group
    BY <1>4, StudyAssumption DEF TakenFromBranch
  <2>2. b.start \in Known
    BY <1>4, <2>1 DEF TakenFromBranch, Inv, GroupKept, BranchKept
  <2> QED
    BY <1>2, <1>4, <2>2 DEF TakenFromBranch, StartKept
<1>5. ASSUME NEW p, NEW policy, TakenFrom(g, b, p, policy)
      PROVE  StartKept(g, b)
  <2> DEFINE a == PolicyAnchor(policy, p)
  <2>1. p \in Group /\ policy \in {"best_commit", "last_commit"} /\ a # None
        /\ b.start = a.ref /\ b.owner = a.owner /\ b.step = a.step /\ Mode[g] # "baseline"
        /\ (Mode[g] = "inherit" => p = Parent[g] /\ policy = InheritPolicy[g] /\ b.parent = p)
        /\ (Mode[g] = "merge" => b.parent = a.owner)
    BY <1>5 DEF TakenFrom
  <2>2. GoodAnchor(a) /\ (policy = "last_commit" => a.ref \in CleanCommits(p) /\ a.owner # None)
    BY <1>1, <2>1, PolicyFacts DEF OriginsKept
  <2> HIDE DEF a
  <2>3. CASE a.owner = None
    <3>1. b.start = Base /\ b.step = 0 /\ b.owner = None
      BY <2>1, <2>2, <2>3, L0Facts DEF GoodAnchor
    <3> QED
      BY <1>1, <1>2, <2>1, <3>1, KnownFacts DEF StartKept
  <2>4. CASE a.owner # None
    <3>1. b.owner \in Group /\ b.start \in CleanCommits(b.owner)
      BY <2>1, <2>2, <2>4 DEF GoodAnchor, Anchor
    <3>2. b.start \in Known /\ b.start # Base
      BY <1>1, <3>1, KnownFacts
    <3>3. b.parent # None
      BY <2>1, <2>4, StudyAssumption
    <3> QED
      BY <1>2, <2>1, <2>2, <2>4, <3>1, <3>2, <3>3 DEF StartKept
  <2> QED
    BY <2>3, <2>4
<1> QED
  BY <1>1, <1>3, <1>4, <1>5, BootFacts

(* What holds of a bootstrap goes on to hold.                                 *)
LEMMA StartStays ==
  ASSUME CommitsKept, Grows, NEW g \in Group, NEW b, StartKept(g, b)
  PROVE  StartKept(g, b)'
<1>1. b.start \in Known' /\ \A h \in Group : b.start \in CleanCommits(h)' <=> b.start \in CleanCommits(h)
  BY KnownStays DEF StartKept
<1>2. b.owner \in Group \cup {None}
  BY DEF StartKept, Bootstrap
<1>3. PlanKept(b)'
  <2> SUFFICES ASSUME NEW f \in b.foldIns
               PROVE  /\ f \in FoldIn /\ f.commit \in CleanCommits(f.owner)'
                      /\ f.commit # b.start
                      /\ b.owner # None => AreaNode(f.owner) \notin Upstream[b.owner]
    BY DEF PlanKept
  <2>1. f.owner \in Group /\ f.commit \in CleanCommits(f.owner)
    BY DEF StartKept, PlanKept, FoldIn
  <2>2. f.commit \in Known
    BY <2>1, KnownFacts
  <2> QED
    BY <2>1, <2>2, KnownStays DEF StartKept, PlanKept
<1>4. Mode[g] = "inherit" => Parent[g] \in Group
  BY StudyAssumption
<1>5. b.owner # None => b.parent # None /\ b.start \in CleanCommits(b.owner)'
  BY <1>1, <1>2 DEF StartKept
<1>6. b.owner # None /\ Mode[g] = "inherit" /\ InheritPolicy[g] = "last_commit" =>
       b.start \in CleanCommits(Parent[g])'
  BY <1>1, <1>4 DEF StartKept
<1>7. b.owner = None /\ b.start # Base =>
       /\ Mode[g] = "inherit" /\ InheritPolicy[g] = "last_commit"
       /\ b.parent = Parent[g] /\ b.start \notin CleanCommits(Parent[g])'
  BY <1>1, <1>4 DEF StartKept
<1> QED
  BY <1>1, <1>3, <1>5, <1>6, <1>7 DEF StartKept

(* The branch of a group that a step leaves alone.                            *)
LEMMA BranchStays ==
  ASSUME CommitsKept, Grows, NEW g \in Group, BranchKept(g),
         Made(g)' = Made(g), head'[g] = head[g], starts'[g] = starts[g]
  PROVE  BranchKept(g)'
<1>1. Known \subseteq Known' /\ AllMade \subseteq AllMade'
  BY DEF Grows, Known, AllMade
<1>2. \A c \in Made(g) : Row(c)' = Row(c)
  BY DEF Grows, AllMade
<1>3. head'[g] \in Known' \cup {None} /\ starts'[g] \subseteq Known'
  BY <1>1 DEF BranchKept
<1>4. ASSUME NEW c \in Made(g)
      PROVE  Row(c)'.past \subseteq AllMade' /\ IsFiniteSet(Row(c)'.past) /\ Row(c)'.loop <= Budget[g]
  BY <1>1, <1>2 DEF BranchKept
<1> QED
  BY <1>3, <1>4 DEF BranchKept

(* ... and its starts.                                                        *)
LEMMA StartsStay ==
  ASSUME CommitsKept, Grows, NEW g \in Group, StartsKept(g),
         {boot'[g], origin'[g]} \subseteq {boot[g], origin[g], None}
  PROVE  StartsKept(g)'
<1> SUFFICES ASSUME NEW b \in {boot[g], origin[g]} \ {None}
             PROVE  StartKept(g, b)' /\ b \in {boot[g], origin[g]} /\ b.start \in starts'[g]
  BY DEF StartsKept
<1>1. StartKept(g, b) /\ b.start \in starts[g]
  BY DEF StartsKept
<1> QED
  BY <1>1, StartStays DEF Grows

(* The invariant through the start of a group, ...                            *)
LEMMA BeginKeeps ==
  ASSUME Inv, Grows, NEW g \in Group, Begin(g)
  PROVE  Inv'
<1> PICK b \in Bootstraps(g) :
      /\ boot' = [boot EXCEPT ![g] = b]
      /\ head' = [head EXCEPT ![g] = IF Mode[g] = "baseline" /\ @ # None THEN @ ELSE b.start]
      /\ IF Budget[g] = 0
         THEN /\ origin' = [origin EXCEPT ![g] = b]
              /\ phase' = [phase EXCEPT ![g] = "finished"] /\ UNCHANGED loop
         ELSE /\ phase' = [phase EXCEPT ![g] = "running"]
              /\ loop' = [loop EXCEPT ![g] = 1] /\ UNCHANGED origin
  BY DEF Begin
<1>1. starts' = [starts EXCEPT ![g] = @ \cup {head'[g]}] /\ commits' = commits /\ invocations' = invocations
  BY DEF Begin
<1>2. Typed /\ CommitsKept /\ \A h \in Group : GroupKept(h)
  BY DEF Inv, Typed
<1>3. StartKept(g, b) /\ b \in Bootstrap /\ b.start \in Known /\ b.start \in Commit /\ b # None
  BY <1>2, BootStarts, KnownFacts DEF StartKept
<1>4. head'[g] \in Known /\ head'[g] \in Commit /\ head'[g] # None
      /\ head'[g] = (IF Mode[g] = "baseline" /\ head[g] # None THEN head[g] ELSE b.start)
  BY <1>2, <1>3, KnownFacts DEF Typed, HeadsKept, GroupKept, BranchKept
<1>5. b.start \in starts'[g] /\ starts'[g] = starts[g] \cup {head'[g]}
  <2>1. starts'[g] = starts[g] \cup {head'[g]}
    BY <1>1, <1>2 DEF Typed
  <2>2. CASE ~(Mode[g] = "baseline" /\ head[g] # None)
    BY <1>4, <2>1, <2>2
  <2>3. CASE Mode[g] = "baseline" /\ head[g] # None
    <3>1. boot[g] # None /\ StartKept(g, boot[g]) /\ boot[g].start \in starts[g]
      BY <1>2, <2>3 DEF GroupKept, PhaseKept, StartsKept
    <3> QED
      BY <1>3, <2>1, <2>3, <3>1 DEF StartKept
  <2> QED
    BY <2>2, <2>3
<1>6. Typed'
  <2>1. head' \in [Group -> Commit \cup {None}]
    BY <1>2, <1>4 DEF Typed, HeadsKept
  <2>2. boot' \in [Group -> Bootstrap \cup {None}]
    BY <1>2, <1>3 DEF Typed
  <2>3. origin' \in [Group -> Bootstrap \cup {None}]
    BY <1>2, <1>3 DEF Typed
  <2>4. phase' \in [Group -> {"idle", "running", "finished"}]
    BY <1>2 DEF Typed
  <2>5. loop' \in [Group -> Nat] /\ \A h \in Group : loop'[h] <= Budget[h]
    <3>1. CASE Budget[g] = 0
      BY <1>2, <3>1 DEF Typed
    <3>2. CASE Budget[g] # 0
      <4>1. loop' = [loop EXCEPT ![g] = 1] /\ 1 <= Budget[g]
        BY <3>2, StudyAssumption
      <4> QED
        BY <1>2, <4>1 DEF Typed
    <3> QED
      BY <3>1, <3>2
  <2>6. starts' \in [Group -> SUBSET Commit]
    BY <1>1, <1>2, <1>4 DEF Typed
  <2>7. CommitsKept'
    BY <1>1, <1>2 DEF CommitsKept
  <2> QED
    BY <1>1, <1>2, <2>1, <2>2, <2>3, <2>4, <2>5, <2>6, <2>7 DEF Typed, HeadsKept
<1>7. \A h \in Group : Made(h)' = Made(h)
  BY <1>1 DEF Made
<1>8. ASSUME NEW h \in Group \ {g}
      PROVE  GroupKept(h)'
  <2>1. /\ head'[h] = head[h] /\ starts'[h] = starts[h] /\ boot'[h] = boot[h] /\ origin'[h] = origin[h]
        /\ phase'[h] = phase[h] /\ loop'[h] = loop[h]
    BY <1>1, <1>2 DEF Typed, HeadsKept
  <2>2. BranchKept(h)' /\ StartsKept(h)'
    BY <1>2, <1>7, <2>1, BranchStays, StartsStay DEF GroupKept
  <2>3. PhaseKept(h)'
    BY <1>2, <1>7, <2>1 DEF GroupKept, PhaseKept
  <2> QED
    BY <2>2, <2>3 DEF GroupKept
<1>9. GroupKept(g)'
  <2>1. Known \subseteq Known' /\ AllMade \subseteq AllMade'
    BY DEF Grows, Known, AllMade
  <2>2. BranchKept(g)'
    <3>1. head'[g] \in Known' \cup {None} /\ starts'[g] \subseteq Known'
      BY <1>2, <1>4, <1>5, <2>1 DEF GroupKept, BranchKept
    <3>2. ASSUME NEW c \in Made(g)
          PROVE  Row(c)'.past \subseteq AllMade' /\ IsFiniteSet(Row(c)'.past) /\ Row(c)'.loop <= Budget[g]
      BY <1>2, <2>1 DEF Grows, AllMade, GroupKept, BranchKept
    <3> QED
      BY <1>7, <3>1, <3>2 DEF BranchKept
  <2>3. boot'[g] = b /\ origin'[g] \in {b, origin[g]}
    BY <1>2 DEF Typed
  <2>4. StartsKept(g)'
    <3> SUFFICES ASSUME NEW x \in {b, origin[g]} \ {None}
                 PROVE  StartKept(g, x)' /\ x.start \in starts'[g]
      BY <2>3 DEF StartsKept
    <3>1. StartKept(g, x) /\ x.start \in starts'[g]
      BY <1>2, <1>3, <1>5 DEF GroupKept, StartsKept
    <3> QED
      BY <1>2, <3>1, StartStays
  <2>5. phase'[g] = "running" => loop'[g] \in 1 .. Budget[g]
    <3>1. CASE Budget[g] = 0
      BY <1>2, <3>1 DEF Typed
    <3>2. CASE Budget[g] # 0
      <4>1. loop'[g] = 1 /\ Budget[g] \in Nat /\ 1 <= Budget[g]
        BY <1>2, <3>2, StudyAssumption DEF Typed
      <4> QED
        BY <4>1
    <3> QED
      BY <3>1, <3>2
  <2>6. Made(g)' # {} => origin'[g] # None
    BY <1>2, <1>3, <1>7, <2>3 DEF GroupKept, PhaseKept
  <2>7. PhaseKept(g)'
    BY <1>3, <1>4, <2>3, <2>5, <2>6 DEF PhaseKept
  <2> QED
    BY <2>2, <2>4, <2>7 DEF GroupKept
<1> QED
  BY <1>6, <1>8, <1>9 DEF Inv

(* Histories are of the commits there are.                                    *)
LEMMA HistoryFacts ==
  ASSUME CommitsKept, \A g \in Group : BranchKept(g), NEW c \in Known
  PROVE  History(c) \subseteq AllMade /\ IsFiniteSet(History(c)) /\ (c # Base => c \in History(c))
<1>1. CASE c = Base
  BY <1>1, FS_EmptySet DEF History
<1>2. CASE c # Base
  <2>1. PICK h \in Group : c \in Made(h)
    BY <1>2 DEF Known, AllMade
  <2>2. Row(c).past \subseteq AllMade /\ IsFiniteSet(Row(c).past) /\ c \in AllMade
    BY <2>1, KnownFacts DEF BranchKept
  <2>3. History(c) = Row(c).past \cup {c}
    BY <1>2 DEF History
  <2> QED
    BY <2>2, <2>3, FS_AddElement
<1> QED
  BY <1>1, <1>2

(* ... the record of its first cycle, ...                                     *)
LEMMA RecordKeeps ==
  ASSUME Typed, NEW g \in Group, RecordCycle(g)
  PROVE  /\ origin' \in [Group -> Bootstrap \cup {None}]
         /\ origin'[g] = (IF origin[g] = None THEN boot[g] ELSE origin[g])
         /\ \A h \in Group \ {g} : origin'[h] = origin[h]
BY DEF RecordCycle, Typed

(* ... its loops, ...                                                         *)
LEMMA LoopKeeps ==
  ASSUME Inv, Grows, NEW g \in Group, NEW r \in Outcome[g], Loop(g, r)
  PROVE  Inv'
<1>1. Typed /\ CommitsKept /\ HeadsKept /\ \A h \in Group : GroupKept(h)
  BY DEF Inv, Typed
<1>2. phase[g] = "running" /\ RecordCycle(g) /\ boot' = boot /\ starts' = starts /\ invocations' = invocations
  BY DEF Loop
<1>3. boot[g] # None /\ head[g] # None /\ head[g] \in Known /\ loop[g] \in 1 .. Budget[g]
  BY <1>1, <1>2 DEF GroupKept, PhaseKept, BranchKept
<1>4. History(head[g]) \subseteq AllMade /\ IsFiniteSet(History(head[g]))
  BY <1>1, <1>3, HistoryFacts DEF GroupKept
<1>5. PICK n \in LoopCommit \ Known, written \in BOOLEAN :
        /\ Made(g)' = Made(g) \cup {n} /\ head'[g] = n
        /\ Row(n)' = [past |-> History(head[g]), loop |-> loop[g], whole |-> written, result |-> r]
  BY <1>1, LoopFacts
<1>6. \A h \in Group \ {g} : Made(h)' = Made(h) /\ head'[h] = head[h]
  BY <1>1, LoopFacts
<1>7. /\ loop' = [loop EXCEPT ![g] = loop'[g]] /\ phase' = [phase EXCEPT ![g] = phase'[g]]
      /\ phase'[g] \in {"running", "finished"} /\ loop'[g] \in 1 .. Budget[g]
  <2>1. Budget[g] \in Nat
    BY StudyAssumption
  <2>2. CASE ~LastLoop(g) /\ loop' = [loop EXCEPT ![g] = @ + 1] /\ phase' = phase
    BY <1>1, <1>2, <1>3, <2>1, <2>2 DEF LastLoop, Typed
  <2>3. CASE phase' = [phase EXCEPT ![g] = "finished"] /\ loop' = loop
    BY <1>1, <1>3, <2>3 DEF Typed
  <2> QED
    BY <2>2, <2>3 DEF Loop
<1>8. Typed'
  <2>1. CommitsKept'
    <3>0. PICK whole \in BOOLEAN : commits' = [commits EXCEPT ![g] = Append(@,
                [past |-> History(head[g]), loop |-> loop[g], whole |-> whole, result |-> r])]
      BY DEF Loop
    <3> DEFINE row == [past |-> History(head[g]), loop |-> loop[g], whole |-> whole, result |-> r]
    <3>1. row \in CommitRow
      <4>1. History(head[g]) \in SUBSET LoopCommit
        BY <1>1, <1>4, KnownFacts
      <4>2. r \in Score \cup {Failed, Unscored, None} /\ loop[g] \in Nat \ {0}
        BY <1>3, ScoreAssumption
      <4> QED
        BY <4>1, <4>2 DEF CommitRow
    <3>2. commits' = [commits EXCEPT ![g] = Append(@, row)]
      BY <3>0
    <3> HIDE DEF row
    <3> QED
      BY <1>1, <3>1, <3>2 DEF CommitsKept
  <2>2. HeadsKept'
    <3>1. head' = [head EXCEPT ![g] = head'[g]]
      BY <1>1 DEF Loop, HeadsKept
    <3> QED
      BY <1>1, <1>5, <3>1 DEF HeadsKept, Commit
  <2>3. origin' \in [Group -> Bootstrap \cup {None}]
    BY <1>1, <1>2, RecordKeeps
  <2>4. phase' \in [Group -> {"idle", "running", "finished"}]
    BY <1>1, <1>7 DEF Typed
  <2>5. loop' \in [Group -> Nat] /\ \A h \in Group : loop'[h] <= Budget[h]
    <3>1. \A h \in Group : loop'[h] \in Nat /\ loop'[h] <= Budget[h]
      <4> TAKE h \in Group
      <4>1. CASE h = g
        BY <1>7, <4>1, StudyAssumption
      <4>2. CASE h # g
        BY <1>1, <1>7, <4>2 DEF Typed
      <4> QED
        BY <4>1, <4>2
    <3>2. DOMAIN loop' = Group /\ loop' = [h \in Group |-> loop'[h]]
      BY <1>1, <1>7 DEF Typed
    <3> QED
      BY <3>1, <3>2
  <2> QED
    BY <1>1, <1>2, <2>1, <2>2, <2>3, <2>4, <2>5 DEF Typed
<1>9. ASSUME NEW h \in Group \ {g}
      PROVE  GroupKept(h)'
  <2>1. /\ head'[h] = head[h] /\ starts'[h] = starts[h] /\ boot'[h] = boot[h] /\ origin'[h] = origin[h]
        /\ phase'[h] = phase[h] /\ loop'[h] = loop[h] /\ Made(h)' = Made(h)
    BY <1>1, <1>2, <1>6, <1>7, RecordKeeps DEF Typed
  <2>2. BranchKept(h)' /\ StartsKept(h)'
    BY <1>1, <2>1, BranchStays, StartsStay DEF GroupKept
  <2>3. PhaseKept(h)'
    BY <1>1, <2>1 DEF GroupKept, PhaseKept
  <2> QED
    BY <2>2, <2>3 DEF GroupKept
<1>10. GroupKept(g)'
  <2>1. Known \subseteq Known' /\ AllMade \subseteq AllMade' /\ n \in Known'
    BY <1>5 DEF Grows, Known, AllMade
  <2>2. BranchKept(g)'
    <3>1. head'[g] \in Known' \cup {None} /\ starts'[g] \subseteq Known'
      BY <1>1, <1>2, <1>5, <2>1 DEF GroupKept, BranchKept
    <3>2. ASSUME NEW c \in Made(g)
          PROVE  Row(c)'.past \subseteq AllMade' /\ IsFiniteSet(Row(c)'.past) /\ Row(c)'.loop <= Budget[g]
      BY <1>1, <2>1 DEF Grows, AllMade, GroupKept, BranchKept
    <3>3. Row(n)'.past \subseteq AllMade' /\ IsFiniteSet(Row(n)'.past) /\ Row(n)'.loop <= Budget[g]
      BY <1>3, <1>4, <1>5, <2>1, StudyAssumption
    <3> QED
      BY <1>5, <3>1, <3>2, <3>3 DEF BranchKept
  <2>3. {boot'[g], origin'[g]} \subseteq {boot[g], origin[g], None} /\ origin'[g] # None
    BY <1>1, <1>2, <1>3, RecordKeeps
  <2>4. StartsKept(g)'
    BY <1>1, <2>3, StartsStay DEF GroupKept
  <2>5. PhaseKept(g)'
    <3>1. head'[g] # None
      BY <1>5, NothingAssumption DEF Commit
    <3> QED
      BY <1>2, <1>3, <1>7, <2>3, <3>1 DEF PhaseKept
  <2> QED
    BY <2>2, <2>4, <2>5 DEF GroupKept
<1> QED
  BY <1>8, <1>9, <1>10 DEF Inv

(* Steps that move no branch.                                                 *)
LEMMA RestKeeps ==
  ASSUME Inv, Grows, (\E g \in Group : GiveUp(g)) \/ Resume \/ UNCHANGED vars
  PROVE  Inv'
<1>1. Typed /\ CommitsKept /\ \A h \in Group : GroupKept(h)
  BY DEF Inv, Typed
<1>2. commits' = commits /\ head' = head /\ boot' = boot /\ starts' = starts /\ loop' = loop
  BY DEF GiveUp, Resume, vars
<1>3. /\ phase' \in [Group -> {"idle", "running", "finished"}]
      /\ \A h \in Group : phase'[h] = "running" => phase[h] = "running"
  BY <1>1 DEF GiveUp, Resume, vars, Typed
<1>4. /\ origin' \in [Group -> Bootstrap \cup {None}]
      /\ \A h \in Group : \/ origin'[h] = origin[h]
                          \/ origin'[h] = boot[h] /\ origin[h] = None /\ boot[h] # None
  <2>1. ASSUME NEW g \in Group, GiveUp(g), RecordCycle(g)
        PROVE  \A h \in Group : \/ origin'[h] = origin[h]
                                \/ origin'[h] = boot[h] /\ origin[h] = None /\ boot[h] # None
    <3>1. boot[g] # None
      BY <1>1, <2>1 DEF GiveUp, GroupKept, PhaseKept
    <3> QED
      BY <1>1, <2>1, <3>1, RecordKeeps
  <2>2. origin' = origin \/ \E g \in Group : GiveUp(g) /\ RecordCycle(g)
    BY DEF GiveUp, Resume, vars
  <2> QED
    BY <1>1, <2>1, <2>2, RecordKeeps DEF Typed
<1>5. invocations' \in 1 .. MaxInvocations
  BY <1>1, ScoreAssumption DEF GiveUp, Resume, vars, Typed
<1>6. Typed'
  BY <1>1, <1>2, <1>3, <1>4, <1>5 DEF Typed, CommitsKept, HeadsKept
<1>7. ASSUME NEW h \in Group
      PROVE  GroupKept(h)'
  <2>1. Made(h)' = Made(h)
    BY <1>2 DEF Made
  <2>2. BranchKept(h)' /\ StartsKept(h)'
    BY <1>1, <1>2, <1>4, <2>1, BranchStays, StartsStay DEF GroupKept
  <2>3. PhaseKept(h)'
    BY <1>1, <1>2, <1>3, <1>4, <2>1 DEF GroupKept, PhaseKept
  <2> QED
    BY <2>2, <2>3 DEF GroupKept
<1> QED
  BY <1>6, <1>7 DEF Inv

(* ... and so every step.                                                     *)
LEMMA NextKeeps ==
  ASSUME Inv, [Next]_vars
  PROVE  Inv' /\ Grows
<1>1. Grows
  BY StepGrows DEF Inv, Typed
<1> QED
  BY <1>1, BeginKeeps, LoopKeeps, RestKeeps DEF Next

LEMMA InitKept == Init => Inv
<1> SUFFICES ASSUME Init
             PROVE  Inv
  OBVIOUS
<1>1. \A g \in Group : Made(g) = {}
  BY DEF Init, Made
<1>2. Typed
  BY StudyAssumption, ScoreAssumption DEF Init, Typed, CommitsKept, HeadsKept
<1>3. \A g \in Group : GroupKept(g)
  BY <1>1 DEF Init, GroupKept, BranchKept, StartsKept, PhaseKept
<1> QED
  BY <1>2, <1>3 DEF Inv

LEMMA Invariance == Spec => []Inv
<1>1. Inv /\ [Next]_vars => Inv'
  BY NextKeeps
<1> QED
  BY InitKept, <1>1, PTL DEF Spec

(* Every variable keeps its type, whatever is resumed: the branches, their    *)
(* starts and the recorded origins never refer to a commit that nobody made,  *)
(* and no loop goes beyond its budget.                                        *)
THEOREM TypeCorrect == Spec => []TypeOK
<1>1. Inv => TypeOK
  <2> SUFFICES ASSUME Inv
               PROVE  TypeOK
    OBVIOUS
  <2>1. Typed /\ \A g \in Group : GroupKept(g)
    BY DEF Inv
  <2>2. ASSUME NEW g \in Group, NEW i \in DOMAIN commits[g]
        PROVE  commits[g][i].loop <= Budget[g]
    <3>1. <<g, i>> \in Made(g) /\ Row(<<g, i>>) = commits[g][i]
      BY DEF Made, Row
    <3> QED
      BY <2>1, <3>1 DEF GroupKept, BranchKept
  <2> QED
    BY <2>1, <2>2 DEF Typed, TypeOK, CommitsKept, HeadsKept
<1> QED
  BY Invariance, <1>1, PTL

------------------------------------------------------------------------------
(* Merge plans.                                                               *)

(* A condition on the study: a group that others inherit from stands for all  *)
(* of its area, as the node does that desugaring gives an area of approaches. *)
AreasAreJoined ==
  \A g, o \in Group : Parent[g] # None /\ Area[o] = Area[Parent[g]] => AreaNode(o) = Parent[g]

(* The walk up the lineage meets the parent.                                  *)
LEMMA ParentIsUpstream ==
  ASSUME NEW g \in Group, Parent[g] # None
  PROVE  Parent[g] \in Upstream[g]
<1>1. Parent[g] \in Group
  BY StudyAssumption
<1>2. ASSUME NEW S \in SUBSET Group, Follows(g, S)
      PROVE  Parent[g] \in S
  BY <1>2 DEF Follows
<1> QED
  BY <1>1, <1>2 DEF Upstream

(* No merge plan of a desugared study has a commit twice, its base among the  *)
(* sources or a result of the area that the base's group inherits from.       *)
THEOREM PlansAreDistinct ==
  ASSUME AreasAreJoined
  PROVE  Spec => []PlanIsDistinct
<1>1. ASSUME Inv, NEW g \in Begun, Mode[g] = "merge"
      PROVE  /\ \A f \in boot[g].foldIns :
                  /\ f.commit # boot[g].start
                  /\ boot[g].owner # None /\ Parent[boot[g].owner] # None =>
                       ~(f.commit = boot[boot[g].owner].start /\ Area[f.owner] = Area[Parent[boot[g].owner]])
             /\ \A f, h \in boot[g].foldIns : f.commit = h.commit => f = h
  <2>1. g \in Group /\ boot[g] # None /\ CommitsKept
    BY <1>1 DEF Begun, Inv, Typed, GroupKept, PhaseKept
  <2>2. PlanKept(boot[g]) /\ boot[g].owner \in Group \cup {None}
    BY <1>1, <2>1 DEF Inv, GroupKept, StartsKept, StartKept, Bootstrap
  <2>3. ASSUME NEW f \in boot[g].foldIns
        PROVE  /\ f \in FoldIn /\ f.commit # boot[g].start
               /\ f.commit \in Made(f.owner)
               /\ boot[g].owner # None => AreaNode(f.owner) \notin Upstream[boot[g].owner]
    BY <2>2, CleanFacts DEF PlanKept, FoldIn
  <2>4. ASSUME NEW f \in boot[g].foldIns, boot[g].owner # None, Parent[boot[g].owner] # None
        PROVE  Area[f.owner] # Area[Parent[boot[g].owner]]
    BY <2>2, <2>3, <2>4, ParentIsUpstream, AreasAreJoined DEF AreasAreJoined, FoldIn
  <2>5. ASSUME NEW f \in boot[g].foldIns, NEW h \in boot[g].foldIns, f.commit = h.commit
        PROVE  f = h
    <3>1. f.owner = f.commit[1] /\ h.owner = h.commit[1]
      BY <2>1, <2>3, MadeFacts DEF FoldIn
    <3> QED
      BY <2>3, <2>5, <3>1 DEF FoldIn
  <2> QED
    BY <2>3, <2>4, <2>5
<1>2. Inv => PlanIsDistinct
  BY <1>1 DEF PlanIsDistinct
<1> QED
  BY Invariance, <1>2, PTL

------------------------------------------------------------------------------
(* Branches are lines: a loop is so many commits above a commit that the      *)
(* group was started from, and only the group's own lie between.              *)

Line(g, c, n) ==
  \E t \in starts[g] :
    /\ History(t) \subseteq History(c) /\ History(c) \subseteq Made(g) \cup History(t)
    /\ Depth(c) = Depth(t) + n

LinesOf(g) ==
  /\ \A c \in Made(g) : Line(g, c, Row(c).loop)
  /\ head[g] # None => \E n \in Nat : Line(g, head[g], n) /\ (phase[g] = "running" => loop[g] = n + 1)
Lines == \A g \in Group : LinesOf(g)

(* Depths are numbers, the baseline's is zero.                                *)
LEMMA DepthFacts ==
  ASSUME Inv, NEW c \in Known
  PROVE  /\ Depth(c) \in Nat /\ Depth(Base) = 0 /\ History(Base) = {}
         /\ History(c) \subseteq AllMade /\ IsFiniteSet(History(c)) /\ (c # Base => c \in History(c))
<1>1. History(c) \subseteq AllMade /\ IsFiniteSet(History(c)) /\ (c # Base => c \in History(c))
  BY HistoryFacts DEF Inv, Typed, GroupKept
<1> QED
  BY <1>1, FS_CardinalityType, FS_EmptySet DEF Depth, History

(* A line is not broken by what is added elsewhere.                           *)
LEMMA LineStays ==
  ASSUME Inv, Grows, NEW g \in Group, NEW c \in Known, NEW n, Line(g, c, n)
  PROVE  Line(g, c, n)'
<1>1. PICK t \in starts[g] : /\ History(t) \subseteq History(c) /\ History(c) \subseteq Made(g) \cup History(t)
                             /\ Depth(c) = Depth(t) + n
  BY DEF Line
<1>2. t \in Known /\ t \in starts'[g]
  BY DEF Inv, GroupKept, BranchKept, Grows
<1>3. History(t)' = History(t) /\ History(c)' = History(c)
  BY <1>2, KnownStays
<1>4. Depth(t)' = Depth(t) /\ Depth(c)' = Depth(c)
  BY <1>3 DEF Depth
<1>5. Made(g) \subseteq Made(g)'
  BY DEF Grows
<1> QED
  BY <1>1, <1>2, <1>3, <1>4, <1>5 DEF Line

LEMMA LinesStay ==
  ASSUME Inv, Lines, Grows, NEW g \in Group, Made(g)' = Made(g), head'[g] = head[g],
         phase'[g] = "running" => phase[g] = "running" /\ loop'[g] = loop[g]
  PROVE  LinesOf(g)'
<1>1. CommitsKept /\ head[g] \in Known \cup {None}
  BY DEF Inv, Typed, GroupKept, BranchKept
<1>2. ASSUME NEW c \in Made(g)
      PROVE  Line(g, c, Row(c).loop)' /\ Row(c)' = Row(c)
  <2>1. c \in Known /\ Row(c)' = Row(c)
    BY <1>1, KnownFacts DEF Grows
  <2>2. PICK n : n = Row(c).loop
    OBVIOUS
  <2>3. Line(g, c, n)
    BY <2>2 DEF Lines, LinesOf
  <2>4. Line(g, c, n)'
    BY <2>1, <2>3, LineStays
  <2> QED
    BY <2>1, <2>2, <2>4
<1>3. ASSUME head[g] # None
      PROVE  \E n \in Nat : Line(g, head[g], n)' /\ (phase'[g] = "running" => loop'[g] = n + 1)
  <2>1. PICK c : c = head[g]
    OBVIOUS
  <2>2. PICK n \in Nat : Line(g, c, n) /\ (phase[g] = "running" => loop[g] = n + 1)
    BY <1>3, <2>1 DEF Lines, LinesOf
  <2>3. Line(g, c, n)'
    BY <1>1, <1>3, <2>1, <2>2, LineStays
  <2>4. c = head'[g]
    BY <2>1
  <2> QED
    BY <2>2, <2>3, <2>4
<1> QED
  BY <1>2, <1>3 DEF LinesOf

(* A branch begins as the line of its start.                                  *)
LEMMA LinesAtStart ==
  ASSUME Inv, Lines, Grows, Inv', NEW g \in Group, Begin(g)
  PROVE  LinesOf(g)'
<1>1. Typed /\ CommitsKept /\ GroupKept(g)
  BY DEF Inv, Typed
<1>2. /\ commits' = commits /\ starts' = [starts EXCEPT ![g] = @ \cup {head'[g]}]
      /\ phase'[g] = "running" => loop'[g] = 1
  BY <1>1 DEF Begin, Typed
<1>3. PICK t : t = head'[g]
  OBVIOUS
<1>4. t \in starts'[g]
  BY <1>1, <1>2, <1>3 DEF Typed
<1>5. t \in Known'
  BY <1>4 DEF Inv, GroupKept, BranchKept
<1>6. Depth(t)' \in Nat
  <2>1. t \in Known
    BY <1>2, <1>5 DEF Known, AllMade, Made
  <2>2. Depth(t)' = Depth(t)
    BY <2>1, KnownStays DEF Depth
  <2> QED
    BY <2>1, <2>2, DepthFacts
<1>7. Line(g, t, 0)'
  BY <1>4, <1>6 DEF Line
<1>8. ASSUME NEW c \in Made(g)
      PROVE  Line(g, c, Row(c).loop)'
  <2>1. c \in Known /\ Row(c)' = Row(c)
    BY <1>1, KnownFacts DEF Grows
  <2>2. PICK n : n = Row(c).loop
    OBVIOUS
  <2>3. Line(g, c, n)'
    BY <2>1, <2>2, LineStays DEF Lines, LinesOf
  <2> QED
    BY <2>1, <2>2, <2>3
<1>9. Made(g)' = Made(g)
  BY <1>2 DEF Made
<1>10. \E n \in Nat : Line(g, head[g], n)' /\ (phase'[g] = "running" => loop'[g] = n + 1)
  BY <1>2, <1>3, <1>7
<1> QED
  BY <1>8, <1>9, <1>10 DEF LinesOf

(* A loop makes the line longer by one.                                       *)
LEMMA LinesAfterLoop ==
  ASSUME Inv, Lines, Grows, NEW g \in Group, NEW r, Loop(g, r)
  PROVE  LinesOf(g)'
<1>1. Typed /\ CommitsKept /\ HeadsKept /\ GroupKept(g)
  BY DEF Inv, Typed
<1>2. phase[g] = "running" /\ starts' = starts
  BY DEF Loop
<1>3. PICK n \in LoopCommit \ Known, written \in BOOLEAN :
        /\ Made(g)' = Made(g) \cup {n} /\ head'[g] = n
        /\ Row(n)' = [past |-> History(head[g]), loop |-> loop[g], whole |-> written, result |-> r]
  BY <1>1, LoopFacts
<1>4. PICK c : c = head[g]
  OBVIOUS
<1>5. c \in Known /\ c # None
  BY <1>1, <1>2, <1>4 DEF GroupKept, PhaseKept, BranchKept
<1>6. PICK k \in Nat : Line(g, c, k) /\ loop[g] = k + 1
  BY <1>2, <1>4, <1>5 DEF Lines, LinesOf
<1>7. History(n)' = History(c) \cup {n} /\ Row(n)'.loop = k + 1
  <2>1. n # Base
    BY <1>1, <1>3, KnownFacts
  <2>2. Row(n)'.past = History(c) /\ Row(n)'.loop = k + 1
    BY <1>3, <1>4, <1>6
  <2> QED
    BY <2>1, <2>2 DEF History
<1>8. n \notin History(c) /\ IsFiniteSet(History(c)) /\ Depth(c) \in Nat
  BY <1>1, <1>3, <1>5, DepthFacts, KnownFacts
<1>9. Depth(n)' = Depth(c) + 1
  BY <1>7, <1>8, FS_AddElement DEF Depth
<1>10. PICK t \in starts[g] : /\ History(t) \subseteq History(c) /\ History(c) \subseteq Made(g) \cup History(t)
                              /\ Depth(c) = Depth(t) + k
  BY <1>6 DEF Line
<1>11. t \in Known
  BY <1>1 DEF GroupKept, BranchKept
<1>12. History(t)' = History(t) /\ Depth(t)' = Depth(t) /\ Depth(t) \in Nat
  BY <1>11, KnownStays, DepthFacts DEF Depth
<1>13. Line(g, n, k + 1)'
  <2>1. Depth(n)' = Depth(t)' + (k + 1)
    BY <1>9, <1>10, <1>12
  <2>2. History(t)' \subseteq History(n)' /\ History(n)' \subseteq Made(g)' \cup History(t)'
    BY <1>3, <1>7, <1>10, <1>12
  <2>3. t \in starts'[g]
    BY <1>2
  <2> QED
    BY <2>1, <2>2, <2>3 DEF Line
<1>14. phase'[g] = "running" => loop'[g] = k + 2
  <2>1. loop' = [loop EXCEPT ![g] = @ + 1] \/ phase' = [phase EXCEPT ![g] = "finished"]
    BY DEF Loop
  <2> QED
    BY <1>1, <1>6, <2>1 DEF Typed
<1>15. ASSUME NEW d \in Made(g)
       PROVE  Line(g, d, Row(d).loop)'
  <2>1. d \in Known /\ Row(d)' = Row(d)
    BY <1>1, KnownFacts DEF Grows
  <2>2. PICK i : i = Row(d).loop
    OBVIOUS
  <2>3. Line(g, d, i)'
    BY <2>1, <2>2, LineStays DEF Lines, LinesOf
  <2> QED
    BY <2>1, <2>2, <2>3
<1>16. Line(g, n, Row(n).loop)'
  BY <1>7, <1>13
<1>17. \E m \in Nat : Line(g, head[g], m)' /\ (phase'[g] = "running" => loop'[g] = m + 1)
  <2>1. k + 1 \in Nat /\ k + 2 = (k + 1) + 1
    OBVIOUS
  <2>2. Line(g, head[g], k + 1)'
    BY <1>3, <1>13
  <2> QED
    BY <1>14, <2>1, <2>2
<1> QED
  BY <1>3, <1>15, <1>16, <1>17 DEF LinesOf

LEMMA LinesInvariant == Spec => []Lines
<1>1. Init => Lines
  BY DEF Init, Lines, LinesOf, Made
<1>2. ASSUME Inv, Lines, [Next]_vars
      PROVE  Lines'
  <2>1. Inv' /\ Grows /\ Typed
    BY <1>2, NextKeeps DEF Inv
  <2>2. SUFFICES ASSUME NEW h \in Group
                 PROVE  LinesOf(h)'
    BY DEF Lines
  <2>3. ASSUME NEW g \in Group, Begin(g)
        PROVE  LinesOf(h)'
    <3>1. CASE h = g
      BY <1>2, <2>1, <2>3, <3>1, LinesAtStart
    <3>2. CASE h # g
      <4>1. Made(h)' = Made(h) /\ head'[h] = head[h] /\ phase'[h] = phase[h] /\ loop'[h] = loop[h]
        BY <2>1, <2>3, <3>2 DEF Begin, Typed, HeadsKept, Made
      <4> QED
        BY <1>2, <2>1, <4>1, LinesStay
    <3> QED
      BY <3>1, <3>2
  <2>4. ASSUME NEW g \in Group, NEW r, Loop(g, r)
        PROVE  LinesOf(h)'
    <3>1. CASE h = g
      BY <1>2, <2>1, <2>4, <3>1, LinesAfterLoop
    <3>2. CASE h # g
      <4>1. Made(h)' = Made(h) /\ head'[h] = head[h]
        BY <2>1, <2>4, <3>2, LoopFacts DEF Typed
      <4>2. phase'[h] = phase[h] /\ loop'[h] = loop[h]
        BY <2>1, <2>4, <3>2 DEF Loop, Typed
      <4> QED
        BY <1>2, <2>1, <4>1, <4>2, LinesStay
    <3> QED
      BY <3>1, <3>2
  <2>5. ASSUME (\E g \in Group : GiveUp(g)) \/ Resume \/ UNCHANGED vars
        PROVE  LinesOf(h)'
    <3>1. Made(h)' = Made(h) /\ head' = head /\ loop' = loop
      BY <2>5 DEF GiveUp, Resume, vars, Made
    <3>2. phase'[h] = "running" => phase[h] = "running"
      BY <2>1, <2>5 DEF GiveUp, Resume, vars, Typed
    <3> QED
      BY <1>2, <2>1, <3>1, <3>2, LinesStay
  <2> QED
    BY <1>2, <2>3, <2>4, <2>5 DEF Next
<1> QED
  BY Invariance, <1>1, <1>2, PTL DEF Spec

------------------------------------------------------------------------------
(* Groups that were only started from one commit.                             *)

(* The first start of a group is not forgotten.                               *)
LEMMA BootStays ==
  ASSUME Inv, [Next]_vars, NEW g \in Group, boot[g] # None
  PROVE  boot'[g] # None
<1>1. Typed
  BY DEF Inv
<1>2. ASSUME NEW h \in Group, Begin(h)
      PROVE  boot'[g] # None
  <2>1. PICK b \in Bootstraps(h) : boot' = [boot EXCEPT ![h] = b]
    BY <1>2 DEF Begin
  <2>2. b \in Bootstrap /\ b # None
    BY BootStarts, NothingAssumption DEF StartKept
  <2> QED
    BY <1>1, <2>1, <2>2 DEF Typed
<1>3. boot' = boot \/ \E h \in Group : Begin(h)
  BY DEF Next, Loop, GiveUp, Resume, vars
<1> QED
  BY <1>2, <1>3

(* A group that is still steady was so before.                                *)
LEMMA SteadyBefore ==
  ASSUME Inv, [Next]_vars, NEW g \in Group, boot[g] # None, Steady(g)'
  PROVE  Steady(g)
<1> DEFINE s == boot[g].start
<1>1. Inv' /\ Grows /\ boot'[g] # None /\ CommitsKept
  BY NextKeeps, BootStays DEF Inv, Typed
<1>2. StartKept(g, boot[g]) /\ s \in starts[g]
  BY DEF Inv, GroupKept, StartsKept
<1>3. starts[g] = {s} /\ boot'[g].start = s
  BY <1>1, <1>2 DEF Steady, Grows
<1>4. ASSUME s # Base
      PROVE  boot[g].owner # None /\ Row(s).result \in Score
  <2>1. PICK c : c = s
    OBVIOUS
  <2>2. c \in Known /\ c \in AllMade
    BY <1>2, <1>4, <2>1 DEF StartKept, Known
  <2>3. boot'[g].owner # None /\ Row(c)'.result \in Score
    BY <1>3, <1>4, <2>1 DEF Steady
  <2>4. Row(s).result \in Score
    BY <1>1, <2>1, <2>2, <2>3 DEF Grows
  <2>5. StartKept(g, boot[g])'
    BY <1>1 DEF Inv, GroupKept, StartsKept
  <2>6. Mode[g] = "inherit" /\ InheritPolicy[g] = "last_commit" => c \in CleanCommits(Parent[g])'
    BY <1>3, <2>1, <2>3, <2>5 DEF StartKept
  <2>7. Mode[g] = "inherit" => Parent[g] \in Group
    BY StudyAssumption
  <2>8. Mode[g] = "inherit" /\ InheritPolicy[g] = "last_commit" => c \in CleanCommits(Parent[g])
    BY <1>1, <2>2, <2>6, <2>7, KnownStays
  <2> QED
    BY <1>2, <1>4, <2>1, <2>4, <2>8 DEF StartKept
<1> QED
  BY <1>3, <1>4 DEF Steady

Calm(c) == \A d \in History(c) : Steady(d[1])

(* What lies behind a commit was steady before.                               *)
LEMMA CalmBefore ==
  ASSUME Inv, [Next]_vars, NEW c \in Known, Calm(c)'
  PROVE  Calm(c)
<1>1. Grows /\ CommitsKept
  BY NextKeeps DEF Inv, Typed
<1>2. History(c)' = History(c) /\ History(c) \subseteq AllMade
  BY <1>1, KnownStays, DepthFacts
<1> SUFFICES ASSUME NEW d \in History(c)
             PROVE  Steady(d[1])
  BY DEF Calm
<1>3. PICK g \in Group : d \in Made(g)
  BY <1>2 DEF AllMade
<1>4. d[1] = g /\ boot[g] # None
  BY <1>1, <1>3, MadeFacts DEF Inv, GroupKept, PhaseKept
<1>5. Steady(g)'
  BY <1>2, <1>4 DEF Calm
<1> QED
  BY <1>4, <1>5, SteadyBefore

(* The registry still knows the origin of a steady group for what it is.      *)
LEMMA SteadyOrigin ==
  ASSUME Inv, NEW g \in Group, Steady(g), origin[g] # None
  PROVE  LET s == origin[g].start IN
         /\ starts[g] = {s} /\ s \in Known /\ StartKept(g, origin[g])
         /\ OriginAnchor(g).ref = s /\ OriginAnchor(g).step = origin[g].step
         /\ s = Base => OriginAnchor(g) = L0
         /\ s # Base => /\ OriginAnchor(g).owner # None /\ origin[g].owner # None
                        /\ Row(s).result \in Score /\ OriginAnchor(g).value = Row(s).result
<1> DEFINE m == origin[g]
           s == m.start
<1>1. CommitsKept /\ m \in Bootstrap /\ boot[g] # None
  BY DEF Inv, Typed, GroupKept, PhaseKept
<1>2. StartKept(g, m) /\ s \in starts[g] /\ StartKept(g, boot[g])
  BY <1>1 DEF Inv, GroupKept, StartsKept
<1>3. starts[g] = {s} /\ boot[g].start = s /\ s \in Known
  BY <1>2 DEF Steady, StartKept
<1>4. CASE s = Base
  <2>1. \A o \in Group : Base \notin ScoredCommits(o)
    BY <1>1, KnownFacts, CleanFacts
  <2>2. OwnedBy(m) = {}
    BY <1>1, <1>4, <2>1 DEF OwnedBy, Bootstrap
  <2>3. OriginAnchor(g) = L0
    BY <2>2 DEF OriginAnchor
  <2> QED
    BY <1>2, <1>3, <1>4, <2>3, L0Facts DEF StartKept
<1>5. CASE s # Base
  <2>1. boot[g].owner # None /\ Row(s).result \in Score
    BY <1>3, <1>5 DEF Steady
  <2>2. m.owner # None
    BY <1>2, <1>3, <1>5, <2>1 DEF StartKept
  <2>3. m.owner \in Group /\ m.parent # None /\ s \in CleanCommits(m.owner)
    BY <1>1, <1>2, <2>2 DEF StartKept, Bootstrap
  <2>4. m.owner \in OwnedBy(m)
    BY <2>1, <2>2, <2>3, CleanFacts DEF OwnedBy
  <2>5. OriginAnchor(g) = [ref |-> s, step |-> m.step, value |-> Row(s).result, owner |-> m.owner]
    BY <2>3, <2>4 DEF OriginAnchor
  <2> QED
    BY <1>2, <1>3, <1>5, <2>1, <2>2, <2>5
<1> QED
  BY <1>4, <1>5

(* What lies behind the commits of a steady group.                            *)
LEMMA SteadyLine ==
  ASSUME Inv, Lines, NEW g \in Group, Steady(g), origin[g] # None, NEW c \in Made(g)
  PROVE  LET s == origin[g].start IN
         /\ History(s) \subseteq History(c) /\ History(c) \subseteq Made(g) \cup History(s)
         /\ Depth(c) = Depth(s) + Row(c).loop
BY SteadyOrigin DEF Lines, LinesOf, Line

(* A commit is behind itself.                                                 *)
LEMMA OwnCommit ==
  ASSUME Inv, NEW g \in Group, NEW c \in Made(g)
  PROVE  /\ c[1] = g /\ c \in Known /\ c # Base /\ c \in History(c) /\ origin[g] # None
         /\ Calm(c) => Steady(g)
<1>1. CommitsKept
  BY DEF Inv, Typed
<1>2. c[1] = g /\ c \in Known /\ c # Base
  BY <1>1, MadeFacts, KnownFacts
<1>3. c \in History(c)
  BY <1>2, DepthFacts
<1>4. origin[g] # None
  BY DEF Inv, GroupKept, PhaseKept
<1> QED
  BY <1>2, <1>3, <1>4 DEF Calm

------------------------------------------------------------------------------
(* Steps count commits.                                                       *)

DepthsOf(g) ==
  \A b \in {boot[g], origin[g]} \ {None} :
    b.owner # None /\ b.start \in ScoredCommits(b.owner) /\ Calm(b.start) => Counts(b.step, b.start)
Depths == \A g \in Group : DepthsOf(g)

(* The baseline's step counts what is below it: nothing.                      *)
LEMMA BaseCounts ==
  ASSUME Inv
  PROVE  Counts(0, Base)
BY DepthFacts DEF Counts, Known

(* The step of an origin counts the commits below it, ...                     *)
LEMMA OriginDepth ==
  ASSUME Inv, Lines, Depths, NEW g \in Group, OriginAnchor(g).owner # None, Calm(OriginAnchor(g).ref)
  PROVE  Counts(OriginAnchor(g).step, OriginAnchor(g).ref)
<1> DEFINE m == origin[g]
           o == OriginAnchor(g)
<1>1. CommitsKept /\ m \in Bootstrap \cup {None}
  BY DEF Inv, Typed
<1>2. /\ m # None /\ o.ref = m.start /\ o.step = m.step /\ o.owner \in OwnedBy(m)
      /\ m.start \in ScoredCommits(o.owner)
  BY <1>1, OriginFacts
<1>3. StartKept(g, m) /\ m \in Bootstrap
  BY <1>1, <1>2 DEF Inv, GroupKept, StartsKept
<1>4. o.owner \in Group /\ m.start # Base /\ m.start \in CleanCommits(o.owner) /\ m.start \in Made(o.owner)
  <2>1. o.owner \in Group
    BY <1>2, <1>3 DEF OwnedBy, Bootstrap
  <2> QED
    BY <1>1, <1>2, <2>1, CleanFacts, KnownFacts
<1>5. m.owner # None
  <2> SUFFICES ASSUME m.owner = None
               PROVE  FALSE
    OBVIOUS
  <2>1. m.parent = Parent[g] /\ m.start \notin CleanCommits(Parent[g])
    BY <1>3, <1>4 DEF StartKept
  <2>2. o.owner = Parent[g]
    BY <1>2, <2>1 DEF OwnedBy
  <2> QED
    BY <1>4, <2>1, <2>2
<1>6. m.owner \in Group /\ m.start \in CleanCommits(m.owner)
  BY <1>3, <1>5 DEF StartKept, Bootstrap
<1>7. m.owner = o.owner
  BY <1>1, <1>4, <1>6, CleanFacts, MadeFacts
<1> QED
  BY <1>2, <1>5, <1>7 DEF Depths, DepthsOf

(* ... that of a loop those below the origin and its own group's, ...         *)
LEMMA LoopDepth ==
  ASSUME Inv, Lines, Depths, NEW g \in Group, NEW c \in CleanCommits(g), Calm(c)
  PROVE  Counts(LoopAnchor(g, c).step, c)
<1> DEFINE s == origin[g].start
<1>1. CommitsKept /\ origin[g] \in Bootstrap \cup {None} /\ c \in Made(g)
  BY CleanFacts DEF Inv, Typed
<1>2. Steady(g) /\ origin[g] # None /\ c \in History(c) /\ s \in Known
  BY <1>1, OwnCommit, SteadyOrigin
<1>3. LoopAnchor(g, c).step = OriginAnchor(g).step + LoopOf(c) /\ OriginAnchor(g).step \in Nat
  BY <1>1, LoopAnchorFacts, OriginFacts DEF GoodAnchor, Anchor
<1>4. History(s) \subseteq History(c) /\ Depth(c) = Depth(s) + Row(c).loop /\ Depth(s) \in Nat
  BY <1>1, <1>2, SteadyLine, DepthFacts
<1>5. Counts(OriginAnchor(g).step, s)
  <2>1. CASE s = Base
    BY <1>2, <2>1, BaseCounts, SteadyOrigin, L0Facts
  <2>2. CASE s # Base
    <3>1. Calm(s)
      BY <1>4 DEF Calm
    <3> QED
      BY <1>2, <2>2, <3>1, SteadyOrigin, OriginDepth
  <2> QED
    BY <2>1, <2>2
<1>6. LoopOf(c) \in Nat /\ Row(c).loop \in Nat /\ LoopOf(c) <= Row(c).loop
  BY <1>1, MadeFacts, RowFacts, LoopOfFacts
<1>7. Placed(c) => Placed(s) /\ LoopOf(c) = Row(c).loop
  BY <1>2, <1>4 DEF Placed
<1> QED
  BY <1>3, <1>4, <1>5, <1>6, <1>7 DEF Counts

(* ... and so does the step that a bootstrap takes over.                      *)
LEMMA BootDepth ==
  ASSUME Inv, Lines, Depths, NEW g \in Group, NEW b \in Bootstraps(g), b.owner # None, Calm(b.start)
  PROVE  Counts(b.step, b.start)
<1>1. CommitsKept /\ OriginsKept /\ HeadsKept
  BY DEF Inv, Typed, OriginsKept
<1>2. PICK p, policy : TakenFrom(g, b, p, policy)
  BY <1>1, BootFacts DEF TakenFromBranch, BaselineBoot
<1>3. PICK a : a = PolicyAnchor(policy, p)
  OBVIOUS
<1>4. /\ p \in Group /\ policy \in {"best_commit", "last_commit"} /\ a # None
      /\ b.start = a.ref /\ b.owner = a.owner /\ b.step = a.step
  BY <1>2, <1>3 DEF TakenFrom
<1>5. a = OriginAnchor(p) \/ \E c \in CleanCommits(p) : a = LoopAnchor(p, c)
  BY <1>1, <1>3, <1>4, PolicyFacts DEF OriginsKept
<1>6. CASE a = OriginAnchor(p)
  BY <1>4, <1>6, OriginDepth
<1>7. ASSUME NEW c \in CleanCommits(p), a = LoopAnchor(p, c)
      PROVE  Counts(b.step, b.start)
  <2>1. a.ref = c
    BY <1>1, <1>4, <1>7, LoopAnchorFacts DEF OriginsKept
  <2> QED
    BY <1>4, <1>7, <2>1, LoopDepth
<1> QED
  BY <1>5, <1>6, <1>7

(* Nor do the loops that commits are taken for.                               *)
LEMMA PlacesStay ==
  ASSUME Inv, Grows, NEW c \in Known
  PROVE  Placed(c)' <=> Placed(c)
<1>1. History(c)' = History(c) /\ History(c) \subseteq AllMade
  BY KnownStays, DepthFacts
<1>2. ASSUME NEW d \in History(c)
      PROVE  LoopOf(d)' = LoopOf(d) /\ Row(d)'.loop = Row(d).loop
  <2>1. Row(d)' = Row(d)
    BY <1>1, <1>2 DEF Grows
  <2> QED
    BY <2>1 DEF LoopOf
<1> QED
  BY <1>1, <1>2 DEF Placed

(* The depth of a start does not change.                                      *)
LEMMA DepthStays ==
  ASSUME Inv, [Next]_vars, NEW g \in Group, NEW b \in Bootstrap, b.start \in Known,
         b.owner # None /\ b.start \in ScoredCommits(b.owner) /\ Calm(b.start) => Counts(b.step, b.start)
  PROVE  (b.owner # None /\ b.start \in ScoredCommits(b.owner) /\ Calm(b.start) => Counts(b.step, b.start))'
<1>1. Grows
  BY NextKeeps
<1>2. b.owner # None => b.owner \in Group
  BY DEF Bootstrap
<1>3. History(b.start)' = History(b.start)
  BY <1>1, KnownStays
<1>4. Counts(b.step, b.start) => Counts(b.step, b.start)'
  BY <1>1, <1>3, PlacesStay DEF Counts, Depth
<1>5. b.owner # None => (b.start \in ScoredCommits(b.owner)' <=> b.start \in ScoredCommits(b.owner))
  BY <1>1, <1>2, KnownStays
<1>6. Calm(b.start)' => Calm(b.start)
  BY CalmBefore
<1> QED
  BY <1>4, <1>5, <1>6

LEMMA DepthsInvariant == Spec => []Depths
<1>1. Init => Depths
  BY DEF Init, Depths, DepthsOf
<1>2. ASSUME Inv, Lines, Depths, [Next]_vars
      PROVE  Depths'
  <2>1. Typed /\ OriginsKept
    BY <1>2 DEF Inv, Typed, OriginsKept
  <2>2. SUFFICES ASSUME NEW g \in Group, NEW b \in {boot'[g], origin'[g]} \ {None}
                 PROVE  (b.owner # None /\ b.start \in ScoredCommits(b.owner) /\ Calm(b.start) =>
                           Counts(b.step, b.start))'
    BY DEF Depths, DepthsOf
  <2>3. b \in {boot[g], origin[g]} \/ b \in Bootstraps(g)
    <3>1. ASSUME NEW h \in Group, Begin(h)
          PROVE  \/ boot'[g] = boot[g] /\ origin'[g] = origin[g]
                 \/ boot'[g] \in Bootstraps(g) /\ origin'[g] \in {origin[g], boot'[g]}
      BY <2>1, <3>1 DEF Begin, Typed
    <3>2. ASSUME NEW h \in Group, RecordCycle(h), boot' = boot
          PROVE  boot'[g] = boot[g] /\ origin'[g] \in {boot[g], origin[g]}
      BY <2>1, <3>2, RecordKeeps
    <3>3. \/ \E h \in Group : Begin(h)
          \/ boot' = boot /\ (origin' = origin \/ \E h \in Group : RecordCycle(h))
      BY <1>2 DEF Next, Loop, GiveUp, Resume, vars
    <3> QED
      BY <3>1, <3>2, <3>3
  <2>4. CASE b \in {boot[g], origin[g]}
    <3>1. StartKept(g, b)
      BY <1>2, <2>4 DEF Inv, GroupKept, StartsKept
    <3> QED
      BY <1>2, <2>4, <3>1, DepthStays DEF StartKept, Depths, DepthsOf
  <2>5. CASE b \in Bootstraps(g)
    <3>1. StartKept(g, b)
      BY <1>2, <2>5, BootStarts
    <3> QED
      BY <1>2, <2>5, <3>1, BootDepth, DepthStays DEF StartKept
  <2> QED
    BY <2>3, <2>4, <2>5
<1> QED
  BY Invariance, LinesInvariant, <1>1, <1>2, PTL DEF Spec

(* The trajectory is one axis for all groups of every study: the step of an   *)
(* anchor is the number of commits between it and the baseline, and is less   *)
(* only above a commit whose ingest was cut off in a later loop than the      *)
(* first.                                                                     *)
THEOREM StepsCountCommits == Spec => []StepIsDepth
<1>1. ASSUME Inv, Lines, Depths, NEW g \in Begun, SteadyPath(g),
             NEW a \in {BestAnchor(g), LastAnchor(g)} \ {None}
      PROVE  Counts(a.step, a.ref)
  <2> DEFINE s == origin[g].start
  <2>1. g \in Group /\ origin[g] # None /\ Steady(g) /\ CommitsKept /\ origin[g] \in Bootstrap \cup {None}
    BY <1>1 DEF Begun, SteadyPath, Inv, Typed
  <2>2. Calm(s)
    <3>1. head[g] # None
      BY <1>1, <2>1 DEF Inv, GroupKept, PhaseKept
    <3>2. PICK t \in starts[g] : History(t) \subseteq History(head[g])
      BY <1>1, <2>1, <3>1 DEF Lines, LinesOf, Line
    <3>3. t = s
      BY <1>1, <2>1, SteadyOrigin
    <3> QED
      BY <1>1, <3>2, <3>3 DEF SteadyPath, Calm
  <2>3. CASE a = OriginAnchor(g)
    <3>1. CASE s = Base
      BY <1>1, <2>1, <2>3, <3>1, SteadyOrigin, BaseCounts, L0Facts
    <3>2. CASE s # Base
      BY <1>1, <2>1, <2>2, <2>3, <3>2, SteadyOrigin, OriginDepth
    <3> QED
      BY <3>1, <3>2
  <2>4. ASSUME NEW c \in CleanCommits(g), a = LoopAnchor(g, c)
        PROVE  Counts(a.step, a.ref)
    <3>1. c \in Made(g) /\ a.ref = c
      BY <2>1, <2>4, CleanFacts, LoopAnchorFacts
    <3>2. Calm(c)
      BY <1>1, <2>1, <2>2, <3>1, SteadyLine, MadeFacts DEF Calm
    <3> QED
      BY <1>1, <2>1, <2>4, <3>1, <3>2, LoopDepth
  <2>5. a = OriginAnchor(g) \/ \E c \in CleanCommits(g) : a = LoopAnchor(g, c)
    BY <1>1, <2>1, BestFacts, LastFacts, CleanFacts
  <2> QED
    BY <2>3, <2>4, <2>5
<1>2. Inv /\ Lines /\ Depths => StepIsDepth
  BY <1>1 DEF StepIsDepth
<1> QED
  BY Invariance, LinesInvariant, DepthsInvariant, <1>2, PTL

------------------------------------------------------------------------------
(* The best is never let go of.                                               *)

(* A value that neither the baseline nor anything behind a commit beats.      *)
Tops(v, cs) ==
  ~Better(BaselineScore, v) /\ \A d \in cs : Row(d).result \in Score => ~Better(Row(d).result, v)

StartsTop(g) ==
  BestPath(g) /\ Mode[g] # "baseline" =>
    \A s \in starts[g] \ {Base} :
      Calm(s) => Row(s).result \in Score /\ Tops(Row(s).result, History(s))
PathsTop == \A g \in Group : StartsTop(g)

(* A path of best commits goes through the sources of the group.              *)
LEMMA PathFacts ==
  ASSUME NEW g \in Group, BestPath(g)
  PROVE  TakesBest(g) /\ \A p \in SourcesOf(g) \cap Group : BestPath(p)
<1>1. g \in BuildsOn[g]
  BY DEF BuildsOn
<1>2. ASSUME NEW p \in SourcesOf(g) \cap Group, NEW h \in BuildsOn[p]
      PROVE  h \in BuildsOn[g]
  <2>1. h \in Group /\ \A S \in SUBSET Group : p \in S /\ Contributes(S) => h \in S
    BY <1>2 DEF BuildsOn
  <2>2. ASSUME NEW S \in SUBSET Group, g \in S, Contributes(S)
        PROVE  h \in S
    <3>1. p \in S
      BY <2>2 DEF Contributes
    <3> QED
      BY <2>1, <2>2, <3>1
  <2> QED
    BY <2>1, <2>2 DEF BuildsOn
<1> QED
  BY <1>1, <1>2 DEF BestPath

(* A value as good as one that beats all beats all.                           *)
LEMMA TopsOrder ==
  ASSUME NEW v \in Score, NEW w \in Score, NEW cs, Tops(v, cs), ~Better(v, w)
  PROVE  Tops(w, cs)
<1>1. \A x \in Score : ~Better(x, v) => ~Better(x, w)
  BY BetterOrder, ScoreAssumption
<1> QED
  BY <1>1, ScoreAssumption DEF Tops

(* The origin of a steady group beats all that lies behind it, ...            *)
LEMMA OriginTops ==
  ASSUME Inv, Lines, PathsTop, NEW g \in Group, BestPath(g), Steady(g), origin[g] # None,
         Calm(origin[g].start)
  PROVE  OriginAnchor(g).value \in Score /\ Tops(OriginAnchor(g).value, History(origin[g].start))
<1> DEFINE s == origin[g].start
<1>1. /\ starts[g] = {s} /\ s \in Known /\ StartKept(g, origin[g])
      /\ s = Base => OriginAnchor(g) = L0
      /\ s # Base => Row(s).result \in Score /\ OriginAnchor(g).value = Row(s).result
  BY SteadyOrigin
<1>2. CASE s = Base
  <2>1. OriginAnchor(g).value = BaselineScore /\ History(s) = {}
    BY <1>1, <1>2, L0Facts DEF History
  <2> QED
    BY <2>1, BetterOrder, ScoreAssumption DEF Tops
<1>3. CASE s # Base
  <2>1. Mode[g] # "baseline"
    BY <1>1, <1>3 DEF StartKept
  <2> QED
    BY <1>1, <1>3, <2>1 DEF PathsTop, StartsTop
<1> QED
  BY <1>2, <1>3

(* ... and its best anchor that and its own commits.                          *)
LEMMA BestTops ==
  ASSUME Inv, Lines, PathsTop, NEW g \in Group, BestPath(g), Steady(g), origin[g] # None,
         Calm(origin[g].start)
  PROVE  /\ BestAnchor(g).value \in Score
         /\ Tops(BestAnchor(g).value, Made(g) \cup History(origin[g].start))
<1> DEFINE o == OriginAnchor(g)
           s == origin[g].start
           v == BestAnchor(g).value
<1>1. CommitsKept /\ origin[g] \in Bootstrap \cup {None}
  BY DEF Inv, Typed
<1>2. o.value \in Score /\ Tops(o.value, History(s))
  BY OriginTops
<1>3. v \in Score /\ ~Better(o.value, v) /\ \A d \in ScoredCommits(g) : ~Better(Row(d).result, v)
  <2>1. CASE BestAnchor(g) = o /\ \A d \in ScoredCommits(g) : ~Better(Row(d).result, o.value)
    BY <1>2, <2>1, BetterOrder, ScoreAssumption
  <2>2. ASSUME NEW c \in ScoredCommits(g), BestAnchor(g) = LoopAnchor(g, c), Better(Row(c).result, o.value),
               \A d \in ScoredCommits(g) : ~Better(Row(d).result, Row(c).result)
        PROVE  v \in Score /\ ~Better(o.value, v) /\ \A d \in ScoredCommits(g) : ~Better(Row(d).result, v)
    <3>1. v = Row(c).result /\ Row(c).result \in Score
      BY <1>1, <2>2, CleanFacts, LoopAnchorFacts
    <3>2. ~Better(o.value, Row(c).result)
      BY <1>2, <2>2, <3>1, BetterOrder, ScoreAssumption
    <3> QED
      BY <2>2, <3>1, <3>2
  <2> QED
    BY <1>1, <2>1, <2>2, BestFacts
<1>4. Tops(v, History(s))
  <2> HIDE DEF v, s, o
  <2> QED
    BY <1>2, <1>3, TopsOrder
<1>5. \A d \in Made(g) : Row(d).result \in Score => ~Better(Row(d).result, v)
  BY <1>3, CleanFacts
<1> QED
  BY <1>3, <1>4, <1>5 DEF Tops

(* The start of a group beats all that lies behind it.                        *)
LEMMA BootTops ==
  ASSUME Inv, Lines, PathsTop, NEW g \in Group, NEW b \in Bootstraps(g), BestPath(g),
         b.start # Base, Calm(b.start)
  PROVE  Row(b.start).result \in Score /\ Tops(Row(b.start).result, History(b.start))
<1>1. CommitsKept /\ OriginsKept /\ HeadsKept /\ TakesBest(g)
  BY PathFacts DEF Inv, Typed, OriginsKept
<1>2. PICK p, policy : TakenFrom(g, b, p, policy)
  BY <1>1, BootFacts DEF TakenFromBranch, BaselineBoot, TakesBest
<1>3. PICK a : a = PolicyAnchor(policy, p)
  OBVIOUS
<1>4. /\ p \in Group /\ p \in SourcesOf(g) /\ policy = "best_commit" /\ b.start = a.ref /\ a # None
  BY <1>1, <1>2, <1>3, StudyAssumption DEF TakenFrom, TakesBest
<1>5. a = BestAnchor(p) /\ BestPath(p) /\ GoodAnchor(a) /\ origin[p] \in Bootstrap \cup {None}
  BY <1>1, <1>3, <1>4, PolicyFacts, PathFacts DEF OriginsKept
<1>6. CASE a = OriginAnchor(p)
  <2>1. a.owner # None
    BY <1>4, <1>5, L0Facts DEF GoodAnchor
  <2>2. /\ origin[p] # None /\ a.ref = origin[p].start /\ a.owner \in OwnedBy(origin[p])
        /\ a.ref \in ScoredCommits(a.owner)
    BY <1>1, <1>4, <1>5, <1>6, <2>1, OriginFacts
  <2>3. Row(a.ref).result \in Score
    BY <2>2 DEF ScoredCommits
  <2>4. StartKept(p, origin[p]) /\ a.ref \in starts[p]
    BY <1>4, <2>2 DEF Inv, GroupKept, StartsKept
  <2>5. Mode[p] # "baseline"
    BY <1>4, <2>2, <2>4 DEF StartKept
  <2> QED
    BY <1>4, <1>5, <2>3, <2>4, <2>5 DEF PathsTop, StartsTop
<1>7. ASSUME NEW c \in ScoredCommits(p), a = LoopAnchor(p, c)
      PROVE  Row(b.start).result \in Score /\ Tops(Row(b.start).result, History(b.start))
  <2>1. /\ c \in Made(p) /\ c \in CleanCommits(p) /\ Row(c).result \in Score /\ b.start = c
        /\ a.value = Row(c).result
    BY <1>1, <1>4, <1>5, <1>7, CleanFacts, LoopAnchorFacts
  <2>2. Steady(p) /\ origin[p] # None
    BY <1>4, <2>1, OwnCommit
  <2>3. History(origin[p].start) \subseteq History(c) /\ History(c) \subseteq Made(p) \cup History(origin[p].start)
    BY <1>4, <2>1, <2>2, SteadyLine
  <2>4. Calm(origin[p].start)
    BY <2>1, <2>3 DEF Calm
  <2>5. Tops(Row(c).result, Made(p) \cup History(origin[p].start))
    BY <1>4, <1>5, <2>1, <2>2, <2>4, BestTops
  <2> QED
    BY <2>1, <2>3, <2>5 DEF Tops
<1>8. a = OriginAnchor(p) \/ \E c \in ScoredCommits(p) : a = LoopAnchor(p, c)
  BY <1>1, <1>4, <1>5, BestFacts
<1> QED
  BY <1>6, <1>7, <1>8

(* ... and goes on to.                                                        *)
LEMMA TopsStays ==
  ASSUME Inv, [Next]_vars, NEW s \in Known \ {Base},
         Calm(s) => Row(s).result \in Score /\ Tops(Row(s).result, History(s)), Calm(s)'
  PROVE  (Row(s).result \in Score /\ Tops(Row(s).result, History(s)))'
<1>1. Grows /\ s \in AllMade /\ Calm(s)
  BY NextKeeps, CalmBefore DEF Known
<1>2. Row(s)' = Row(s) /\ History(s)' = History(s) /\ \A d \in History(s) : Row(d)' = Row(d)
  BY <1>1, KnownStays, DepthFacts DEF Grows
<1>3. Tops(Row(s).result, History(s))'
  BY <1>1, <1>2 DEF Tops
<1> QED
  BY <1>1, <1>2, <1>3

LEMMA PathsInvariant == Spec => []PathsTop
<1>1. Init => PathsTop
  BY DEF Init, PathsTop, StartsTop
<1>2. ASSUME Inv, Lines, PathsTop, [Next]_vars
      PROVE  PathsTop'
  <2>1. Typed
    BY <1>2 DEF Inv
  <2>2. SUFFICES ASSUME NEW g \in Group, BestPath(g), Mode[g] # "baseline",
                        NEW s \in starts'[g] \ {Base}, Calm(s)'
                 PROVE  (Row(s).result \in Score /\ Tops(Row(s).result, History(s)))'
    BY DEF PathsTop, StartsTop
  <2>3. s \in starts[g] \/ \E b \in Bootstraps(g) : s = b.start
    <3>1. ASSUME NEW h \in Group, Begin(h)
          PROVE  starts'[g] = starts[g] \/ \E b \in Bootstraps(g) : starts'[g] = starts[g] \cup {b.start}
      <4>1. CASE h # g
        BY <2>1, <3>1, <4>1 DEF Begin, Typed
      <4>2. CASE h = g
        <5>1. PICK b \in Bootstraps(g) :
                /\ head' = [head EXCEPT ![g] = IF Mode[g] = "baseline" /\ @ # None THEN @ ELSE b.start]
                /\ starts' = [starts EXCEPT ![g] = @ \cup {head'[g]}]
          BY <3>1, <4>2 DEF Begin
        <5>2. head'[g] = b.start
          BY <2>1, <2>2, <5>1 DEF Typed, HeadsKept
        <5> QED
          BY <2>1, <5>1, <5>2 DEF Typed
      <4> QED
        BY <4>1, <4>2
    <3>2. starts' = starts \/ \E h \in Group : Begin(h)
      BY <1>2 DEF Next, Loop, GiveUp, Resume, vars
    <3> QED
      BY <3>1, <3>2
  <2>4. CASE s \in starts[g]
    <3>1. s \in Known
      BY <1>2, <2>4 DEF Inv, GroupKept, BranchKept
    <3>2. Calm(s) => Row(s).result \in Score /\ Tops(Row(s).result, History(s))
      BY <1>2, <2>2, <2>4 DEF PathsTop, StartsTop
    <3> QED
      BY <1>2, <2>2, <3>1, <3>2, TopsStays
  <2>5. ASSUME NEW b \in Bootstraps(g), s = b.start
        PROVE  (Row(s).result \in Score /\ Tops(Row(s).result, History(s)))'
    <3>1. s \in Known
      BY <1>2, <2>5, BootStarts DEF StartKept
    <3>2. Calm(s) => Row(s).result \in Score /\ Tops(Row(s).result, History(s))
      BY <1>2, <2>2, <2>5, BootTops
    <3> QED
      BY <1>2, <2>2, <3>1, <3>2, TopsStays
  <2> QED
    BY <2>3, <2>4, <2>5
<1> QED
  BY Invariance, LinesInvariant, <1>1, <1>2, PTL DEF Spec

(* In every study whose policies on the way take the best, the anchor of a    *)
(* group is at least as good as the baseline and as every commit its branch   *)
(* descends from, through any number of groups, adoptions and merges.         *)
THEOREM BestIsKept == Spec => []BestOfHistory
<1>1. ASSUME Inv, Lines, PathsTop, NEW g \in Begun, SteadyPath(g), BestPath(g)
      PROVE  /\ ~Better(BaselineScore, BestAnchor(g).value)
             /\ \A c \in History(head[g]) :
                  Row(c).result \in Score => ~Better(Row(c).result, BestAnchor(g).value)
  <2> DEFINE s == origin[g].start
  <2>1. g \in Group /\ origin[g] # None /\ Steady(g) /\ head[g] # None
    BY <1>1 DEF Begun, SteadyPath, Inv, GroupKept, PhaseKept
  <2>2. History(s) \subseteq History(head[g]) /\ History(head[g]) \subseteq Made(g) \cup History(s)
    <3>1. starts[g] = {s}
      BY <1>1, <2>1, SteadyOrigin
    <3>2. PICK t \in starts[g] : /\ History(t) \subseteq History(head[g])
                                 /\ History(head[g]) \subseteq Made(g) \cup History(t)
      BY <1>1, <2>1 DEF Lines, LinesOf, Line
    <3> QED
      BY <3>1, <3>2
  <2>3. Calm(s)
    BY <1>1, <2>2 DEF SteadyPath, Calm
  <2>4. Tops(BestAnchor(g).value, Made(g) \cup History(s))
    BY <1>1, <2>1, <2>3, BestTops
  <2> QED
    BY <2>2, <2>4 DEF Tops
<1>2. Inv /\ Lines /\ PathsTop => BestOfHistory
  BY <1>1 DEF BestOfHistory
<1> QED
  BY Invariance, LinesInvariant, PathsInvariant, <1>2, PTL
==============================================================================
