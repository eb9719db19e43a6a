---------------------------- MODULE DashboardProofs ----------------------------
(* Where the dashboard shows the commits of a study, which of its points are  *)
(* starred, and whence its arrows and connectors come, for every study and at *)
(* any time of a build.                                                       *)
EXTENDS Dashboard, LineageProofs

------------------------------------------------------------------------------
(* The place of a commit on the axis of loops.                                *)

Off(h) == IF Mode[h] = "baseline" THEN 0 ELSE origin[h].step
Place(c) == IF c \in CleanCommits(c[1]) THEN Off(c[1]) + LoopOf(c) ELSE 0

(* The registry can score what groups took over from others.                  *)
OriginsScored ==
  \A g \in Group : origin[g] # None => (origin[g].owner # None => OwnedBy(origin[g]) # {})

(* A group counts from the step its first cycle recorded.                     *)
LEMMA OffFacts ==
  ASSUME Inv, OriginsScored, NEW h \in Group, origin[h] # None
  PROVE  OriginAnchor(h).step = Off(h) /\ Off(h) \in Nat
<1> DEFINE m == origin[h]
<1>1. CommitsKept /\ m \in Bootstrap /\ m # None /\ StartKept(h, m)
  BY DEF Inv, Typed, GroupKept, StartsKept
<1>2. /\ m.step \in Nat /\ m.owner \in Group \cup {None} /\ m.parent \in Group \cup {None}
      /\ m.owner = None => m.step = 0
      /\ Mode[h] = "baseline" => m.owner = None
      /\ m.owner # None => m.parent # None
  BY <1>1 DEF Bootstrap, StartKept
<1>3. CASE m.owner = None
  <2>1. Off(h) = 0
    BY <1>2, <1>3 DEF Off
  <2>2. OriginAnchor(h).owner # None => OriginAnchor(h).step = m.step
    BY <1>1, OriginFacts
  <2>3. OriginAnchor(h).owner = None => OriginAnchor(h).step = 0
    BY <1>1, OriginFacts, L0Facts DEF GoodAnchor
  <2> QED
    BY <1>2, <1>3, <2>1, <2>2, <2>3
<1>4. CASE m.owner # None
  <2>1. OwnedBy(m) # {} /\ m # None /\ m.parent # None
    BY <1>1, <1>2, <1>4 DEF OriginsScored
  <2>2. OriginAnchor(h).step = m.step
    BY <2>1 DEF OriginAnchor
  <2> QED
    BY <1>2, <1>4, <2>2 DEF Off
<1> QED
  BY <1>3, <1>4

(* An anchor at a loop of a group is at the place of its commit.              *)
LEMMA LoopPlace ==
  ASSUME Inv, OriginsScored, NEW p \in Group, NEW c \in CleanCommits(p)
  PROVE  /\ LoopAnchor(p, c).step = Place(c) /\ LoopAnchor(p, c).ref = c /\ LoopAnchor(p, c).owner = p
         /\ c[1] = p /\ origin[p] # None /\ Off(p) \in Nat /\ LoopOf(c) \in Nat \ {0}
         /\ Place(c) = Off(p) + LoopOf(c)
<1>1. CommitsKept /\ origin[p] \in Bootstrap \cup {None}
  BY DEF Inv, Typed
<1>2. c \in Made(p) /\ c[1] = p /\ LoopOf(c) \in Nat \ {0}
  BY <1>1, CleanFacts, MadeFacts, LoopOfFacts
<1>3. origin[p] # None
  BY <1>2 DEF Inv, GroupKept, PhaseKept
<1>4. OriginAnchor(p).step = Off(p) /\ Off(p) \in Nat
  BY <1>3, OffFacts
<1>5. Place(c) = Off(p) + LoopOf(c)
  BY <1>2 DEF Place
<1> QED
  BY <1>1, <1>2, <1>3, <1>4, <1>5, LoopAnchorFacts

(* A commit that a group inherited from another has its owner on record.      *)
LEMMA OwnedStart ==
  ASSUME Inv, NEW g \in Group, NEW b, StartKept(g, b), b.owner # None
  PROVE  b.owner \in Group /\ b.start \in CleanCommits(b.owner) /\ b.start[1] = b.owner /\ b.start \in AllMade
<1>1. CommitsKept /\ b.owner \in Group /\ b.start \in CleanCommits(b.owner)
  BY DEF StartKept, Bootstrap, Inv, Typed
<1> QED
  BY <1>1, CleanFacts, MadeFacts, KnownFacts

LEMMA OriginOwner ==
  ASSUME Inv, NEW h \in Group, OriginAnchor(h).owner # None
  PROVE  /\ origin[h] # None /\ StartKept(h, origin[h]) /\ origin[h].owner # None
         /\ OriginAnchor(h).ref = origin[h].start /\ OriginAnchor(h).step = origin[h].step
<1> DEFINE m == origin[h]
<1>1. CommitsKept /\ m \in Bootstrap \cup {None}
  BY DEF Inv, Typed
<1>2. /\ m # None /\ OriginAnchor(h).ref = m.start /\ OriginAnchor(h).step = m.step
      /\ OriginAnchor(h).owner \in OwnedBy(m) /\ m.start \in ScoredCommits(OriginAnchor(h).owner)
  BY <1>1, OriginFacts
<1>3. StartKept(h, m)
  BY <1>2 DEF Inv, GroupKept, StartsKept
<1>4. ASSUME m.owner = None
      PROVE  FALSE
  <2>1. m.parent \in Group /\ m.start \in ScoredCommits(m.parent)
    BY <1>1, <1>2, <1>4 DEF OwnedBy, Bootstrap
  <2>2. m.start \in CleanCommits(m.parent) /\ m.start # Base
    BY <1>1, <2>1, CleanFacts, KnownFacts
  <2> QED
    BY <1>3, <1>4, <2>2 DEF StartKept
<1> QED
  BY <1>2, <1>3, <1>4

------------------------------------------------------------------------------
(* What was recorded of other groups' commits is their place.                 *)

AtPlace(b) == b.owner # None => b.step = Place(b.start)
AllPlaced == \A g \in Group : \A b \in {boot[g], origin[g]} \ {None} : AtPlace(b)

(* Anchors are at their places, ...                                           *)
LEMMA AnchorPlace ==
  ASSUME Inv, OriginsScored, AllPlaced, NEW p \in Group, NEW policy \in {"best_commit", "last_commit"},
         PolicyAnchor(policy, p) # None
  PROVE  LET a == PolicyAnchor(policy, p) IN
         /\ a.owner = None => a = L0
         /\ a.owner # None => /\ a.owner \in Group /\ a.ref \in CleanCommits(a.owner) /\ a.ref[1] = a.owner
                              /\ a.step = Place(a.ref)
         /\ a.owner \notin {None, p} => a = OriginAnchor(p)
<1> DEFINE a == PolicyAnchor(policy, p)
<1>1. CommitsKept /\ origin[p] \in Bootstrap \cup {None}
  BY DEF Inv, Typed
<1>2. GoodAnchor(a) /\ (a = OriginAnchor(p) \/ \E c \in CleanCommits(p) : a = LoopAnchor(p, c))
  BY <1>1, PolicyFacts
<1> HIDE DEF a
<1>3. a.owner # None => a.owner \in Group /\ a.ref \in CleanCommits(a.owner)
  BY <1>2 DEF GoodAnchor, Anchor
<1>4. a.owner # None => a.ref[1] = a.owner
  BY <1>1, <1>3, CleanFacts, MadeFacts
<1>5. ASSUME NEW c \in CleanCommits(p), a = LoopAnchor(p, c)
      PROVE  a.step = Place(a.ref) /\ a.owner = p
  BY <1>5, LoopPlace
<1>6. ASSUME a = OriginAnchor(p), a.owner # None
      PROVE  a.step = Place(a.ref)
  BY <1>6, OriginOwner DEF AllPlaced, AtPlace
<1> QED
  BY <1>2, <1>3, <1>4, <1>5, <1>6 DEF a, GoodAnchor

(* ... and so is what a group is started from.                                *)
LEMMA BootPlace ==
  ASSUME Inv, OriginsScored, AllPlaced, NEW g \in Group, NEW b \in Bootstraps(g)
  PROVE  AtPlace(b)
<1>1. CommitsKept /\ OriginsKept /\ HeadsKept
  BY DEF Inv, Typed, OriginsKept
<1>2. CASE b = BaselineBoot
  BY <1>2 DEF BaselineBoot, AtPlace
<1>3. CASE TakenFromBranch(g, b)
  BY <1>3 DEF TakenFromBranch, AtPlace
<1>4. ASSUME NEW p, NEW policy, TakenFrom(g, b, p, policy)
      PROVE  AtPlace(b)
  <2> DEFINE a == PolicyAnchor(policy, p)
  <2>1. p \in Group /\ policy \in {"best_commit", "last_commit"} /\ a # None
        /\ b.start = a.ref /\ b.owner = a.owner /\ b.step = a.step
    BY <1>4 DEF TakenFrom
  <2>2. a.owner # None => a.step = Place(a.ref)
    BY <2>1, AnchorPlace
  <2> HIDE DEF a
  <2> QED
    BY <2>1, <2>2 DEF AtPlace
<1> QED
  BY <1>1, <1>2, <1>3, <1>4, BootFacts

(* A step starts a group or records its start; what is recorded stays.        *)
LEMMA BootStep ==
  ASSUME Inv, [Next]_vars, NEW g \in Group
  PROVE  /\ {boot'[g], origin'[g]} \subseteq {boot[g], origin[g], None} \cup Bootstraps(g)
         /\ origin[g] # None => origin'[g] = origin[g]
<1>1. Typed
  BY DEF Inv
<1>2. ASSUME NEW h \in Group, Begin(h)
      PROVE  /\ {boot'[g], origin'[g]} \subseteq {boot[g], origin[g], None} \cup Bootstraps(g)
             /\ origin[g] # None => origin'[g] = origin[g]
  <2>1. PICK b \in Bootstraps(h) :
          /\ boot' = [boot EXCEPT ![h] = b]
          /\ \/ Budget[h] = 0 /\ origin' = [origin EXCEPT ![h] = b]
             \/ origin' = origin
    BY <1>2 DEF Begin
  <2>2. Budget[h] = 0 => origin[h] = None
    BY <1>2 DEF Begin, GroupComplete
  <2>3. CASE g = h
    BY <1>1, <2>1, <2>2, <2>3 DEF Typed
  <2>4. CASE g # h
    BY <1>1, <2>1, <2>4 DEF Typed
  <2> QED
    BY <2>3, <2>4
<1>3. ASSUME NEW h \in Group, RecordCycle(h), boot' = boot
      PROVE  /\ {boot'[g], origin'[g]} \subseteq {boot[g], origin[g], None} \cup Bootstraps(g)
             /\ origin[g] # None => origin'[g] = origin[g]
  <2>1. /\ origin'[h] = (IF origin[h] = None THEN boot[h] ELSE origin[h])
        /\ \A k \in Group \ {h} : origin'[k] = origin[k]
    BY <1>1, <1>3, RecordKeeps
  <2> QED
    BY <1>3, <2>1
<1>4. ASSUME boot' = boot, origin' = origin
      PROVE  /\ {boot'[g], origin'[g]} \subseteq {boot[g], origin[g], None} \cup Bootstraps(g)
             /\ origin[g] # None => origin'[g] = origin[g]
  BY <1>4
<1>5. ASSUME NEW h \in Group, GiveUp(h)
      PROVE  boot' = boot /\ (RecordCycle(h) \/ origin' = origin)
  BY <1>5 DEF GiveUp
<1>6. ASSUME NEW h \in Group, NEW r, Loop(h, r)
      PROVE  boot' = boot /\ RecordCycle(h)
  BY <1>6 DEF Loop
<1>7. Resume \/ UNCHANGED vars => boot' = boot /\ origin' = origin
  BY DEF Resume, vars
<1> QED
  BY <1>2, <1>3, <1>4, <1>5, <1>6, <1>7 DEF Next

(* What the registry can score it could score before.                         *)
LEMMA ScoredBefore ==
  ASSUME Inv, [Next]_vars, OriginsScored'
  PROVE  OriginsScored
<1> SUFFICES ASSUME NEW g \in Group, origin[g] # None, origin[g].owner # None
             PROVE  OwnedBy(origin[g]) # {}
  BY DEF OriginsScored
<1>1. PICK m : m = origin[g]
  OBVIOUS
<1>2. origin'[g] = m /\ Grows /\ m \in Bootstrap /\ StartKept(g, m)
  BY <1>1, BootStep, NextKeeps DEF Inv, Typed, GroupKept, StartsKept
<1>3. PICK o \in {m.owner, m.parent} \ {None} : m.start \in ScoredCommits(o)'
  BY <1>1, <1>2 DEF OriginsScored, OwnedBy
<1>4. o \in Group /\ m.start \in Known
  BY <1>2 DEF Bootstrap, StartKept
<1>5. m.start \in ScoredCommits(o)
  BY <1>2, <1>3, <1>4, KnownStays
<1>6. o \in OwnedBy(m)
  BY <1>3, <1>5 DEF OwnedBy
<1> QED
  BY <1>1, <1>6

(* A commit stays where it is.                                                *)
LEMMA PlaceStays ==
  ASSUME Inv, [Next]_vars, NEW p \in Group, NEW c \in CleanCommits(p)
  PROVE  Place(c)' = Place(c)
<1>1. CommitsKept /\ Grows
  BY NextKeeps DEF Inv, Typed
<1>2. c \in Made(p) /\ c[1] = p /\ c \in AllMade /\ c \in Known
  BY <1>1, CleanFacts, MadeFacts, KnownFacts DEF Known
<1>3. origin[p] # None
  BY <1>2 DEF Inv, GroupKept, PhaseKept
<1>4. origin'[p] = origin[p] /\ Row(c)' = Row(c)
  BY <1>1, <1>2, <1>3, BootStep DEF Grows
<1>5. c \in CleanCommits(p)'
  BY <1>1, <1>2, KnownStays
<1>6. Off(p)' = Off(p)
  BY <1>4 DEF Off
<1>7. LoopOf(c)' = LoopOf(c)
  BY <1>4 DEF LoopOf
<1> QED
  BY <1>2, <1>5, <1>6, <1>7 DEF Place

LEMMA PlacedInvariant == Spec => [](OriginsScored => AllPlaced)
<1>1. Init => AllPlaced
  BY DEF Init, AllPlaced
<1>2. ASSUME Inv, OriginsScored => AllPlaced, [Next]_vars, OriginsScored'
      PROVE  AllPlaced'
  <2>1. OriginsScored /\ AllPlaced
    BY <1>2, ScoredBefore
  <2> SUFFICES ASSUME NEW g \in Group, NEW b \in {boot'[g], origin'[g]} \ {None}, b.owner # None
               PROVE  b.step = Place(b.start)'
    BY DEF AllPlaced, AtPlace
  <2>2. b \in {boot[g], origin[g]} \/ b \in Bootstraps(g)
    BY <1>2, BootStep
  <2>3. StartKept(g, b)
    BY <1>2, <2>2, BootStarts DEF Inv, GroupKept, StartsKept
  <2>4. b.step = Place(b.start)
    BY <1>2, <2>1, <2>2, BootPlace DEF AllPlaced, AtPlace
  <2>5. b.owner \in Group /\ b.start \in CleanCommits(b.owner)
    BY <1>2, <2>3, OwnedStart
  <2>6. PICK c : c = b.start
    OBVIOUS
  <2>7. Place(c)' = Place(c)
    BY <1>2, <2>5, <2>6, PlaceStays
  <2> QED
    BY <2>4, <2>6, <2>7
<1>3. Inv /\ (OriginsScored => AllPlaced) /\ [Next]_vars => (OriginsScored => AllPlaced)'
  BY <1>2
<1> QED
  BY <1>1, <1>3, Invariance, PTL DEF Spec

------------------------------------------------------------------------------
(* What the build reads.                                                      *)

(* A bootstrap resolved now is one of those there are.                        *)
LEMMA NowFacts ==
  ASSUME NEW g
  PROVE  Now(g) = None \/ Now(g) \in Bootstraps(g)
BY DEF Now, AnyOf

(* The maker of a commit is a group.                                          *)
LEMMA MakerFacts ==
  ASSUME CommitsKept, NEW c \in Known
  PROVE  Maker(c) \in Group \cup {None}
<1>1. c # Base => \E h \in Group : c \in Made(h)
  BY DEF Known, AllMade
<1>2. c # Base => c[1] \in Group
  BY <1>1, MadeFacts
<1> QED
  BY <1>2 DEF Maker, HasCycle

(* A commit of the parent was made in one of its loops.                       *)
LEMMA ParentLoopFacts ==
  ASSUME CommitsKept, NEW c \in Known, NEW p
  PROVE  ParentLoop(p, c) \in Nat /\ ParentLoop(p, Base) = 0
<1>1. c # Base => \E h \in Group : c \in Made(h)
  BY DEF Known, AllMade
<1>2. c # Base => Row(c).loop \in Nat
  BY <1>1, MadeFacts, RowFacts
<1> QED
  BY <1>2 DEF ParentLoop, HasCycle

(* What AnchorOf makes of a start.                                            *)
LEMMA BranchingFacts ==
  ASSUME NEW g, NEW b, StartKept(g, b), b # None, NEW maker \in Group \cup {None}, NEW n \in Nat
  PROVE  LET a == AnchorOf(b, maker, n) IN
         /\ a # None /\ a \in Branching
         /\ a.commit = b.start /\ a.parent = b.parent
         /\ a.step = IF b.owner = None THEN n ELSE b.step
         /\ b.owner # None => a.source = b.owner
<1> DEFINE source == OrElse(b.owner, OrElse(maker, b.parent))
           step == IF b.owner = None THEN n ELSE b.step
           a == AnchorOf(b, maker, n)
<1>1. a = [commit |-> b.start, parent |-> b.parent, step |-> step, source |-> source]
  BY DEF AnchorOf
<1>2. b.owner \in Group \cup {None} /\ b.parent \in Group \cup {None} /\ b.start \in Commit /\ b.step \in Nat
  BY DEF StartKept, Bootstrap
<1>3. source \in {b.owner, maker, b.parent} /\ (b.owner # None => source = b.owner) /\ step \in Nat
  BY <1>2 DEF OrElse
<1> HIDE DEF source, a, step
<1>4. a \in Branching
  BY <1>1, <1>2, <1>3 DEF Branching
<1> QED
  BY <1>1, <1>3, <1>4, NothingShown DEF a, step

(* Whatever the maker and the step, it is at the start and below the parent.  *)
LEMMA BranchOf ==
  ASSUME CommitsKept, NEW g, NEW b, StartKept(g, b), b # None, NEW a,
         a \in {AnchorOf(b, Maker(b.start), ParentLoop(b.parent, b.start)), AnchorOf(b, None, 0)}
  PROVE  a # None /\ a.commit = b.start /\ a.parent = b.parent
<1>1. b.start \in Known
  BY DEF StartKept
<1>2. Maker(b.start) \in Group \cup {None} /\ ParentLoop(b.parent, b.start) \in Nat
  BY <1>1, MakerFacts, ParentLoopFacts
<1> QED
  BY <1>2, BranchingFacts

(* Where a group branched off is what its first cycle recorded, or resolved   *)
(* now; whose commit that is, is known of every start.                        *)
LEMMA AnchorFacts ==
  ASSUME Inv, NEW g \in Group, InheritAnchor(g) # None
  PROVE  /\ Mode[g] # "baseline"
         /\ \E b : /\ StartKept(g, b) /\ b # None
                   /\ (Recorded(g) /\ b = origin[g]) \/ (~Recorded(g) /\ b = Now(g) /\ b \in Bootstraps(g))
                   /\ InheritAnchor(g).commit = b.start
                   /\ InheritAnchor(g).parent = b.parent
                   /\ InheritAnchor(g).source \in Group \cup {None}
                   /\ b.start = Base => InheritAnchor(g).step = 0
                   /\ b.owner # None => InheritAnchor(g).source = b.owner /\ InheritAnchor(g).step = b.step
<1>1. Mode[g] # "baseline"
  BY DEF InheritAnchor
<1>2. CommitsKept
  BY DEF Inv, Typed
<1>3. ASSUME NEW b, StartKept(g, b), b # None, NEW maker \in Group \cup {None}, NEW n \in Nat,
             b.start = Base => n = 0, InheritAnchor(g) = AnchorOf(b, maker, n)
      PROVE  /\ InheritAnchor(g).commit = b.start
             /\ InheritAnchor(g).parent = b.parent
             /\ InheritAnchor(g).source \in Group \cup {None}
             /\ b.start = Base => InheritAnchor(g).step = 0
             /\ b.owner # None => InheritAnchor(g).source = b.owner /\ InheritAnchor(g).step = b.step
  <2>1. \A a \in Branching : a.source \in Group \cup {None}
    BY DEF Branching
  <2>2. b.start = Base => b.owner = None
    BY <1>2, <1>3, OwnedStart, KnownFacts
  <2> QED
    BY <1>3, <2>1, <2>2, BranchingFacts
<1>4. CASE Recorded(g)
  <2> DEFINE m == origin[g]
  <2>1. StartKept(g, m) /\ m # None
    BY <1>4 DEF Recorded, Inv, GroupKept, StartsKept
  <2>2. Maker(m.start) \in Group \cup {None}
    BY <1>2, <2>1, MakerFacts DEF StartKept
  <2>3. InheritAnchor(g) = AnchorOf(m, Maker(m.start), ParentLoop(m.parent, m.start))
    BY <1>1, <1>4 DEF InheritAnchor
  <2>4. /\ ParentLoop(m.parent, m.start) \in Nat
        /\ m.start = Base => ParentLoop(m.parent, m.start) = 0
    BY <1>2, <2>1, ParentLoopFacts DEF StartKept
  <2> QED
    BY <1>1, <1>3, <1>4, <2>1, <2>2, <2>3, <2>4
<1>5. CASE ~Recorded(g)
  <2>1. InheritAnchor(g) = AnchorOf(Now(g), None, 0)
    BY <1>1, <1>5 DEF InheritAnchor
  <2>2. Now(g) # None
    BY <2>1 DEF AnchorOf
  <2>3. Now(g) \in Bootstraps(g) /\ StartKept(g, Now(g))
    BY <2>2, NowFacts, BootStarts
  <2> QED
    BY <1>1, <1>3, <1>5, <2>1, <2>2, <2>3
<1> QED
  BY <1>4, <1>5

(* Of what it starts from a group knows the owner.                            *)
LEMMA StartOwned ==
  ASSUME Inv, StartsScored
  PROVE  /\ OriginsScored
         /\ \A g \in Group : origin[g] # None => origin[g].start = Base \/ origin[g].owner # None
         /\ \A g \in Group : Now(g) # None => Now(g).start = Base \/ Now(g).owner # None
<1>1. ASSUME NEW g \in Group, origin[g] # None
      PROVE  /\ origin[g].start = Base \/ origin[g].owner # None
             /\ origin[g].owner # None => OwnedBy(origin[g]) # {}
  <2>1. PICK m : m = origin[g]
    OBVIOUS
  <2>2. StartKept(g, m) /\ (m.start = Base \/ OwnedBy(m) # {}) /\ CommitsKept
    BY <1>1, <2>1 DEF Inv, Typed, GroupKept, StartsKept, StartsScored
  <2>3. m.owner # None => m.start # Base
    BY <2>2, OwnedStart, KnownFacts
  <2>4. ASSUME m.owner = None, m.start # Base
        PROVE  FALSE
    <3>1. m.parent = Parent[g] /\ m.start \notin CleanCommits(Parent[g]) /\ m.parent \in Group \cup {None}
      BY <2>2, <2>4 DEF StartKept, Bootstrap
    <3>2. m.parent \in Group /\ m.start \in ScoredCommits(m.parent)
      BY <2>2, <2>4, <3>1 DEF OwnedBy
    <3> QED
      BY <3>1, <3>2, CleanFacts
  <2> QED
    BY <2>1, <2>2, <2>3, <2>4
<1> QED
  BY <1>1 DEF OriginsScored, StartsScored

(* The points of the group's own loops are at the places of their commits.    *)
LEMMA OwnStep ==
  ASSUME Inv, StartsScored, NEW h \in Group, NEW c \in CleanCommits(h)
  PROVE  /\ TrajectoryX(c) = (IF Row(c).whole THEN Off(h) + LoopOf(c) ELSE 0) /\ c[1] = h
         /\ Mode[h] # "baseline" => Recorded(h) /\ InheritAnchor(h) # None /\ InheritAnchor(h).step = origin[h].step
<1>1. CommitsKept /\ c \in Made(h) /\ c[1] = h /\ Row(c).loop \in Nat \ {0}
  BY CleanFacts, MadeFacts, RowFacts DEF Inv, Typed
<1>2. origin[h] # None /\ Row(c).loop <= Budget[h]
  BY <1>1 DEF Inv, GroupKept, PhaseKept, BranchKept
<1>3. Recorded(h)
  BY <1>1, <1>2, StudyAssumption DEF Recorded
<1>4. CASE Mode[h] = "baseline"
  <2>1. InheritAnchor(h) = None
    BY <1>4 DEF InheritAnchor
  <2> QED
    BY <1>1, <1>4, <2>1 DEF TrajectoryX, StepOf, Off, LoopOf
<1>5. CASE Mode[h] # "baseline"
  <2>1. PICK m : m = origin[h]
    OBVIOUS
  <2>2. StartKept(h, m) /\ m # None /\ m.step \in Nat /\ (m.owner = None => m.step = 0)
    BY <1>2, <2>1 DEF Inv, GroupKept, StartsKept, StartKept, Bootstrap
  <2>3. InheritAnchor(h) = AnchorOf(m, Maker(m.start), ParentLoop(m.parent, m.start))
    BY <1>3, <1>5, <2>1 DEF InheritAnchor
  <2>4. InheritAnchor(h) # None /\ InheritAnchor(h).step = IF m.owner = None THEN ParentLoop(m.parent, m.start) ELSE m.step
    BY <1>1, <2>2, <2>3, MakerFacts, ParentLoopFacts, BranchingFacts DEF StartKept
  <2>5. m.owner = None => ParentLoop(m.parent, m.start) = 0
    BY <1>1, <1>2, <2>1, <2>2, StartOwned, ParentLoopFacts DEF StartKept
  <2> QED
    BY <1>1, <1>3, <1>5, <2>1, <2>2, <2>4, <2>5 DEF TrajectoryX, StepOf, Off, LoopOf
<1> QED
  BY <1>4, <1>5

LEMMA OwnPlaces ==
  ASSUME Inv, StartsScored, NEW h \in Group, NEW p \in OwnPoints(h)
  PROVE  \/ p.commit = None /\ p.x = 0
         \/ /\ p.commit \in KeptRows(h) /\ p.commit \in CleanCommits(h) /\ p.commit[1] = h
            /\ p.x = (IF Row(p.commit).whole THEN Place(p.commit) ELSE 0)
            /\ p.value = Row(p.commit).result
<1>1. CASE p \in {[x |-> TrajectoryX(c), commit |-> c, value |-> Row(c).result] : c \in KeptRows(h)}
  <2>1. PICK c \in KeptRows(h) : p = [x |-> TrajectoryX(c), commit |-> c, value |-> Row(c).result]
    BY <1>1
  <2>2. c \in CleanCommits(h)
    BY CleanFacts DEF KeptRows
  <2>3. TrajectoryX(c) = (IF Row(c).whole THEN Place(c) ELSE 0) /\ c[1] = h
    BY <2>2, OwnStep, LoopPlace, StartOwned
  <2>4. p.commit = c /\ p.x = TrajectoryX(c) /\ p.value = Row(c).result
    BY <2>1
  <2> QED
    BY <2>2, <2>3, <2>4
<1>2. CASE p = [x |-> 0, commit |-> None, value |-> BaselineScore]
  BY <1>2
<1> QED
  BY <1>1, <1>2 DEF OwnPoints

(* A start is at the place of its commit.                                     *)
LEMMA StartPlace ==
  ASSUME Inv, NEW g \in Group, NEW b, StartKept(g, b), AtPlace(b), b.owner # None
  PROVE  b.step = Place(b.start) /\ b.start \in AllMade /\ b.start[1] = b.owner
BY OwnedStart DEF AtPlace

(* What a build can rely on.                                                  *)
Sound == Inv /\ StartsScored /\ OriginsScored /\ AllPlaced

LEMMA NowPlace ==
  ASSUME Sound, NEW g \in Group, Now(g) # None, Now(g).start # Base
  PROVE  Now(g).step = Place(Now(g).start) /\ Now(g).start \in AllMade
<1>1. PICK b : b = Now(g)
  OBVIOUS
<1>2. b \in Bootstraps(g)
  BY <1>1, NowFacts
<1>3. StartKept(g, b) /\ AtPlace(b) /\ b.owner # None
  BY <1>1, <1>2, BootStarts, BootPlace, StartOwned DEF Sound
<1> QED
  BY <1>1, <1>3, StartPlace DEF Sound

LEMMA InheritPlace ==
  ASSUME Sound, NEW g \in Group, InheritAnchor(g) # None, InheritAnchor(g).commit # Base
  PROVE  LET a == InheritAnchor(g) IN
         /\ a.step = Place(a.commit) /\ a.commit \in AllMade
         /\ a.source = a.commit[1]
<1> DEFINE a == InheritAnchor(g)
<1>1. PICK b : /\ StartKept(g, b) /\ b # None
               /\ (Recorded(g) /\ b = origin[g]) \/ (~Recorded(g) /\ b = Now(g) /\ b \in Bootstraps(g))
               /\ a.commit = b.start
               /\ b.owner # None => a.source = b.owner /\ a.step = b.step
  BY AnchorFacts DEF Sound
<1> HIDE DEF a
<1>2. AtPlace(b)
  <2>1. CASE Recorded(g) /\ b = origin[g]
    BY <1>1, <2>1 DEF Sound, AllPlaced
  <2>2. CASE b \in Bootstraps(g)
    BY <2>2, BootPlace DEF Sound
  <2> QED
    BY <1>1, <2>1, <2>2
<1>3. b.start # Base
  BY <1>1 DEF a
<1>4. b.owner # None
  BY <1>1, <1>3, StartOwned DEF Sound
<1>5. b.step = Place(b.start) /\ b.start \in AllMade /\ b.start[1] = b.owner
  BY <1>1, <1>2, <1>4, StartPlace DEF Sound
<1> QED
  BY <1>1, <1>4, <1>5 DEF a

(* Top commits are at their places, ...                                       *)
LEMMA WinnerPlace ==
  ASSUME Sound, NEW g \in Group, Winner(g) # None, Winner(g).commit # Base
  PROVE  Winner(g).step = Place(Winner(g).commit) /\ Winner(g).commit \in AllMade
<1>1. CASE HasOwnPoint(g)
  <2> DEFINE a == PolicyAnchor(TopPolicy[g], g)
  <2>1. Winner(g) = PolicyWinner(a)
    BY <1>1 DEF Winner
  <2>2. a # None /\ Winner(g) = [commit |-> a.ref, step |-> a.step, baseline |-> a.owner = None /\ a.step = 0]
    BY <2>1 DEF PolicyWinner
  <2>3. TopPolicy[g] \in {"best_commit", "last_commit"}
    BY StudyAssumption
  <2>4. /\ a.owner = None => a = L0
        /\ a.owner # None => a.owner \in Group /\ a.ref \in CleanCommits(a.owner) /\ a.step = Place(a.ref)
    BY <2>2, <2>3, AnchorPlace DEF Sound
  <2> HIDE DEF a
  <2>5. Winner(g).commit = a.ref /\ Winner(g).step = a.step
    BY <2>2
  <2>6. a.owner # None
    BY <2>4, <2>5, L0Facts
  <2> QED
    BY <2>4, <2>5, <2>6, KnownFacts DEF Sound, Inv, Typed
<1>2. CASE ~HasOwnPoint(g)
  <2>1. Winner(g) = SelectWinner(Now(g))
    BY <1>2 DEF Winner
  <2>2. Now(g) # None /\ Winner(g) = [commit |-> Now(g).start, step |-> Now(g).step, baseline |-> FALSE]
    BY <2>1 DEF SelectWinner
  <2>3. Winner(g).commit = Now(g).start /\ Winner(g).step = Now(g).step
    BY <2>2
  <2> QED
    BY <2>2, <2>3, NowPlace
<1> QED
  BY <1>1, <1>2

(* ... and so are points; of the rows of a loop one is kept.                  *)
LEMMA KeptSame ==
  ASSUME CommitsKept, NEW h \in Group, NEW c \in Cycled(KeptRows(h)), NEW d \in Cycled(KeptRows(h)),
         Row(c).loop = Row(d).loop
  PROVE  c = d
<1>1. c \in Made(h) /\ d \in Made(h)
  BY CleanFacts DEF KeptRows, Cycled
<1>2. c = <<h, c[2]>> /\ d = <<h, d[2]>> /\ c[2] \in Nat /\ d[2] \in Nat
  BY <1>1, MadeFacts
<1>3. c[2] <= d[2] /\ d[2] <= c[2]
  BY DEF KeptRows, Cycled
<1>4. c[2] = d[2]
  BY <1>2, <1>3
<1> QED
  BY <1>2, <1>4

Valued(p) == p.commit \in Cycled(KeptRows(p.commit[1])) => p.value = Row(p.commit).result

LEMMA SourcePlace ==
  ASSUME Sound, NEW g \in Group, InheritAnchor(g) # None, InheritAnchor(g).source # None,
         NEW p \in SourcePoints(g, InheritAnchor(g)), p.commit \notin {None, Base}
  PROVE  (Row(p.commit).whole => p.x = Place(p.commit)) /\ p.commit \in AllMade /\ Valued(p)
<1> DEFINE a == InheritAnchor(g)
           s == a.source
<1>1. s \in Group
  BY AnchorFacts DEF Sound
<1>2. CommitsKept
  BY DEF Sound, Inv, Typed
<1>3. CASE p \in PathPoints(g, a, OwnPoints(s))
  <2>1. p \in OwnPoints(s)
    BY <1>3 DEF PathPoints
  <2>2. /\ p.commit \in CleanCommits(s) /\ p.value = Row(p.commit).result
        /\ Row(p.commit).whole => p.x = Place(p.commit)
    BY <1>1, <2>1, OwnPlaces DEF Sound
  <2> QED
    BY <1>1, <1>2, <2>2, KnownFacts DEF Valued
<1>4. ASSUME p \in BasePoints(a, OwnPoints(g), OwnPoints(s))
      PROVE  p.x = Place(p.commit) /\ p.commit \in AllMade /\ Valued(p)
  <2>1. PICK q \in OwnPoints(s) : q.x = a.step /\ p = [x |-> a.step, commit |-> a.commit, value |-> q.value]
    BY <1>4 DEF BasePoints
  <2>2. p.x = a.step /\ p.commit = a.commit /\ p.value = q.value
    BY <2>1
  <2>3. a.step = Place(a.commit) /\ a.commit \in AllMade /\ a.source = a.commit[1]
    BY <2>2, InheritPlace
  <2>4. PICK c : c = a.commit
    OBVIOUS
  <2> HIDE DEF a, s
  <2>5. ASSUME c \in Cycled(KeptRows(c[1]))
        PROVE  p.value = Row(c).result
    <3>1. PICK h \in Group : c \in Made(h)
      BY <2>3, <2>4 DEF AllMade
    <3>2. c[1] = h
      BY <1>2, <3>1, MadeFacts
    <3>3. c \in CleanCommits(h) /\ Row(c).whole
      BY <2>5, <3>1, <3>2, CleanFacts DEF KeptRows, Cycled
    <3>4. s = h
      BY <2>3, <2>4, <3>2 DEF s
    <3>5. Place(c) = Off(h) + LoopOf(c) /\ Off(h) \in Nat /\ LoopOf(c) \in Nat \ {0} /\ LoopOf(c) = Row(c).loop
      BY <3>3, LoopPlace DEF Sound, LoopOf
    <3>6. /\ q.commit \in KeptRows(h) /\ q.commit \in CleanCommits(h) /\ Row(q.commit).whole
          /\ q.x = Place(q.commit) /\ q.value = Row(q.commit).result
      <4>1. q.x # 0
        BY <2>1, <2>3, <2>4, <3>5
      <4> QED
        BY <2>1, <3>4, <4>1, OwnPlaces DEF Sound
    <3>7. /\ Place(q.commit) = Off(h) + LoopOf(q.commit) /\ LoopOf(q.commit) \in Nat \ {0}
          /\ LoopOf(q.commit) = Row(q.commit).loop
      BY <3>6, LoopPlace DEF Sound, LoopOf
    <3>8. Row(c).loop = Row(q.commit).loop
      BY <2>1, <2>3, <2>4, <3>5, <3>6, <3>7
    <3>9. c = q.commit
      BY <1>2, <2>5, <3>2, <3>6, <3>8, KeptSame DEF Cycled
    <3> QED
      BY <2>2, <3>6, <3>9
  <2> QED
    BY <2>2, <2>3, <2>4, <2>5 DEF Valued
<1>5. SourcePoints(g, a) = BasePoints(a, OwnPoints(g), OwnPoints(s)) \cup PathPoints(g, a, OwnPoints(s))
  BY DEF SourcePoints, CollapsePoints
<1> QED
  BY <1>3, <1>4, <1>5

LEMMA PointPlace ==
  ASSUME Sound, NEW g \in Group, NEW p \in Points(g), p.commit \notin {None, Base}
  PROVE  (Row(p.commit).whole => p.x = Place(p.commit)) /\ p.commit \in AllMade /\ Valued(p)
<1>1. CASE p \in OwnPoints(g)
  <2>1. /\ p.commit \in CleanCommits(g) /\ p.value = Row(p.commit).result
        /\ Row(p.commit).whole => p.x = Place(p.commit)
    BY <1>1, OwnPlaces DEF Sound
  <2>2. CommitsKept
    BY DEF Sound, Inv, Typed
  <2> QED
    BY <2>1, <2>2, KnownFacts DEF Valued
<1>2. CASE p \in SourcePoints(g, InheritAnchor(g))
  <2>1. InheritAnchor(g) # None /\ InheritAnchor(g).source # None
    BY <1>2 DEF SourcePoints
  <2> QED
    BY <1>2, <2>1, SourcePlace
<1> QED
  BY <1>1, <1>2 DEF Points

(* There are finitely many commits.                                           *)
LEMMA AllMadeFinite ==
  ASSUME CommitsKept
  PROVE  IsFiniteSet(AllMade)
<1> DEFINE T == {Made(g) : g \in Group}
           f == [g \in Group |-> Made(g)]
<1>1. IsFiniteSet(Group)
  BY StudyAssumption
<1>2. f \in Surjection(Group, T)
  <2>1. f \in [Group -> T]
    OBVIOUS
  <2>2. \A t \in T : \E g \in Group : f[g] = t
    OBVIOUS
  <2> QED
    BY <2>1, <2>2 DEF Surjection
<1>3. IsFiniteSet(T)
  <2> HIDE DEF f, T
  <2> QED
    BY <1>1, <1>2, FS_Surjection
<1>4. \A t \in T : IsFiniteSet(t)
  BY MadeFinite
<1> HIDE DEF f, T
<1>5. IsFiniteSet(UNION T)
  BY <1>3, <1>4, FS_UNION
<1> QED
  BY <1>5 DEF AllMade, T

(* A commit with a run and a cycle row has one place on the axis, at any time *)
(* of a build and in every study; and points show the scores of their own     *)
(* commits, as far as rows are kept.                                          *)
THEOREM OnePlace == Spec => []OnePlacePerCommit
<1>1. ASSUME Sound
      PROVE  OnePlacePerCommit
  <2> DEFINE shown == {m \in Marks(AllPoints) : m[1] \notin {None, Base}}
             marks == {m \in shown : Row(m[1]).whole}
             cs == {m[1] : m \in marks}
             f == [c \in cs |-> <<c, Place(c)>>]
  <2>1. CommitsKept
    BY <1>1 DEF Sound, Inv, Typed
  <2>2. ASSUME NEW m \in marks
        PROVE  m = <<m[1], Place(m[1])>> /\ m[1] \in AllMade
    <3>1. CASE m \in {<<p.commit, p.x>> : p \in UNION {Points(g) : g \in Group}}
      <4>1. PICK g \in Group : \E p \in Points(g) : m = <<p.commit, p.x>>
        BY <3>1
      <4>2. PICK p \in Points(g) : m = <<p.commit, p.x>>
        BY <4>1
      <4>3. p.x = Place(p.commit) /\ p.commit \in AllMade
        BY <1>1, <4>2, PointPlace
      <4> QED
        BY <4>2, <4>3
    <3>2. ASSUME NEW g \in Group, Winner(g) # None, m = <<Winner(g).commit, Winner(g).step>>
          PROVE  m = <<m[1], Place(m[1])>> /\ m[1] \in AllMade
      BY <1>1, <3>2, WinnerPlace
    <3>3. ASSUME NEW g \in Group, InheritAnchor(g) # None, m = <<InheritAnchor(g).commit, InheritAnchor(g).step>>
          PROVE  m = <<m[1], Place(m[1])>> /\ m[1] \in AllMade
      BY <1>1, <3>3, InheritPlace
    <3> QED
      BY <3>1, <3>2, <3>3 DEF Marks, AllPoints
  <2>3. IsFiniteSet(cs)
    <3>1. cs \subseteq AllMade
      BY <2>2
    <3> HIDE DEF cs
    <3> QED
      BY <2>1, <3>1, AllMadeFinite, FS_Subset
  <2>4. ExistsBijection(cs, marks)
    <3>1. \A c \in cs : f[c] = <<c, Place(c)>> /\ <<c, Place(c)>> \in marks
      BY <2>2
    <3>2. \A m \in marks : m[1] \in cs /\ m = <<m[1], Place(m[1])>>
      BY <2>2
    <3> HIDE DEF cs, marks
    <3>3. f \in [cs -> marks]
      BY <3>1
    <3>4. \A c, d \in cs : f[c] = f[d] => c = d
      BY <3>1
    <3>5. \A m \in marks : \E c \in cs : f[c] = m
      BY <3>1, <3>2
    <3> HIDE DEF f
    <3>6. f \in Bijection(cs, marks)
      BY <3>3, <3>4, <3>5 DEF Bijection, Injection, Surjection, IsInjective
    <3> QED
      BY <3>6 DEF ExistsBijection
  <2>5. Cardinality(cs) = Cardinality(marks)
    <3> HIDE DEF cs, marks
    <3> QED
      BY <2>3, <2>4, FS_Bijection
  <2>6. ASSUME NEW p \in UNION {Points(g) : g \in Group}, p.commit \notin {None, Base}
        PROVE  Valued(p)
    BY <1>1, <2>6, PointPlace
  <2> QED
    BY <2>5, <2>6 DEF OnePlacePerCommit, AllPoints, Valued
<1>2. Inv /\ (OriginsScored => AllPlaced) => OnePlacePerCommit
  <2>1. ASSUME ~StartsScored
        PROVE  OnePlacePerCommit
    BY <2>1 DEF OnePlacePerCommit
  <2> QED
    BY <1>1, <2>1, StartOwned DEF Sound
<1> QED
  BY <1>2, Invariance, PlacedInvariant, PTL

------------------------------------------------------------------------------
(* Stars.                                                                     *)

(* The owner of a scored commit shows something in its place: the newest row  *)
(* of the loop.                                                               *)
LEMMA SourceShows ==
  ASSUME Inv, StartsScored, NEW s \in Group, NEW c \in Cycled(ScoredCommits(s))
  PROVE  \E q \in OwnPoints(s) : q.x = Place(c)
<1> DEFINE C == {d \in Cycled(ScoredCommits(s)) : Row(d).loop = Row(c).loop}
           R == {e \in C \X C : e[1][2] > e[2][2]}
<1>1. CommitsKept
  BY DEF Inv, Typed
<1>2. C \subseteq Made(s) /\ c \in C
  BY CleanFacts DEF Cycled
<1>3. IsFiniteSet(C)
  <2> HIDE DEF C
  <2> QED
    BY <1>1, <1>2, MadeFinite, FS_Subset
<1>4. \A d \in C : d[2] \in Nat
  BY <1>1, <1>2, MadeFacts
<1>5. \A d, e \in C : <<d, e>> \in R <=> d[2] > e[2]
  BY DEF R
<1> HIDE DEF R
<1>6. PICK d \in C : \A e \in C : <<e, d>> \notin R
  <2> HIDE DEF C
  <2>1. \A e \in C : <<e, e>> \notin R
    BY <1>4, <1>5
  <2>2. \A d, e, f \in C : <<d, e>> \in R /\ <<e, f>> \in R => <<d, f>> \in R
    BY <1>4, <1>5
  <2> QED
    BY <1>2, <1>3, <2>1, <2>2, Extremum
<1>7. ASSUME NEW e \in C
      PROVE  e[2] <= d[2]
  <2>1. ~(e[2] > d[2])
    BY <1>5, <1>6
  <2>2. e[2] \in Nat /\ d[2] \in Nat
    BY <1>4, <1>6
  <2> QED
    BY <2>1, <2>2
<1>8. d \in KeptRows(s) /\ Row(d).loop = Row(c).loop
  <2>1. d \in ScoredCommits(s) /\ \A e \in Cycled(ScoredCommits(s)) : Row(e).loop = Row(d).loop => e[2] <= d[2]
    BY <1>6, <1>7 DEF Cycled
  <2> QED
    BY <1>6, <2>1 DEF KeptRows
<1>9. d \in CleanCommits(s) /\ c \in CleanCommits(s) /\ Row(d).whole /\ Row(c).whole
  BY <1>6, CleanFacts DEF Cycled
<1>10. TrajectoryX(d) = Place(c)
  <2>1. LoopOf(d) = LoopOf(c)
    BY <1>8, <1>9 DEF LoopOf
  <2> QED
    BY <1>9, <2>1, StartOwned, OwnStep, LoopPlace
<1> DEFINE q == [x |-> TrajectoryX(d), commit |-> d, value |-> Row(d).result]
<1>11. q \in OwnPoints(s)
  BY <1>8 DEF OwnPoints
<1> QED
  BY <1>10, <1>11

(* A collapse whose anchor is at a scored commit of another group shows it    *)
(* there, unless it shows something of its own.                               *)
LEMMA BaseShown ==
  ASSUME Inv, StartsScored, NEW g \in Group, Role[g] = "collapse",
         NEW a, a # None, InheritAnchor(g) = a, a.source \in Group,
         a.commit \in Cycled(ScoredCommits(a.source)), a.step = Place(a.commit),
         \A o \in OwnPoints(g) : o.x # a.step
  PROVE  \E p \in Points(g) : p.commit = a.commit
<1>1. PICK q \in OwnPoints(a.source) : q.x = a.step
  BY SourceShows
<1> DEFINE p == [x |-> a.step, commit |-> a.commit, value |-> q.value]
<1>2. p \in BasePoints(a, OwnPoints(g), OwnPoints(a.source))
  BY <1>1 DEF BasePoints
<1>3. a.source # None
  BY StudyAssumption
<1>4. p \in SourcePoints(g, InheritAnchor(g))
  BY <1>2, <1>3 DEF SourcePoints, CollapsePoints
<1>5. p \in Points(g)
  BY <1>4 DEF Points
<1> QED
  BY <1>5

(* What a collapse with commits of its own adopted.                           *)
LEMMA AdoptedShown ==
  ASSUME Sound, NEW g \in Group, Role[g] = "collapse", HasOwnPoint(g),
         Winner(g) # None, ~Winner(g).baseline,
         Winner(g).commit[1] # g, Winner(g).commit \in Cycled(ScoredCommits(Winner(g).commit[1]))
  PROVE  \E p \in Points(g) : p.commit = Winner(g).commit
<1> DEFINE a == PolicyAnchor(TopPolicy[g], g)
           b == InheritAnchor(g)
<1>1. a # None /\ Winner(g) = [commit |-> a.ref, step |-> a.step, baseline |-> a.owner = None /\ a.step = 0]
  BY DEF Winner, PolicyWinner
<1>2. TopPolicy[g] \in {"best_commit", "last_commit"} /\ CommitsKept
  BY StudyAssumption DEF Sound, Inv, Typed
<1> USE DEF Sound
<1>3. /\ a.owner = None => a = L0
      /\ a.owner # None => a.owner \in Group /\ a.ref[1] = a.owner /\ a.step = Place(a.ref)
      /\ a.owner \notin {None, g} => a = OriginAnchor(g)
  BY <1>1, <1>2, AnchorPlace
<1> HIDE DEF a
<1>4. Winner(g).commit = a.ref /\ (a.owner # None \/ a.step # 0)
  <2> DEFINE base == a.owner = None /\ a.step = 0
  <2>1. Winner(g) = [commit |-> a.ref, step |-> a.step, baseline |-> base]
    BY <1>1
  <2> HIDE DEF base
  <2>2. Winner(g).commit = a.ref /\ Winner(g).baseline = base
    BY <2>1
  <2> QED
    BY <2>2 DEF base
<1>5. a.owner \in Group \ {g} /\ a = OriginAnchor(g) /\ a.ref[1] = a.owner /\ a.step = Place(a.ref)
  BY <1>3, <1>4, L0Facts
<1>6. /\ origin[g] # None /\ StartKept(g, origin[g]) /\ origin[g].owner # None
      /\ a.ref = origin[g].start /\ a.step = origin[g].step
  BY <1>5, OriginOwner, StudyAssumption
<1>7. origin[g].owner = a.owner
  <2>1. PICK m : m = origin[g]
    OBVIOUS
  <2>2. m.start[1] = m.owner
    BY <1>6, <2>1, OwnedStart
  <2> QED
    BY <1>5, <1>6, <2>1, <2>2
<1>8. Mode[g] # "baseline"
  BY <1>6 DEF StartKept
<1>9. PICK c : c \in CleanCommits(g)
  BY <1>8 DEF HasOwnPoint
<1>10. Recorded(g) /\ b # None /\ b.step = origin[g].step
  BY <1>8, <1>9, OwnStep
<1>11. b.commit = origin[g].start /\ b.source = a.owner
  BY <1>6, <1>7, <1>10, AnchorFacts
<1>0. b.step \in Nat \ {0}
  <2>1. b.step = Place(a.ref) /\ a.ref \in CleanCommits(a.owner)
    BY <1>4, <1>5, <1>6, <1>10, CleanFacts DEF Cycled
  <2>2. a.owner \in Group
    BY <1>5
  <2> QED
    BY <2>1, <2>2, LoopPlace
<1>12. ASSUME NEW o \in OwnPoints(g)
       PROVE  o.x # b.step
  <2>1. PICK d \in KeptRows(g) : o = [x |-> TrajectoryX(d), commit |-> d, value |-> Row(d).result]
    BY <1>8 DEF OwnPoints
  <2>2. d \in CleanCommits(g)
    BY CleanFacts DEF KeptRows
  <2>3. /\ TrajectoryX(d) = (IF Row(d).whole THEN Off(g) + LoopOf(d) ELSE 0)
        /\ Off(g) \in Nat /\ LoopOf(d) \in Nat \ {0}
    BY <2>2, OwnStep, LoopPlace
  <2>4. Off(g) = b.step
    BY <1>8, <1>10 DEF Off
  <2>5. o.x = TrajectoryX(d)
    BY <2>1
  <2> QED
    BY <1>0, <2>3, <2>4, <2>5
<1>13. b.source \in Group /\ b.commit \in Cycled(ScoredCommits(b.source)) /\ b.step = Place(b.commit)
       /\ b.commit = Winner(g).commit
  BY <1>4, <1>5, <1>6, <1>10, <1>11
<1> HIDE DEF b
<1>14. InheritAnchor(g) = b
  BY DEF b
<1>15. \E p \in Points(g) : p.commit = b.commit
  BY <1>10, <1>12, <1>13, <1>14, BaseShown
<1> QED
  BY <1>13, <1>15

(* What a select collapse chose.                                              *)
LEMMA SelectedShown ==
  ASSUME Sound, NEW g \in Group, Role[g] = "collapse", ~HasOwnPoint(g),
         Winner(g) # None, Winner(g).commit \in Cycled(ScoredCommits(Winner(g).commit[1]))
  PROVE  \E p \in Points(g) : p.commit = Winner(g).commit
<1> USE DEF Sound
<1>1. Budget[g] = 0 /\ Winner(g) = SelectWinner(Now(g))
  BY DEF Winner
<1>2. PICK b : b = Now(g)
  OBVIOUS
<1>3. b # None /\ b.step # 0 /\ Winner(g).commit = b.start
  BY <1>1, <1>2 DEF SelectWinner
<1>4. b \in Bootstraps(g)
  BY <1>2, <1>3, NowFacts
<1>5. StartKept(g, b) /\ AtPlace(b)
  BY <1>4, BootStarts, BootPlace
<1>6. b.owner # None
  BY <1>3, <1>5 DEF StartKept
<1>7. b.owner \in Group /\ b.start[1] = b.owner /\ b.step = Place(b.start)
  BY <1>5, <1>6, OwnedStart DEF AtPlace
<1>8. Mode[g] # "baseline" /\ CleanCommits(g) = {}
  BY DEF HasOwnPoint
<1>9. InheritAnchor(g) = AnchorOf(b, None, 0)
  BY <1>1, <1>2, <1>8 DEF InheritAnchor, Recorded
<1> DEFINE a == AnchorOf(b, None, 0)
<1>10. a # None /\ a.commit = b.start /\ a.step = b.step /\ a.source = b.owner
  BY <1>3, <1>5, <1>6, BranchingFacts
<1>11. OwnPoints(g) = {}
  BY <1>8, CleanFacts DEF OwnPoints, KeptRows
<1> HIDE DEF a
<1>12. InheritAnchor(g) = a
  BY <1>9 DEF a
<1>13. \E p \in Points(g) : p.commit = a.commit
  BY <1>3, <1>7, <1>10, <1>11, <1>12, BaseShown
<1> QED
  BY <1>3, <1>10, <1>13

(* The top commit of a group has a star, at any time of a build and in every  *)
(* study: its own one while its row is kept, and that which a collapse        *)
(* adopted or selected from a loop with a cycle row, although its owner may   *)
(* show another row of that loop.                                             *)
THEOREM TopCommitsStarred == Spec => []TopCommitsAreStarred
<1>1. ASSUME Inv, OriginsScored => AllPlaced
      PROVE  TopCommitsAreStarred
  <2> SUFFICES ASSUME StartsScored, NEW g \in Group, Winner(g) # None, ~Winner(g).baseline,
                      IF Winner(g).commit[1] = g THEN Winner(g).commit \in KeptRows(g)
                      ELSE Role[g] = "collapse" /\ Winner(g).commit \in Cycled(ScoredCommits(Winner(g).commit[1]))
               PROVE  \E p \in Points(g) : p.commit = Winner(g).commit
    BY DEF TopCommitsAreStarred, Stars, Star
  <2>0. Sound
    BY <1>1, StartOwned DEF Sound
  <2>1. CASE Winner(g).commit[1] = g
    <3> DEFINE c == Winner(g).commit
               p == [x |-> TrajectoryX(c), commit |-> c, value |-> Row(c).result]
    <3>1. p \in OwnPoints(g)
      BY <2>1 DEF OwnPoints
    <3> QED
      BY <3>1 DEF Points
  <2>2. CASE Winner(g).commit[1] # g
    BY <2>0, <2>2, AdoptedShown, SelectedShown
  <2> QED
    BY <2>1, <2>2
<1>2. Inv /\ (OriginsScored => AllPlaced) => TopCommitsAreStarred
  BY <1>1
<1> QED
  BY <1>2, Invariance, PlacedInvariant, PTL

------------------------------------------------------------------------------
(* Merge plans.                                                               *)

(* A group whose commits and first cycle stay has the same anchors.           *)
LEMMA OriginStays ==
  ASSUME Inv, Grows, NEW s \in Group, origin'[s] = origin[s]
  PROVE  OriginAnchor(s)' = OriginAnchor(s)
<1>1. PICK m : m = origin[s]
  OBVIOUS
<1>2. CASE m = None \/ m.parent = None
  BY <1>1, <1>2 DEF OriginAnchor, L0
<1>3. CASE m # None /\ m.parent # None
  <2>1. StartKept(s, m) /\ m \in Bootstrap /\ CommitsKept
    BY <1>1, <1>3 DEF Inv, Typed, GroupKept, StartsKept
  <2>2. m.start \in Known /\ m.owner \in Group \cup {None} /\ m.parent \in Group \cup {None}
    BY <2>1 DEF StartKept, Bootstrap
  <2>3. \A o \in {m.owner, m.parent} \ {None} : m.start \in ScoredCommits(o)' <=> m.start \in ScoredCommits(o)
    BY <2>2, KnownStays
  <2>4. {o \in {m.owner, m.parent} \ {None} : m.start \in ScoredCommits(o)'} = OwnedBy(m)
    BY <2>3 DEF OwnedBy
  <2>5. OwnedBy(origin[s])' = OwnedBy(m)
    BY <1>1, <2>4 DEF OwnedBy
  <2>6. OwnedBy(m) # {} => Row(m.start)' = Row(m.start)
    <3>1. ASSUME NEW o \in OwnedBy(m)
          PROVE  m.start \in AllMade
      BY <2>1, <2>2, <3>1, CleanFacts, KnownFacts DEF OwnedBy
    <3> QED
      BY <3>1 DEF Grows
  <2>7. OriginAnchor(s) = IF OwnedBy(m) = {} THEN L0
                          ELSE [ref |-> m.start, step |-> m.step, value |-> Row(m.start).result,
                                owner |-> IF m.owner \in OwnedBy(m) THEN m.owner ELSE m.parent]
    BY <1>1, <1>3 DEF OriginAnchor
  <2>8. OriginAnchor(s)' = IF OwnedBy(m) = {} THEN L0
                           ELSE [ref |-> m.start, step |-> m.step, value |-> Row(m.start)'.result,
                                 owner |-> IF m.owner \in OwnedBy(m) THEN m.owner ELSE m.parent]
    BY <1>1, <1>3, <2>5 DEF OriginAnchor, L0
  <2> QED
    BY <2>6, <2>7, <2>8
<1> QED
  BY <1>2, <1>3

LEMMA CommitsStay ==
  ASSUME CommitsKept, NEW s \in Group, commits'[s] = commits[s]
  PROVE  /\ Made(s)' = Made(s) /\ CleanCommits(s)' = CleanCommits(s) /\ ScoredCommits(s)' = ScoredCommits(s)
         /\ \A c \in Made(s) : Row(c)' = Row(c)
<1>1. Made(s)' = Made(s)
  BY DEF Made
<1>2. \A c \in Made(s) : Row(c)' = Row(c)
  BY MadeFacts DEF Row
<1> QED
  BY <1>1, <1>2 DEF CleanCommits, ScoredCommits

LEMMA AnchorStays ==
  ASSUME Inv, Grows, NEW s \in Group, commits'[s] = commits[s], origin'[s] = origin[s], NEW policy
  PROVE  PolicyAnchor(policy, s)' = PolicyAnchor(policy, s)
<1>1. CommitsKept
  BY DEF Inv, Typed
<1>2. /\ CleanCommits(s)' = CleanCommits(s) /\ ScoredCommits(s)' = ScoredCommits(s)
      /\ \A c \in CleanCommits(s) : Row(c)' = Row(c)
      /\ \A c \in ScoredCommits(s) : Row(c)' = Row(c)
  BY <1>1, CommitsStay, CleanFacts
<1>3. OriginAnchor(s)' = OriginAnchor(s)
  BY OriginStays
<1>4. \A c \in CleanCommits(s) : LoopAnchor(s, c)' = LoopAnchor(s, c) /\ LoopRank(c)' = LoopRank(c)
  BY <1>2, <1>3 DEF LoopAnchor, LoopOf, LoopRank
<1>5. BestAnchor(s)' = BestAnchor(s)
  <2> DEFINE o == OriginAnchor(s)
             better == {c \in ScoredCommits(s) : Better(Row(c).result, o.value)}
             Wins(c, d) == Better(Row(c).result, Row(d).result) \/ (Row(c).result = Row(d).result /\ c[2] <= d[2])
             best == CHOOSE c \in better : \A d \in better : Wins(c, d)
  <2>1. BestAnchor(s) = IF better = {} THEN o ELSE LoopAnchor(s, best)
    BY DEF BestAnchor
  <2>2. better' = better
    BY <1>2, <1>3 DEF Better
  <2>3. \A c, d \in better : Wins(c, d)' <=> Wins(c, d)
    BY <1>2 DEF Better
  <2>4. best' = best
    <3> HIDE DEF better, Wins
    <3> QED
      BY <2>2, <2>3
  <2>5. ASSUME better # {}
        PROVE  best \in CleanCommits(s)
    <3>1. PICK c \in ScoredCommits(s) : BestAnchor(s) = LoopAnchor(s, c)
      <4>1. origin[s] \in Bootstrap \cup {None}
        BY DEF Inv, Typed
      <4> QED
        BY <1>1, <2>5, <4>1, BestFacts
    <3>2. LoopAnchor(s, best) = LoopAnchor(s, c)
      BY <2>1, <2>5, <3>1
    <3> HIDE DEF best
    <3>3. LoopAnchor(s, best).ref = best /\ LoopAnchor(s, c).ref = c
      BY DEF LoopAnchor
    <3> QED
      BY <3>1, <3>2, <3>3, CleanFacts
  <2>6. BestAnchor(s)' = (IF better = {} THEN o ELSE LoopAnchor(s, best))'
    BY DEF BestAnchor
  <2>7. CASE better = {}
    BY <1>3, <2>1, <2>2, <2>6, <2>7
  <2>8. CASE better # {}
    <3> HIDE DEF better, best
    <3>1. PICK c : c = best
      OBVIOUS
    <3>2. LoopAnchor(s, c)' = LoopAnchor(s, c)
      BY <1>4, <2>5, <2>8, <3>1
    <3>3. BestAnchor(s)' = LoopAnchor(s, c)'
      <4>1. BestAnchor(s)' = LoopAnchor(s, best)'
        BY <2>2, <2>6, <2>8
      <4>2. c = best'
        BY <2>4, <3>1
      <4> QED
        BY <4>1, <4>2 DEF LoopAnchor, Row
    <3> QED
      BY <2>1, <2>8, <3>1, <3>2, <3>3
  <2> QED
    BY <2>7, <2>8
<1>6. LastAnchor(s)' = LastAnchor(s)
  <2> DEFINE C == CleanCommits(s)
             Later(c, d) == LoopRank(c) > LoopRank(d) \/ (LoopRank(c) = LoopRank(d) /\ c[2] >= d[2])
             last == CHOOSE c \in C : \A d \in C : Later(c, d)
  <2>1. LastAnchor(s) = IF C = {} THEN None ELSE LoopAnchor(s, last)
    BY DEF LastAnchor
  <2>2. C' = C
    BY <1>2
  <2>3. \A c, d \in C : Later(c, d)' <=> Later(c, d)
    BY <1>4
  <2>4. last' = last
    <3> HIDE DEF C, Later
    <3> QED
      BY <2>2, <2>3
  <2>5. ASSUME C # {}
        PROVE  last \in C
    <3>1. PICK c \in C : LastAnchor(s) = LoopAnchor(s, c)
      BY <1>1, <2>5, LastFacts
    <3>2. LoopAnchor(s, last) = LoopAnchor(s, c)
      BY <2>1, <2>5, <3>1
    <3> HIDE DEF last
    <3>3. LoopAnchor(s, last).ref = last /\ LoopAnchor(s, c).ref = c
      BY DEF LoopAnchor
    <3> QED
      BY <3>1, <3>2, <3>3
  <2>6. LastAnchor(s)' = (IF C = {} THEN None ELSE LoopAnchor(s, last))'
    BY DEF LastAnchor
  <2>7. CASE C = {}
    BY <2>1, <2>2, <2>6, <2>7
  <2>8. CASE C # {}
    <3> HIDE DEF last
    <3>1. PICK c : c = last
      OBVIOUS
    <3>2. LoopAnchor(s, c)' = LoopAnchor(s, c)
      BY <1>4, <2>5, <2>8, <3>1
    <3>3. LastAnchor(s)' = LoopAnchor(s, c)'
      <4>1. LastAnchor(s)' = LoopAnchor(s, last)'
        BY <2>2, <2>6, <2>8
      <4>2. c = last'
        BY <2>4, <3>1
      <4> QED
        BY <4>1, <4>2 DEF LoopAnchor, Row
    <3> QED
      BY <2>1, <2>8, <3>1, <3>2, <3>3
  <2> QED
    BY <2>7, <2>8
<1> QED
  BY <1>5, <1>6 DEF PolicyAnchor

LEMMA SourcesStay ==
  ASSUME Inv, Grows, NEW g \in Group,
         \A i \in DOMAIN SourceIds(g) : /\ commits'[SourceIds(g)[i]] = commits[SourceIds(g)[i]]
                                        /\ origin'[SourceIds(g)[i]] = origin[SourceIds(g)[i]]
  PROVE  SourceAnchors(g)' = SourceAnchors(g)
<1>1. \A i \in DOMAIN SourceIds(g) :
        PolicyAnchor(TopPolicy[SourceIds(g)[i]], SourceIds(g)[i])' = PolicyAnchor(TopPolicy[SourceIds(g)[i]], SourceIds(g)[i])
  BY AnchorStays, SourceFacts
<1> QED
  BY <1>1 DEF SourceAnchors, SourceIds, Tips, IsTip

(* What is inherited was made in some loop.                                   *)
AllStepped == \A g \in Group : \A b \in {boot[g], origin[g]} \ {None} : b.owner # None => b.step > 0

LEMMA SteppedInvariant == Spec => []AllStepped
<1>1. Init => AllStepped
  BY DEF Init, AllStepped
<1>2. ASSUME Inv, AllStepped, [Next]_vars
      PROVE  AllStepped'
  <2> SUFFICES ASSUME NEW g \in Group, NEW b \in {boot'[g], origin'[g]} \ {None}, b.owner # None
               PROVE  b.step > 0
    BY DEF AllStepped
  <2>1. b \in {boot[g], origin[g]} \/ b \in Bootstraps(g)
    BY <1>2, BootStep
  <2>2. CommitsKept /\ OriginsKept /\ HeadsKept
    BY <1>2 DEF Inv, Typed, OriginsKept
  <2>3. ASSUME NEW p, NEW policy, TakenFrom(g, b, p, policy)
        PROVE  b.step > 0
    <3> DEFINE a == PolicyAnchor(policy, p)
    <3>1. p \in Group /\ policy \in {"best_commit", "last_commit"} /\ a # None
          /\ b.owner = a.owner /\ b.step = a.step
      BY <2>3 DEF TakenFrom
    <3>2. a = OriginAnchor(p) \/ \E c \in CleanCommits(p) : a = LoopAnchor(p, c)
      BY <2>2, <3>1, PolicyFacts DEF OriginsKept
    <3> HIDE DEF a
    <3>3. CASE a = OriginAnchor(p)
      BY <1>2, <3>1, <3>3, OriginOwner DEF AllStepped
    <3>4. ASSUME NEW c \in CleanCommits(p), a = LoopAnchor(p, c)
          PROVE  a.step > 0
      <4>1. a.step = OriginAnchor(p).step + LoopOf(c)
        BY <2>2, <3>1, <3>4, LoopAnchorFacts DEF OriginsKept
      <4>2. OriginAnchor(p).step \in Nat
        BY <2>2, <3>1, OriginFacts DEF OriginsKept, GoodAnchor, Anchor
      <4>3. LoopOf(c) \in Nat \ {0}
        BY <2>2, <3>1, CleanFacts, MadeFacts, LoopOfFacts
      <4> QED
        BY <4>1, <4>2, <4>3
    <3> QED
      BY <3>1, <3>2, <3>3, <3>4
  <2>4. CASE b \in Bootstraps(g)
    BY <2>2, <2>3, <2>4, BootFacts DEF BaselineBoot, TakenFromBranch
  <2> QED
    BY <1>2, <2>1, <2>4 DEF AllStepped
<1> QED
  BY <1>1, <1>2, Invariance, PTL DEF Spec

(* Until a resume, a merge that was started would be planned as it was: its   *)
(* sources are finished and keep their anchors.                               *)
Planned(g) ==
  /\ \A i \in DOMAIN SourceIds(g) : phase[SourceIds(g)[i]] = "finished"
  /\ boot[g] \in MergeBoots(SourceAnchors(g))
FirstPlans ==
  invocations = 1 =>
    \A g \in Group :
      /\ phase[g] = "idle" => boot[g] = None /\ origin[g] = None
      /\ origin[g] \in {None, boot[g]}
      /\ Mode[g] = "merge" /\ boot[g] # None => Planned(g)

LEMMA StepElsewhere ==
  ASSUME Typed, NEW h \in Group, Begin(h) \/ GiveUp(h) \/ (\E r \in Outcome[h] : Loop(h, r)),
         NEW s \in Group \ {h}
  PROVE  commits'[s] = commits[s] /\ origin'[s] = origin[s] /\ phase'[s] = phase[s] /\ boot'[s] = boot[s]
<1>1. /\ commits \in [Group -> Seq(CommitRow)] /\ origin \in [Group -> Bootstrap \cup {None}]
      /\ phase \in [Group -> {"idle", "running", "finished"}] /\ boot \in [Group -> Bootstrap \cup {None}]
  BY DEF Typed, CommitsKept
<1>2. CASE Begin(h)
  BY <1>1, <1>2 DEF Begin
<1>3. CASE GiveUp(h)
  BY <1>1, <1>3 DEF GiveUp, RecordCycle
<1>4. ASSUME NEW r \in Outcome[h], Loop(h, r)
      PROVE  commits'[s] = commits[s] /\ origin'[s] = origin[s] /\ phase'[s] = phase[s] /\ boot'[s] = boot[s]
  BY <1>1, <1>4 DEF Loop, RecordCycle
<1> QED
  BY <1>2, <1>3, <1>4

(* What a merge builds on is finished when it starts.                         *)
LEMMA SourcesFinished ==
  ASSUME Inv, FirstPlans, invocations = 1, NEW h \in Group, Begin(h), Mode[h] = "merge",
         NEW i \in DOMAIN SourceIds(h)
  PROVE  phase[SourceIds(h)[i]] = "finished" /\ SourceIds(h)[i] \in Group
<1>1. PICK s \in Group : s = SourceIds(h)[i]
  BY SourceFacts
<1>2. s \in Settled
  BY <1>1, MergeAssumption DEF Begin
<1>3. ASSUME phase[s] = "idle", GroupComplete(s)
      PROVE  FALSE
  <2>1. origin[s] = None
    BY <1>3 DEF FirstPlans
  <2>2. Made(s) = {}
    BY <2>1 DEF Inv, GroupKept, PhaseKept
  <2>3. CleanCommits(s) = {}
    BY <2>2, CleanFacts
  <2>4. LoopsOf(CleanCommits(s)) = {}
    BY <2>3 DEF LoopsOf, Cycled
  <2>5. Cardinality(LoopsOf(CleanCommits(s))) = 0
    BY <2>4, FS_EmptySet
  <2>6. Budget[s] \in Nat
    BY StudyAssumption
  <2> QED
    BY <1>3, <2>1, <2>3, <2>5, <2>6 DEF GroupComplete, Cycled
<1> QED
  BY <1>1, <1>2, <1>3 DEF Settled

LEMMA PlansInvariant == Spec => []FirstPlans
<1>1. Init => FirstPlans
  BY DEF Init, FirstPlans
<1>2. ASSUME Inv, FirstPlans, [Next]_vars
      PROVE  FirstPlans'
  <2> SUFFICES ASSUME invocations' = 1, NEW g \in Group
               PROVE  /\ phase'[g] = "idle" => boot'[g] = None /\ origin'[g] = None
                      /\ origin'[g] \in {None, boot'[g]}
                      /\ Mode[g] = "merge" /\ boot'[g] # None => Planned(g)'
    BY DEF FirstPlans
  <2>1. Typed /\ Grows /\ invocations \in Nat \ {0}
    BY <1>2, NextKeeps DEF Inv, Typed
  <2>2. ~Resume
    BY <2>1 DEF Resume
  <2>3. ASSUME UNCHANGED vars
        PROVE  FirstPlans'
    <3>1. \A h \in Group : SourceAnchors(h)' = SourceAnchors(h)
      BY <1>2, <2>1, <2>3, SourcesStay DEF vars
    <3> QED
      BY <1>2, <2>3, <3>1 DEF vars, FirstPlans, Planned, MergeBoots
  <2>4. ASSUME NEW h \in Group, Begin(h) \/ GiveUp(h) \/ (\E r \in Outcome[h] : Loop(h, r))
        PROVE  /\ phase'[g] = "idle" => boot'[g] = None /\ origin'[g] = None
               /\ origin'[g] \in {None, boot'[g]}
               /\ Mode[g] = "merge" /\ boot'[g] # None => Planned(g)'
    <3>1. invocations = 1 /\ phase[h] # "finished"
      BY <2>4 DEF Begin, GiveUp, Loop
    <3>2. /\ phase[g] = "idle" => boot[g] = None /\ origin[g] = None
          /\ origin[g] \in {None, boot[g]}
          /\ Mode[g] = "merge" /\ boot[g] # None => Planned(g)
      BY <1>2, <3>1 DEF FirstPlans
    <3>3. ASSUME \A i \in DOMAIN SourceIds(g) : phase[SourceIds(g)[i]] = "finished",
                 boot'[g] \in MergeBoots(SourceAnchors(g))
          PROVE  Planned(g)'
      <4>1. \A i \in DOMAIN SourceIds(g) : SourceIds(g)[i] \in Group \ {h}
        BY <3>1, <3>3, SourceFacts
      <4>2. \A i \in DOMAIN SourceIds(g) : /\ commits'[SourceIds(g)[i]] = commits[SourceIds(g)[i]]
                                           /\ origin'[SourceIds(g)[i]] = origin[SourceIds(g)[i]]
                                           /\ phase'[SourceIds(g)[i]] = phase[SourceIds(g)[i]]
        BY <2>1, <2>4, <4>1, StepElsewhere
      <4>3. SourceAnchors(g)' = SourceAnchors(g)
        BY <1>2, <2>1, <4>2, SourcesStay
      <4>4. MergeBoots(SourceAnchors(g))' = MergeBoots(SourceAnchors(g))
        BY <4>3 DEF MergeBoots
      <4>5. \A i \in DOMAIN SourceIds(g) : phase'[SourceIds(g)[i]] = "finished"
        BY <3>3, <4>2
      <4>6. SourceIds(g)' = SourceIds(g)
        BY DEF SourceIds, Tips, IsTip
      <4> QED
        BY <3>3, <4>4, <4>5, <4>6 DEF Planned
    <3>4. CASE g # h
      <4>1. origin'[g] = origin[g] /\ phase'[g] = phase[g] /\ boot'[g] = boot[g]
        BY <2>1, <2>4, <3>4, StepElsewhere
      <4> QED
        BY <3>2, <3>3, <4>1 DEF Planned
    <3>5. CASE g = h /\ Begin(h)
      <4>1. PICK b \in Bootstraps(h) :
              /\ boot' = [boot EXCEPT ![h] = b]
              /\ IF Budget[h] = 0
                 THEN /\ origin' = [origin EXCEPT ![h] = b]
                      /\ phase' = [phase EXCEPT ![h] = "finished"] /\ UNCHANGED loop
                 ELSE /\ phase' = [phase EXCEPT ![h] = "running"]
                      /\ loop' = [loop EXCEPT ![h] = 1] /\ UNCHANGED origin
        BY <3>5 DEF Begin
      <4>2. boot'[h] = b /\ origin'[h] \in {origin[h], b} /\ phase'[h] # "idle"
        BY <2>1, <4>1 DEF Typed
      <4>3. origin[h] = None
        BY <3>2, <3>5 DEF Begin
      <4>4. ASSUME Mode[h] = "merge"
            PROVE  /\ \A i \in DOMAIN SourceIds(h) : phase[SourceIds(h)[i]] = "finished"
                   /\ boot'[h] \in MergeBoots(SourceAnchors(h))
        <5>1. Bootstraps(h) = MergeBoots(SourceAnchors(h))
          BY <4>4 DEF Bootstraps
        <5> QED
          BY <1>2, <3>1, <3>5, <4>2, <4>4, <5>1, SourcesFinished
      <4> QED
        BY <3>3, <3>5, <4>2, <4>3, <4>4
    <3>6. CASE g = h /\ ~Begin(h)
      <4>1. phase[h] = "running" /\ boot' = boot /\ (RecordCycle(h) \/ origin' = origin)
            /\ phase'[h] # "idle"
        BY <2>1, <2>4, <3>6 DEF GiveUp, Loop, Typed
      <4>2. origin'[h] \in {origin[h], boot[h]}
        BY <2>1, <4>1 DEF RecordCycle, Typed
      <4> QED
        BY <3>2, <3>3, <3>6, <4>1, <4>2 DEF Planned
    <3> QED
      BY <3>4, <3>5, <3>6
  <2> QED
    BY <1>2, <2>2, <2>3, <2>4 DEF Next, FirstPlans
<1> QED
  BY <1>1, <1>2, Invariance, PTL DEF Spec

(* A group with a cycle on record of which nothing is shown: no clean commit, *)
(* and it does not select.                                                    *)
Bare(s) == origin[s] # None /\ ~HasOwnPoint(s) /\ ~(Mode[s] = "merge" /\ Budget[s] = 0)
SourcesShow(g) == Mode[g] = "merge" => \A i \in DOMAIN SourceIds(g) : ~Bare(SourceIds(g)[i])

(* A build of the first invocation.                                           *)
FirstBuild == Inv /\ AllStepped /\ FirstPlans /\ invocations = 1

(* The plan that is drawn is the one that would be made now.                  *)
LEMMA PlanFacts ==
  ASSUME FirstBuild, NEW g \in Group, MergePlan(g) # None
  PROVE  /\ Mode[g] = "merge" /\ Resolved(SourceAnchors(g)) # {} /\ MergePlan(g) = MergeBoot(SourceAnchors(g))
         /\ InheritAnchor(g) # None
         /\ InheritAnchor(g).commit = MergePlan(g).start /\ InheritAnchor(g).parent = MergePlan(g).parent
<1>1. Mode[g] = "merge"
  BY DEF MergePlan
<1>2. \A b \in MergeBoots(SourceAnchors(g)) : Resolved(SourceAnchors(g)) # {} /\ b = MergeBoot(SourceAnchors(g))
  BY DEF MergeBoots
<1>3. CASE Recorded(g)
  <2>1. MergePlan(g) = boot[g] /\ boot[g] # None
    BY <1>1, <1>3 DEF MergePlan
  <2>2. boot[g] \in MergeBoots(SourceAnchors(g)) /\ origin[g] = boot[g]
    BY <1>1, <1>3, <2>1 DEF FirstBuild, FirstPlans, Planned, Recorded
  <2>3. PICK b : b = boot[g]
    OBVIOUS
  <2>4. InheritAnchor(g) = AnchorOf(b, Maker(b.start), ParentLoop(b.parent, b.start))
    BY <1>1, <1>3, <2>2, <2>3 DEF InheritAnchor
  <2>5. StartKept(g, b) /\ b # None /\ CommitsKept
    BY <2>1, <2>3 DEF FirstBuild, Inv, Typed, GroupKept, StartsKept
  <2>6. InheritAnchor(g) # None /\ InheritAnchor(g).commit = b.start /\ InheritAnchor(g).parent = b.parent
    BY <2>4, <2>5, BranchOf
  <2> QED
    BY <1>1, <1>2, <2>1, <2>2, <2>3, <2>6
<1>4. CASE ~Recorded(g)
  <2>1. MergePlan(g) = Now(g) /\ Now(g) # None
    BY <1>1, <1>4 DEF MergePlan
  <2>2. Now(g) \in Bootstraps(g) /\ Bootstraps(g) = MergeBoots(SourceAnchors(g))
    BY <1>1, <2>1, NowFacts DEF Bootstraps
  <2>3. PICK b : b = Now(g)
    OBVIOUS
  <2>4. InheritAnchor(g) = AnchorOf(b, None, 0)
    BY <1>1, <1>4, <2>3 DEF InheritAnchor
  <2>5. StartKept(g, b) /\ b # None /\ CommitsKept
    BY <2>1, <2>2, <2>3, BootStarts DEF FirstBuild, Inv, Typed
  <2>6. InheritAnchor(g) # None /\ InheritAnchor(g).commit = b.start /\ InheritAnchor(g).parent = b.parent
    BY <2>4, <2>5, BranchOf
  <2> QED
    BY <1>1, <1>2, <2>1, <2>2, <2>3, <2>6
<1> QED
  BY <1>3, <1>4

(* A group with points of its own shows the anchor that it lends.             *)
LEMMA OwnPointShows ==
  ASSUME Inv, NEW s \in Group, HasOwnPoint(s), PolicyAnchor(TopPolicy[s], s) # None
  PROVE  Shows(Winner(s), PolicyAnchor(TopPolicy[s], s).ref)
<1> DEFINE a == PolicyAnchor(TopPolicy[s], s)
<1>1. Winner(s) = PolicyWinner(a)
  BY DEF Winner
<1>2. GoodAnchor(a)
  BY StudyAssumption, PolicyFacts DEF Inv, Typed
<1> HIDE DEF a
<1>3. Winner(s) = [commit |-> a.ref, step |-> a.step, baseline |-> a.owner = None /\ a.step = 0]
  BY <1>1 DEF PolicyWinner, a
<1>4. Winner(s) \in TopCommit
  <2>1. a.ref \in Commit /\ a.step \in Nat
    BY <1>2 DEF GoodAnchor, Anchor
  <2> QED
    BY <1>3, <2>1 DEF TopCommit
<1>5. Winner(s) # None /\ Winner(s).commit = a.ref
  BY <1>3, <1>4, NothingShown
<1> QED
  BY <1>5 DEF Shows, a

(* A source shows as its top commit what it lends to a merge.                 *)
LEMMA SourceShowsAnchor ==
  ASSUME FirstBuild, NEW g \in Group, Mode[g] = "merge", SourcesShow(g),
         NEW i \in Resolved(SourceAnchors(g)), SourceAnchors(g)[i].owner # None
  PROVE  Shows(Winner(SourceIds(g)[i]), SourceAnchors(g)[i].ref)
<1> DEFINE a == SourceAnchors(g)[i]
<1>1. PICK s \in Group : s = SourceIds(g)[i]
  BY SourceAnchorFacts DEF FirstBuild, Inv, Typed, OriginsKept
<1>2. CommitsKept /\ origin[s] \in Bootstrap \cup {None} /\ TopPolicy[s] \in {"best_commit", "last_commit"}
  BY StudyAssumption DEF FirstBuild, Inv, Typed
<1>3. a = PolicyAnchor(TopPolicy[s], s) /\ a # None /\ i \in DOMAIN SourceIds(g)
  BY <1>1, SourceAnchorFacts DEF FirstBuild, Inv, Typed, OriginsKept
<1> HIDE DEF a
<1>4. CASE HasOwnPoint(s)
  BY <1>1, <1>3, <1>4, OwnPointShows DEF FirstBuild, a
<1>5. CASE ~HasOwnPoint(s)
  <2>1. CleanCommits(s) = {}
    BY <1>5 DEF HasOwnPoint
  <2>2. a = OriginAnchor(s)
    BY <1>2, <1>3, <2>1, PolicyFacts
  <2>3. /\ origin[s] # None /\ origin[s].owner # None
        /\ a.ref = origin[s].start /\ a.step = origin[s].step
    BY <2>2, OriginOwner DEF FirstBuild, a
  <2>4. Mode[s] = "merge" /\ Budget[s] = 0
    BY <1>1, <1>3, <1>5, <2>3 DEF SourcesShow, Bare
  <2>5. PICK b : b = boot[s]
    OBVIOUS
  <2>6. origin[s] = b /\ b \in MergeBoots(SourceAnchors(s)) /\ b.step > 0
    BY <2>3, <2>4, <2>5 DEF FirstBuild, FirstPlans, Planned, AllStepped
  <2>7. Bootstraps(s) = {b}
    BY <2>4, <2>6 DEF Bootstraps, MergeBoots
  <2>8. Now(s) = b
    BY <2>7 DEF Now, AnyOf
  <2>9. b # None /\ b.step # 0
    BY <2>3, <2>6
  <2>10. Winner(s) = SelectWinner(b)
    BY <1>5, <2>4, <2>8 DEF Winner
  <2>11. Winner(s) = [commit |-> b.start, step |-> b.step, baseline |-> FALSE]
    BY <2>9, <2>10 DEF SelectWinner
  <2>12. Winner(s) \in TopCommit
    <3>1. b \in Bootstrap
      BY <1>2, <2>6, <2>9
    <3>2. b.start \in Commit /\ b.step \in Nat
      BY <3>1 DEF Bootstrap
    <3> QED
      BY <2>11, <3>2 DEF TopCommit
  <2>13. Winner(s) # None
    BY <2>12, NothingShown
  <2>14. Winner(s).commit = a.ref
    BY <2>3, <2>6, <2>11
  <2> QED
    BY <1>1, <2>13, <2>14 DEF Shows, a
<1> QED
  BY <1>4, <1>5

(* The planned source of a commit is the first of the sources that show it.   *)
LEMMA PlannedSourceFacts ==
  ASSUME NEW g \in Group, NEW c
  PROVE  LET s == PlannedSource(g, c)  sources == {SourceIds(g)[i] : i \in DOMAIN SourceIds(g)} IN
         /\ (\E i \in DOMAIN SourceIds(g) : Shows(Winner(SourceIds(g)[i]), c)) => s # None
         /\ s # None => s \in sources /\ s \in Group /\ Shows(Winner(s), c)
<1> DEFINE C == {i \in DOMAIN SourceIds(g) : Shows(Winner(SourceIds(g)[i]), c)}
           R == {e \in C \X C : e[1] < e[2]}
           first == CHOOSE i \in C : \A j \in C : i <= j
<1>1. PlannedSource(g, c) = IF C = {} THEN None ELSE SourceIds(g)[first]
  BY DEF PlannedSource, FirstOf
<1>2. ASSUME C # {}
      PROVE  first \in C
  <2>1. IsFiniteSet(C) /\ \A i \in C : i \in Nat
    BY SourceFacts, FS_Subset
  <2> HIDE DEF C
  <2>2. \A i \in C : <<i, i>> \notin R
    BY <2>1
  <2>3. \A i, j, k \in C : <<i, j>> \in R /\ <<j, k>> \in R => <<i, k>> \in R
    BY <2>1
  <2>4. PICK i \in C : \A j \in C : <<j, i>> \notin R
    <3> HIDE DEF R
    <3> QED
      BY <1>2, <2>1, <2>2, <2>3, Extremum
  <2>5. ASSUME NEW j \in C
        PROVE  i <= j
    <3>1. <<j, i>> \in C \X C /\ <<j, i>>[1] = j /\ <<j, i>>[2] = i
      BY <2>4
    <3>2. ~(j < i)
      BY <2>4, <3>1
    <3> QED
      BY <2>1, <2>4, <3>2
  <2> QED
    BY <2>4, <2>5
<1>3. ASSUME C # {}
      PROVE  LET s == PlannedSource(g, c) IN
             /\ s # None /\ s \in Group /\ Shows(Winner(s), c)
             /\ s \in {SourceIds(g)[i] : i \in DOMAIN SourceIds(g)}
  <2>1. PICK i \in C : i = first
    BY <1>2, <1>3
  <2>2. PlannedSource(g, c) = SourceIds(g)[i]
    BY <1>1, <1>3, <2>1
  <2> QED
    BY <2>2, SourceFacts, StudyAssumption
<1> QED
  BY <1>1, <1>3

(* What is folded in is at a commit of another group than the base, and of    *)
(* the anchors of the sources.                                                *)
LEMMA FoldInFacts ==
  ASSUME FirstBuild, NEW g \in Group, SourcesShow(g), MergePlan(g) # None, NEW f \in MergePlan(g).foldIns
  PROVE  /\ f = [owner |-> f.commit[1], commit |-> f.commit] /\ f.commit # MergePlan(g).start
         /\ \E i \in DOMAIN SourceIds(g) : Shows(Winner(SourceIds(g)[i]), f.commit)
<1> DEFINE anchors == SourceAnchors(g)
           k == Strongest(anchors)
           base == anchors[k]
           adds == {i \in Resolved(anchors) \ {k} : ~NoOp(anchors[i], base)}
<1>1. MergePlan(g) = MergeBoot(anchors) /\ Mode[g] = "merge" /\ CommitsKept /\ OriginsKept
  BY PlanFacts DEF FirstBuild, Inv, Typed, OriginsKept
<1>2. /\ MergeBoot(anchors).start = base.ref
      /\ MergeBoot(anchors).foldIns = {[owner |-> anchors[i].owner, commit |-> anchors[i].ref] : i \in adds}
  BY DEF MergeBoot
<1>3. PICK i \in adds : f = [owner |-> anchors[i].owner, commit |-> anchors[i].ref]
  BY <1>1, <1>2
<1>4. PICK s : s = anchors[i] /\ i \in Resolved(anchors) /\ ~NoOp(s, base)
                /\ f = [owner |-> s.owner, commit |-> s.ref]
  BY <1>3
<1>5. s.owner # None /\ s.ref # base.ref
  BY <1>4 DEF NoOp
<1>6. GoodAnchor(s) /\ i \in DOMAIN SourceIds(g)
  BY <1>1, <1>4, SourceAnchorFacts
<1>7. s.ref[1] = s.owner
  <2>1. s.owner \in Group /\ s.ref \in CleanCommits(s.owner)
    BY <1>5, <1>6 DEF GoodAnchor, Anchor
  <2> QED
    BY <1>1, <2>1, CleanFacts, MadeFacts
<1>8. Shows(Winner(SourceIds(g)[i]), s.ref)
  BY <1>1, <1>4, <1>5, SourceShowsAnchor
<1>9. f.commit = s.ref /\ f.owner = s.owner /\ MergePlan(g).start = base.ref
  BY <1>1, <1>2, <1>4
<1> QED
  BY <1>4, <1>5, <1>6, <1>7, <1>8, <1>9

(* One fold-in is listed before the others.                                   *)
LEMMA FirstFacts ==
  ASSUME CommitsKept, OriginsKept, NEW g \in Group
  PROVE  LET plan == MergeBoot(SourceAnchors(g)) IN
         plan.foldIns # {} => \E f \in plan.foldIns : plan.first = {f}
<1> DEFINE anchors == SourceAnchors(g)
           plan == MergeBoot(anchors)
           k == Strongest(anchors)
           Value(i) == anchors[i].value
           Fold(i) == [owner |-> anchors[i].owner, commit |-> anchors[i].ref]
           adds == {i \in Resolved(anchors) \ {k} : ~NoOp(anchors[i], anchors[k])}
           Before(i, j) == Better(Value(i), Value(j)) \/ (Value(i) = Value(j) /\ i < j)
           least == {i \in adds : \A j \in adds : ~Before(j, i)}
           R == {e \in adds \X adds : Before(e[1], e[2])}
<1>1. plan.foldIns = {Fold(i) : i \in adds} /\ plan.first = {Fold(i) : i \in least}
  BY DEF MergeBoot
<1>2. ASSUME NEW i \in adds
      PROVE  i \in Nat /\ Value(i) \in Nat
  BY SourceAnchorFacts, SourceFacts, ScoreAssumption DEF GoodAnchor, Anchor
<1>3. IsFiniteSet(adds)
  <2>1. adds \in SUBSET (DOMAIN SourceIds(g))
    BY SourceAnchorFacts
  <2> HIDE DEF adds
  <2> QED
    BY <2>1, SourceFacts, FS_Subset
<1> HIDE DEF adds, Fold, Value, plan
<1>4. \A i, j, l \in adds : /\ ~Before(i, i) /\ (Before(i, j) /\ Before(j, l) => Before(i, l))
                            /\ Before(i, j) \/ Before(j, i) \/ i = j
  <2> TAKE i, j, l \in adds
  <2>1. i \in Nat /\ j \in Nat /\ l \in Nat /\ Value(i) \in Nat /\ Value(j) \in Nat /\ Value(l) \in Nat
    BY <1>2
  <2> QED
    BY <2>1, BetterOrder
<1>5. \A i, j \in adds : <<i, j>> \in R <=> Before(i, j)
  OBVIOUS
<1> HIDE DEF Before, R
<1>6. ASSUME adds # {}
      PROVE  \E i \in adds : least = {i}
  <2>1. PICK i \in adds : \A j \in adds : <<j, i>> \notin R
    BY <1>3, <1>4, <1>5, <1>6, Extremum
  <2>2. i \in least
    BY <1>5, <2>1
  <2>3. \A j \in least : j = i
    BY <1>4, <2>1, <2>2
  <2> QED
    BY <2>2, <2>3
<1>7. ASSUME plan.foldIns # {}
      PROVE  \E f \in plan.foldIns : plan.first = {f}
  <2>1. adds # {}
    BY <1>1, <1>7
  <2>2. PICK i \in adds : least = {i}
    BY <1>6, <2>1
  <2>3. Fold(i) \in plan.foldIns /\ plan.first = {Fold(i)}
    BY <1>1, <2>2
  <2> QED
    BY <2>3
<1> QED
  BY <1>7 DEF plan

(* The base of a merge is none of what it folds in.                           *)
LEMMA BaseFacts ==
  ASSUME FirstBuild, NEW g \in Group, SourcesShow(g), MergePlan(g) # None
  PROVE  \/ Shows(Winner(LineageParent(g)), MergePlan(g).start)
         \/ LineageParent(g) = None
<1> DEFINE anchors == SourceAnchors(g)
           k == Strongest(anchors)
           base == anchors[k]
           a == InheritAnchor(g)
<1>1. /\ MergePlan(g) = MergeBoot(anchors) /\ Resolved(anchors) # {} /\ Mode[g] = "merge"
      /\ a # None /\ a.commit = MergePlan(g).start /\ a.parent = MergePlan(g).parent
      /\ CommitsKept /\ OriginsKept
  BY PlanFacts DEF FirstBuild, Inv, Typed, OriginsKept
<1>2. k \in Resolved(anchors)
  BY <1>1, StrongestFacts
<1>3. MergePlan(g).start = base.ref /\ MergePlan(g).parent = base.owner
  BY <1>1 DEF MergeBoot
<1>4. LineageParent(g) = OrElse(PlannedSource(g, base.ref), base.owner)
  BY <1>1, <1>3 DEF LineageParent, ParentBy
<1>5. CASE PlannedSource(g, base.ref) # None
  <2>1. LineageParent(g) = PlannedSource(g, base.ref)
    BY <1>4, <1>5 DEF OrElse
  <2>2. Shows(Winner(PlannedSource(g, base.ref)), base.ref)
    BY <1>5, PlannedSourceFacts
  <2> QED
    BY <1>3, <2>1, <2>2
<1>6. CASE PlannedSource(g, base.ref) = None
  <2>1. LineageParent(g) = base.owner
    BY <1>4, <1>6 DEF OrElse
  <2>2. k \in DOMAIN SourceIds(g)
    BY <1>1, <1>2, SourceAnchorFacts
  <2>3. ~Shows(Winner(SourceIds(g)[k]), base.ref)
    BY <1>6, <2>2, PlannedSourceFacts
  <2>4. base.owner = None
    BY <1>1, <1>2, <2>3, SourceShowsAnchor
  <2> QED
    BY <2>1, <2>4
<1> QED
  BY <1>5, <1>6

LEMMA ArrowsDrawn ==
  ASSUME FirstBuild, NEW g \in Group, SourcesShow(g)
  PROVE  FoldInsDrawn(g)
<1> SUFFICES ASSUME MergePlan(g) # None
             PROVE  /\ Secondary(g) \subseteq {SourceIds(g)[i] : i \in DOMAIN SourceIds(g)}
                    /\ Cardinality(Secondary(g)) =
                         Cardinality(MergePlan(g).foldIns)
                           - (IF MergePlan(g).owner = None /\ MergePlan(g).foldIns # {} THEN 1 ELSE 0)
                    /\ LineageParent(g) \notin Secondary(g)
  BY DEF FoldInsDrawn
<1> DEFINE F == FoldIns(MergePlan(g))
           S == {SourceIds(g)[i] : i \in DOMAIN SourceIds(g)}
           from == [f \in F |-> FoldInSource(g, f)]
<1>1. Secondary(g) = {FoldInSource(g, f) : f \in F}
  BY DEF Secondary
<1>2. ASSUME NEW f \in MergePlan(g).foldIns
      PROVE  /\ FoldInSource(g, f) \in S /\ FoldInSource(g, f) \in Group
             /\ Shows(Winner(FoldInSource(g, f)), f.commit) /\ f.commit # MergePlan(g).start
             /\ f = [owner |-> f.commit[1], commit |-> f.commit]
  <2>1. PlannedSource(g, f.commit) # None
    BY FoldInFacts, PlannedSourceFacts
  <2>2. FoldInSource(g, f) = PlannedSource(g, f.commit)
    BY <2>1 DEF FoldInSource, OrElse
  <2> QED
    BY <2>1, <2>2, FoldInFacts, PlannedSourceFacts
<1>3. \A w, c, d : Shows(w, c) /\ Shows(w, d) => c = d
  BY DEF Shows
<1>6. F \subseteq MergePlan(g).foldIns
  BY DEF FoldIns
<1>7. IsFiniteSet(MergePlan(g).foldIns)
  <2> DEFINE all == [f \in MergePlan(g).foldIns |-> FoldInSource(g, f)]
  <2>1. \A f \in MergePlan(g).foldIns : all[f] = FoldInSource(g, f) /\ all[f] \in Group
    BY <1>2
  <2>2. all \in [MergePlan(g).foldIns -> Group]
    BY <2>1
  <2> HIDE DEF all
  <2>3. ASSUME NEW e \in MergePlan(g).foldIns, NEW f \in MergePlan(g).foldIns, all[e] = all[f]
        PROVE  e = f
    <3>1. e.commit = f.commit
      BY <1>2, <1>3, <2>1, <2>3
    <3> QED
      BY <1>2, <3>1
  <2>4. all \in Injection(MergePlan(g).foldIns, Group)
    BY <2>2, <2>3 DEF Injection, IsInjective
  <2> QED
    BY <2>4, StudyAssumption, FS_Injection
<1>8. Cardinality(F) = Cardinality(MergePlan(g).foldIns)
                         - (IF MergePlan(g).owner = None /\ MergePlan(g).foldIns # {} THEN 1 ELSE 0)
  <2>1. Cardinality(MergePlan(g).foldIns) \in Nat
    BY <1>7, FS_CardinalityType
  <2>2. CASE MergePlan(g).owner # None
    BY <2>1, <2>2 DEF FoldIns
  <2>3. CASE MergePlan(g).owner = None
    <3>1. F = MergePlan(g).foldIns \ MergePlan(g).first
      BY <2>3 DEF FoldIns
    <3>2. CASE MergePlan(g).foldIns = {}
      BY <2>1, <3>1, <3>2
    <3>3. CASE MergePlan(g).foldIns # {}
      <4>1. PICK f \in MergePlan(g).foldIns : MergePlan(g).first = {f}
        BY <3>3, PlanFacts, FirstFacts DEF FirstBuild, Inv, Typed, OriginsKept
      <4>2. F = MergePlan(g).foldIns \ {f}
        BY <3>1, <4>1
      <4> HIDE DEF F
      <4>3. Cardinality(F) = Cardinality(MergePlan(g).foldIns) - 1
        BY <1>7, <4>1, <4>2, FS_RemoveElement
      <4> QED
        BY <2>3, <3>3, <4>3
    <3> QED
      BY <3>2, <3>3
  <2> QED
    BY <2>2, <2>3
<1> HIDE DEF F, S
<1>4. Cardinality(Secondary(g)) = Cardinality(F)
  <2>1. \A f \in F : from[f] = FoldInSource(g, f)
    OBVIOUS
  <2>2. from \in [F -> Secondary(g)]
    BY <1>1
  <2> HIDE DEF from
  <2>3. ASSUME NEW e \in F, NEW f \in F, from[e] = from[f]
        PROVE  e = f
    <3>1. e.commit = f.commit
      BY <1>2, <1>3, <1>6, <2>1, <2>3
    <3> QED
      BY <1>2, <1>6, <3>1
  <2>4. \A s \in Secondary(g) : \E f \in F : from[f] = s
    BY <1>1, <2>1
  <2>6. IsFiniteSet(F)
    BY <1>6, <1>7, FS_Subset
  <2>7. from \in Bijection(F, Secondary(g))
    BY <2>2, <2>3, <2>4 DEF Bijection, Injection, Surjection, IsInjective
  <2>8. ExistsBijection(F, Secondary(g))
    BY <2>7 DEF ExistsBijection
  <2> QED
    BY <2>6, <2>8, FS_Bijection
<1>5. ASSUME NEW f \in F, LineageParent(g) = FoldInSource(g, f)
      PROVE  FALSE
  <2>1. LineageParent(g) \in Group /\ Shows(Winner(LineageParent(g)), f.commit)
    BY <1>2, <1>5, <1>6
  <2>2. LineageParent(g) # None
    BY <2>1, StudyAssumption
  <2>3. Shows(Winner(LineageParent(g)), MergePlan(g).start)
    BY <2>2, BaseFacts
  <2> QED
    BY <1>2, <1>3, <1>6, <2>1, <2>3
<1> QED
  BY <1>1, <1>2, <1>4, <1>5, <1>6, <1>8 DEF S

(* The arrows into a merge come from its sources, none from its base, and one *)
(* for each commit folded in, or one less above the baseline, in every study  *)
(* and at any time until a resume, while each of its sources shows something  *)
(* or has not recorded a cycle.                                               *)
THEOREM FoldInsDrawnOnce == Spec => [](invocations = 1 => \A g \in Group : SourcesShow(g) => FoldInsDrawn(g))
<1>1. Inv /\ AllStepped /\ FirstPlans =>
        (invocations = 1 => \A g \in Group : SourcesShow(g) => FoldInsDrawn(g))
  BY ArrowsDrawn DEF FirstBuild
<1> QED
  BY <1>1, Invariance, SteppedInvariant, PlansInvariant, PTL

(* So they are all as they should be when no source is bare.                  *)
THEOREM ArrowsAreRight == Spec => []((\A g \in Group : SourcesShow(g)) => FoldInsAreDrawn)
<1>1. (invocations = 1 => \A g \in Group : SourcesShow(g) => FoldInsDrawn(g))
        => ((\A g \in Group : SourcesShow(g)) => FoldInsAreDrawn)
  BY DEF FoldInsAreDrawn
<1> QED
  BY <1>1, FoldInsDrawnOnce, PTL


------------------------------------------------------------------------------
(* Iteration.                                                                 *)

(* A set of natural numbers has a least element.                              *)
LEMMA Least ==
  ASSUME NEW S, S \subseteq Nat, S # {}
  PROVE  \E m \in S : \A k \in S : m <= k
<1> DEFINE R == OpToRel(<, Nat)
<1>1. PICK m \in S : \A k \in S : <<k, m>> \notin R
  <2>1. IsWellFoundedOn(R, Nat)
    BY NatLessThanWellFounded
  <2> HIDE DEF R
  <2> QED
    BY <2>1, WFMin
<1>2. \A k \in S : ~(k < m)
  BY <1>1 DEF OpToRel
<1> HIDE DEF R
<1> QED
  BY <1>2

(* The natural numbers are the least set that has 0 and every successor.      *)
LEMMA Induction ==
  ASSUME NEW S, 0 \in S, \A n \in Nat : n \in S => n + 1 \in S
  PROVE  Nat \subseteq S
<1>1. SUFFICES ASSUME Nat \ S # {}
               PROVE  FALSE
  OBVIOUS
<1>2. PICK m \in Nat \ S : \A k \in Nat \ S : m <= k
  BY <1>1, Least
<1>3. m # 0
  BY <1>2
<1>4. m - 1 \in Nat /\ (m - 1) + 1 = m
  BY <1>3
<1>5. m - 1 \in S
  BY <1>2, <1>4
<1> QED
  BY <1>4, <1>5

(* A function on the natural numbers may be defined by its first value and    *)
(* by what makes each value out of the one before.                            *)
Steps(S) == [S \X Nat -> S]
Iterates(f, S, a, step) ==
  f \in [Nat -> S] /\ f[0] = a /\ \A n \in Nat : f[n + 1] = step[<<f[n], n + 1>>]

(* A step function can be iterated from any start: induction over the data,   *)
(* by the least counterexample of a set.                                      *)
LEMMA Recursion ==
  ASSUME NEW S, NEW a \in S, NEW step \in Steps(S)
  PROVE  \E f : Iterates(f, S, a, step)
<1> step \in [S \X Nat -> S]
  BY DEF Steps
<1> DEFINE G(n) == {g \in [0 .. n -> S] : g[0] = a /\ \A i \in 1 .. n : g[i] = step[<<g[i - 1], i>>]}
           Some == {n \in Nat : G(n) # {}}
<1>1. Nat \subseteq Some
  <2>1. 0 \in Some
    <3>1. [i \in 0 .. 0 |-> a] \in G(0)
      OBVIOUS
    <3> QED
      BY <3>1
  <2>2. ASSUME NEW n \in Nat, n \in Some
        PROVE  n + 1 \in Some
    <3>1. PICK g \in G(n) : TRUE
      BY <2>2
    <3> DEFINE h == [i \in 0 .. n + 1 |-> IF i <= n THEN g[i] ELSE step[<<g[n], n + 1>>]]
    <3>2. g \in [0 .. n -> S] /\ g[0] = a /\ \A i \in 1 .. n : g[i] = step[<<g[i - 1], i>>]
      BY <3>1
    <3>3. step[<<g[n], n + 1>>] \in S
      BY <3>2
    <3>4. h \in [0 .. n + 1 -> S]
      BY <3>2, <3>3
    <3>5. h[0] = a /\ \A i \in 1 .. n + 1 : h[i] = step[<<h[i - 1], i>>]
      <4>1. h[0] = a
        BY <3>2
      <4>2. ASSUME NEW i \in 1 .. n + 1
            PROVE  h[i] = step[<<h[i - 1], i>>]
        <5>1. i - 1 \in 0 .. n /\ h[i - 1] = g[i - 1]
          OBVIOUS
        <5>2. CASE i <= n
          BY <3>2, <5>1, <5>2
        <5>3. CASE i = n + 1
          <6>1. h[n + 1] = step[<<g[n], n + 1>>] /\ h[i - 1] = g[n] /\ h[i] = h[n + 1]
            BY <5>1, <5>3
          <6> QED
            BY <5>3, <6>1
        <5> QED
          BY <5>2, <5>3
      <4> QED
        BY <4>1, <4>2
    <3>6. h \in G(n + 1)
      BY <3>4, <3>5
    <3> HIDE DEF G, h
    <3> QED
      BY <3>6
  <2> HIDE DEF Some
  <2> QED
    BY <2>1, <2>2, Induction
<1>2. ASSUME NEW m \in Nat, NEW n \in Nat, NEW g \in G(m), NEW h \in G(n)
      PROVE  \A i \in Nat : i <= m /\ i <= n => g[i] = h[i]
  <2> DEFINE Same == {i \in Nat : i <= m /\ i <= n => g[i] = h[i]}
  <2>1. 0 \in Same
    OBVIOUS
  <2>2. ASSUME NEW i \in Nat, i \in Same
        PROVE  i + 1 \in Same
    <3>1. CASE i + 1 <= m /\ i + 1 <= n
      <4>1. g[i] = h[i] /\ i + 1 \in 1 .. m /\ i + 1 \in 1 .. n
        BY <2>2, <3>1
      <4>2. g[i + 1] = step[<<g[i + 1 - 1], i + 1>>] /\ h[i + 1] = step[<<h[i + 1 - 1], i + 1>>]
        BY <4>1
      <4> QED
        BY <4>1, <4>2
    <3> QED
      BY <3>1
  <2>3. Nat \subseteq Same
    <3> HIDE DEF Same
    <3> QED
      BY <2>1, <2>2, Induction
  <2> QED
    BY <2>3
<1> DEFINE upTo(n) == CHOOSE g \in G(n) : TRUE
           f == [n \in Nat |-> upTo(n)[n]]
<1>3. ASSUME NEW n \in Nat
      PROVE  upTo(n) \in G(n)
  BY <1>1
<1>4. f \in [Nat -> S]
  <2>1. ASSUME NEW n \in Nat
        PROVE  upTo(n)[n] \in S
    <3>1. upTo(n) \in [0 .. n -> S]
      BY <1>3
    <3> HIDE DEF upTo
    <3> QED
      BY <3>1
  <2> HIDE DEF upTo
  <2> QED
    BY <2>1
<1>5. f[0] = a
  <2>1. upTo(0) \in G(0)
    BY <1>3
  <2> HIDE DEF upTo
  <2> QED
    BY <2>1
<1>6. ASSUME NEW n \in Nat
      PROVE  f[n + 1] = step[<<f[n], n + 1>>]
  <2>1. upTo(n) \in G(n) /\ upTo(n + 1) \in G(n + 1) /\ n + 1 \in Nat /\ n + 1 \in 1 .. n + 1
    <3>1. n + 1 \in Nat /\ n + 1 \in 1 .. n + 1
      OBVIOUS
    <3> HIDE DEF upTo, G
    <3> QED
      BY <1>3, <3>1
  <2>2. upTo(n + 1)[n + 1] = step[<<upTo(n + 1)[(n + 1) - 1], n + 1>>]
    <3> HIDE DEF upTo
    <3> QED
      BY <2>1
  <2>3. upTo(n + 1)[n] = upTo(n)[n]
    <3>1. n <= n /\ n <= n + 1
      OBVIOUS
    <3> HIDE DEF G, upTo
    <3> QED
      BY <1>2, <2>1, <3>1
  <2> HIDE DEF upTo
  <2> QED
    BY <2>1, <2>2, <2>3
<1> QED
  <2> HIDE DEF f
  <2>1. Iterates(f, S, a, step)
    BY <1>4, <1>5, <1>6 DEF Iterates
  <2> QED
    BY <2>1


------------------------------------------------------------------------------
(* The map of the areas.                                                      *)

LeavesOf(a) == {h \in Group : Role[h] = "leaf" /\ Area[h] = a}
CollapsesOf(a) == {h \in Group : Role[h] = "collapse" /\ Area[h] = a}
Standing == {g \in Group : Role[g] # "final_merge"}

(* A condition on the study, which desugaring gives to areas that merge no    *)
(* others: an area is one leaf, or leaves alike and what joins them, and who  *)
(* inherits does so from what stands for an area.                             *)
FannedOut ==
  /\ \A g \in Group : /\ Role[g] \in {"leaf", "collapse", "final_merge"}
                      /\ Area[g] # None /\ \E i \in DOMAIN Order : Order[i] = g
  /\ \A g, h \in Group : Role[g] = "final_merge" /\ Area[g] = Area[h] => g = h
  /\ \A g \in Group : Role[g] = "collapse" =>
       Mode[g] = "merge" /\ {SourceIds(g)[i] : i \in DOMAIN SourceIds(g)} = LeavesOf(Area[g])
  /\ \A g \in Group : Role[g] = "leaf" =>
       /\ Mode[g] = "inherit" \/ (Mode[g] = "baseline" /\ Parent[g] = None)
       /\ \A h \in LeavesOf(Area[g]) : /\ Mode[h] = Mode[g] /\ Parent[h] = Parent[g]
                                       /\ h = g \/ CollapsesOf(Area[g]) # {}
  /\ \A g \in Group : Mode[g] = "inherit" =>
       Parent[g] \in Standing /\ Parent[g] = ResultGroup(Area[Parent[g]])

(* The first place in the order with a property.                              *)
LEMMA FirstPlace ==
  ASSUME NEW S, S \subseteq DOMAIN Order, S # {}
  PROVE  LET first == CHOOSE i \in S : \A j \in S : i <= j IN first \in S /\ \A j \in S : first <= j
<1>1. S \subseteq Nat
  <2>1. DOMAIN Order = 1 .. Len(Order)
    BY StudyAssumption
  <2> QED
    BY <2>1
<1> QED
  BY <1>1, Least

(* What stands for an area is its collapse, or its first and only leaf.       *)
LEMMA ResultFacts ==
  ASSUME FannedOut, NEW g \in Standing
  PROVE  LET r == ResultGroup(Area[g]) IN
         /\ r \in Standing /\ Area[r] = Area[g]
         /\ CollapsesOf(Area[g]) # {} => Role[r] = "collapse"
         /\ CollapsesOf(Area[g]) = {} => Role[r] = "leaf"
<1> DEFINE a == Area[g]
           r == ResultGroup(a)
           collapses == {h \in Group : Area[h] = a /\ Role[h] = "collapse"}
           first == CHOOSE i \in DOMAIN Order : /\ Area[Order[i]] = a
                                                /\ \A j \in 1..(i - 1) : Area[Order[j]] # a
<1>1. r = IF collapses # {} THEN CHOOSE h \in collapses : TRUE ELSE Order[first]
  BY DEF ResultGroup
<1>2. CASE collapses # {}
  <2>1. r \in collapses
    BY <1>1, <1>2
  <2> QED
    BY <2>1 DEF Standing, CollapsesOf
<1>3. CASE collapses = {}
  <2> DEFINE S == {i \in DOMAIN Order : Area[Order[i]] = a}
  <2>1. DOMAIN Order = 1 .. Len(Order) /\ Len(Order) \in Nat /\ \A i \in DOMAIN Order : Order[i] \in Group
    BY StudyAssumption
  <2>2. S # {}
    BY DEF FannedOut, Standing
  <2>3. PICK k \in S : \A j \in S : k <= j
    <3>1. S \subseteq Nat
      BY <2>1
    <3> HIDE DEF S
    <3> QED
      BY <2>2, <3>1, Least
  <2>4. \A j \in 1 .. (k - 1) : Area[Order[j]] # a
    BY <2>1, <2>3
  <2>5. first \in S
    BY <2>3, <2>4
  <2>6. r = Order[first] /\ r \in Group /\ Area[r] = a
    BY <1>1, <1>3, <2>1, <2>5
  <2>7. Role[r] # "collapse"
    BY <1>3, <2>6
  <2>8. Role[r] # "final_merge"
    BY <2>6 DEF FannedOut, Standing
  <2>9. CollapsesOf(Area[g]) = {}
    BY <1>3 DEF CollapsesOf
  <2>10. Role[r] = "leaf"
    BY <2>6, <2>7, <2>8 DEF FannedOut
  <2> QED
    BY <2>6, <2>8, <2>9, <2>10 DEF Standing
<1> QED
  BY <1>2, <1>3

(* The area above one is that of whom its leaves inherit from.                *)
LEMMA ParentAreaFacts ==
  ASSUME FannedOut, NEW h \in Group, Role[h] = "leaf"
  PROVE  /\ Mode[h] = "inherit" => Parent[h] \in Standing /\ ParentArea(Area[h]) = Area[Parent[h]]
         /\ Mode[h] # "inherit" => ParentArea(Area[h]) = None
<1> DEFINE a == Area[h]
           heirs == {i \in DOMAIN Order : /\ Area[Order[i]] = a /\ Role[Order[i]] = "leaf"
                                          /\ Parent[Order[i]] # None}
           heir == Order[CHOOSE i \in heirs : \A j \in heirs : i <= j]
<1>1. ParentArea(a) = IF heirs = {} THEN None ELSE Area[Parent[heir]]
  BY DEF ParentArea
<1>2. \A i \in DOMAIN Order : Order[i] \in Group
  BY StudyAssumption
<1>3. ASSUME NEW i \in heirs
      PROVE  Parent[Order[i]] = Parent[h] /\ Parent[h] # None
  BY <1>2 DEF FannedOut, LeavesOf
<1>4. CASE Mode[h] = "inherit"
  <2>1. Parent[h] \in Standing /\ Parent[h] # None
    BY <1>4, StudyAssumption DEF FannedOut
  <2>2. heirs # {}
    BY <2>1 DEF FannedOut
  <2>3. heirs \subseteq DOMAIN Order
    OBVIOUS
  <2>4. (CHOOSE i \in heirs : \A j \in heirs : i <= j) \in heirs
    <3> HIDE DEF heirs
    <3> QED
      BY <2>2, <2>3, FirstPlace
  <2> QED
    BY <1>1, <1>3, <1>4, <2>1, <2>2, <2>4
<1>5. CASE Mode[h] # "inherit"
  <2>1. Parent[h] = None
    BY <1>5 DEF FannedOut
  <2>2. heirs = {}
    BY <1>3, <2>1
  <2> QED
    BY <1>1, <1>5, <2>2
<1> QED
  BY <1>4, <1>5

Rank(a) == Wave[ResultGroup(a)]

(* ... and has its result earlier.                                            *)
LEMMA ParentAreaRank ==
  ASSUME FannedOut, NEW a \in Areas, ParentArea(a) # None
  PROVE  ParentArea(a) \in Areas /\ Rank(ParentArea(a)) < Rank(a)
<1> DEFINE heirs == {i \in DOMAIN Order : /\ Area[Order[i]] = a /\ Role[Order[i]] = "leaf"
                                          /\ Parent[Order[i]] # None}
<1>1. heirs # {}
  BY DEF ParentArea
<1>2. PICK h \in Group : Area[h] = a /\ Role[h] = "leaf"
  BY <1>1, StudyAssumption
<1>3. h \in Standing /\ Areas = {Area[g] : g \in Standing}
  BY <1>2 DEF Standing, Areas
<1>4. Mode[h] = "inherit" /\ Parent[h] \in Standing /\ ParentArea(a) = Area[Parent[h]]
  BY <1>2, ParentAreaFacts
<1>5. Parent[h] = ResultGroup(ParentArea(a)) /\ Wave[Parent[h]] < Wave[h]
  BY <1>4, StudyAssumption DEF FannedOut
<1>6. Wave[h] <= Wave[ResultGroup(a)] /\ ResultGroup(a) \in Group
  <2> DEFINE r == ResultGroup(a)
  <2>1. /\ r \in Group /\ Area[r] = a
        /\ CollapsesOf(a) # {} => Role[r] = "collapse"
        /\ CollapsesOf(a) = {} => Role[r] = "leaf"
    BY <1>2, <1>3, ResultFacts DEF Standing
  <2> HIDE DEF r
  <2>2. CASE CollapsesOf(a) = {}
    <3>1. r = h
      BY <1>2, <2>1, <2>2 DEF FannedOut, LeavesOf
    <3> QED
      BY <2>1, <3>1, StudyAssumption DEF r
  <2>3. CASE CollapsesOf(a) # {}
    <3>1. h \in LeavesOf(Area[r]) /\ Mode[r] = "merge"
      BY <1>2, <2>1, <2>3 DEF FannedOut, LeavesOf
    <3>2. PICK i \in DOMAIN SourceIds(r) : h = SourceIds(r)[i]
      BY <2>1, <2>3, <3>1 DEF FannedOut
    <3>3. Wave[h] < Wave[r]
      BY <2>1, <3>1, <3>2, MergeAssumption
    <3> QED
      BY <2>1, <3>3, StudyAssumption DEF r
  <2> QED
    BY <2>2, <2>3
<1>7. Wave[Parent[h]] \in Nat /\ Wave[h] \in Nat /\ Wave[ResultGroup(a)] \in Nat
  BY <1>4, <1>6, StudyAssumption DEF Standing
<1> QED
  BY <1>3, <1>4, <1>5, <1>6, <1>7 DEF Rank

(* Ancestors, one area at a time.                                             *)
Above(a) == IF a = None THEN None ELSE ParentArea(a)

LEMMA AboveFacts ==
  ASSUME FannedOut
  PROVE  /\ None \notin Areas
         /\ \A a \in Areas \cup {None} : Above(a) \in Areas \cup {None}
         /\ \A a \in Areas : Rank(a) \in Nat /\ ResultGroup(a) \in Group
         /\ \A a \in Areas : Above(a) # None => Rank(Above(a)) < Rank(a)
<1>1. None \notin Areas
  BY DEF FannedOut, Areas
<1>2. ASSUME NEW a \in Areas
      PROVE  ResultGroup(a) \in Group
  <2>1. PICK g \in Standing : a = Area[g]
    BY <1>2 DEF Areas, Standing
  <2> QED
    BY <2>1, ResultFacts DEF Standing
<1>3. \A a \in Areas : Rank(a) \in Nat
  BY <1>2, StudyAssumption DEF Rank
<1> QED
  BY <1>1, <1>2, <1>3, ParentAreaRank DEF Above

(* The way up from an area.                                                   *)
Upwards(a, up) == up = [n \in Nat |-> IF n = 0 THEN a ELSE Above(up[n - 1])]
LEMMA UpwardsFacts ==
  ASSUME FannedOut, NEW a \in Areas
  PROVE  \E up : /\ Ancestors(a) = {up[n] : n \in 1 .. Cardinality(Group)} \ {None}
                 /\ up \in [Nat -> Areas \cup {None}]
                 /\ up[0] = a /\ \A n \in Nat : up[n + 1] = Above(up[n])
<1> DEFINE S == Areas \cup {None}
           step == [p \in S \X Nat |-> Above(p[1])]
           up == CHOOSE h : Upwards(a, h)
<1>1. PICK f : Iterates(f, S, a, step)
  <2>1. step \in Steps(S)
    BY AboveFacts DEF Steps
  <2>2. a \in S
    OBVIOUS
  <2> HIDE DEF S, step
  <2> QED
    BY <2>1, <2>2, Recursion
<1>2. f \in [Nat -> S] /\ f[0] = a /\ \A n \in Nat : f[n + 1] = Above(f[n])
  <2>1. f \in [Nat -> S] /\ f[0] = a /\ \A n \in Nat : f[n + 1] = step[<<f[n], n + 1>>]
    BY <1>1 DEF Iterates
  <2>2. ASSUME NEW n \in Nat
        PROVE  step[<<f[n], n + 1>>] = Above(f[n])
    <3>1. <<f[n], n + 1>> \in S \X Nat
      BY <2>1
    <3> QED
      BY <3>1
  <2> QED
    BY <2>1, <2>2
<1>3. Upwards(a, f)
  <2>1. ASSUME NEW n \in Nat
        PROVE  f[n] = IF n = 0 THEN a ELSE Above(f[n - 1])
    <3>1. CASE n = 0
      BY <1>2, <3>1
    <3>2. CASE n # 0
      <4>1. n - 1 \in Nat /\ (n - 1) + 1 = n
        BY <3>2
      <4>2. f[(n - 1) + 1] = Above(f[n - 1])
        BY <1>2, <4>1
      <4> QED
        BY <3>2, <4>1, <4>2
    <3> QED
      BY <3>1, <3>2
  <2> QED
    BY <1>2, <2>1 DEF Upwards
<1>4. Upwards(a, up)
  <2>1. \E h : Upwards(a, h)
    BY <1>3
  <2> HIDE DEF Upwards
  <2> QED
    BY <2>1
<1>5. Ancestors(a) = {up[n] : n \in 1 .. Cardinality(Group)} \ {None}
  BY Zenon DEF Ancestors, Above, Upwards
<1> HIDE DEF up
<1>6. up[0] = a /\ \A n \in Nat : up[n + 1] = Above(up[n])
  <2>1. \A n \in Nat : n + 1 \in Nat /\ n + 1 # 0 /\ (n + 1) - 1 = n
    OBVIOUS
  <2>2. \A n \in Nat : up[n] = IF n = 0 THEN a ELSE Above(up[n - 1])
    BY <1>4 DEF Upwards
  <2> QED
    BY <2>1, <2>2
<1>7. up \in [Nat -> S]
  <2> DEFINE T == {n \in Nat : up[n] \in S}
  <2>1. 0 \in T /\ \A n \in Nat : n \in T => n + 1 \in T
    BY <1>6, AboveFacts
  <2>2. Nat \subseteq T
    <3> HIDE DEF T
    <3> QED
      BY <2>1, Induction
  <2>3. up = [n \in Nat |-> up[n]]
    BY <1>4 DEF Upwards
  <2> HIDE DEF S
  <2> QED
    BY <2>2, <2>3
<1> QED
  BY <1>5, <1>6, <1>7

(* Further up the results are earlier.                                        *)
LEMMA UpwardsFall ==
  ASSUME FannedOut, NEW up \in [Nat -> Areas \cup {None}], \A n \in Nat : up[n + 1] = Above(up[n]),
         NEW i \in Nat, NEW j \in Nat, i < j, up[j] # None
  PROVE  up[i] # None /\ Rank(up[j]) < Rank(up[i])
<1> DEFINE S == {d \in Nat : up[i + d + 1] # None => up[i] # None /\ Rank(up[i + d + 1]) < Rank(up[i])}
<1>1. 0 \in S
  <2>1. up[i + 0 + 1] = Above(up[i]) /\ up[i] \in Areas \cup {None}
    OBVIOUS
  <2> QED
    BY <2>1, AboveFacts DEF Above
<1>2. ASSUME NEW d \in Nat, d \in S
      PROVE  d + 1 \in S
  <2> SUFFICES ASSUME up[i + (d + 1) + 1] # None
               PROVE  up[i] # None /\ Rank(up[i + (d + 1) + 1]) < Rank(up[i])
    OBVIOUS
  <2> DEFINE b == up[i + d + 1]
  <2>1. i + d + 1 \in Nat /\ up[i + (d + 1) + 1] = Above(b) /\ b \in Areas \cup {None} /\ up[i] \in Areas \cup {None}
    <3>1. i + d + 1 \in Nat /\ i + (d + 1) + 1 = (i + d + 1) + 1
      OBVIOUS
    <3> QED
      BY <3>1
  <2>2. b # None /\ up[i] # None /\ Rank(b) < Rank(up[i])
    <3>1. b # None
      BY <2>1 DEF Above
    <3> QED
      BY <1>2, <3>1
  <2>3. Above(b) \in Areas /\ Rank(Above(b)) < Rank(b)
    BY <2>1, <2>2, AboveFacts
  <2>4. Rank(Above(b)) \in Nat /\ Rank(b) \in Nat /\ Rank(up[i]) \in Nat
    BY <2>1, <2>2, <2>3, AboveFacts
  <2> HIDE DEF b
  <2> QED
    BY <2>1, <2>2, <2>3, <2>4
<1>3. j - i - 1 \in S /\ i + (j - i - 1) + 1 = j
  <2>1. Nat \subseteq S
    <3> HIDE DEF S
    <3> QED
      BY <1>1, <1>2, Induction
  <2>2. j - i - 1 \in Nat /\ i + (j - i - 1) + 1 = j
    OBVIOUS
  <2> HIDE DEF S
  <2> QED
    BY <2>1, <2>2
<1>4. j - i - 1 \in Nat
  OBVIOUS
<1> QED
  BY <1>3, <1>4

(* The ancestors of an area are all that follows from the area above it, and  *)
(* no more; it is not among them.                                             *)
LEMMA AncestorFacts ==
  ASSUME FannedOut, NEW a \in Areas
  PROVE  /\ Ancestors(a) \subseteq Areas \ {a}
         /\ \A b \in {a} \cup Ancestors(a) : ParentArea(b) # None => ParentArea(b) \in Ancestors(a)
         /\ \A T : (\A b \in {a} \cup (Ancestors(a) \cap T) : ParentArea(b) # None => ParentArea(b) \in T)
                     => Ancestors(a) \subseteq T
<1> DEFINE N == Cardinality(Group)
<1>1. PICK up \in [Nat -> Areas \cup {None}] :
        /\ Ancestors(a) = {up[n] : n \in 1 .. N} \ {None}
        /\ up[0] = a /\ \A n \in Nat : up[n + 1] = Above(up[n])
  BY UpwardsFacts
<1>2. N \in Nat
  BY StudyAssumption, FS_CardinalityType
<1>3. None \notin Areas
  BY AboveFacts
<1> HIDE DEF N
<1>4. up[N] = None
  <2> SUFFICES ASSUME up[N] # None
               PROVE  FALSE
    OBVIOUS
  <2> DEFINE q == [i \in 0 .. N |-> ResultGroup(up[i])]
  <2>1. \A i \in 0 .. N : i \in Nat /\ (i < N \/ i = N)
    BY <1>2
  <2>2. \A i \in 0 .. N : up[i] # None
    BY <1>1, <1>2, <2>1, UpwardsFall
  <2>3. ASSUME NEW i \in 0 .. N, NEW j \in 0 .. N, i < j
        PROVE  q[i] # q[j]
    <3>1. Rank(up[j]) < Rank(up[i]) /\ Rank(up[i]) \in Nat /\ Rank(up[j]) \in Nat
      BY <1>1, <2>1, <2>2, <2>3, UpwardsFall, AboveFacts
    <3> QED
      BY <3>1 DEF Rank
  <2>4. q \in [0 .. N -> Group]
    BY <1>1, <2>1, <2>2, AboveFacts
  <2>5. \A i, j \in 0 .. N : q[i] = q[j] => i = j
    <3>1. \A i, j \in 0 .. N : i = j \/ i < j \/ j < i
      BY <2>1
    <3> HIDE DEF q
    <3> QED
      BY <2>3, <3>1
  <2> HIDE DEF q
  <2>6. q \in Injection(0 .. N, Group)
    BY <2>4, <2>5 DEF Injection, IsInjective
  <2>7. Cardinality(0 .. N) <= N
    BY <2>6, StudyAssumption, FS_Injection DEF N
  <2>8. Cardinality(0 .. N) = N + 1
    BY <1>2, FS_Interval
  <2> QED
    BY <1>2, <2>7, <2>8
<1>5. ASSUME NEW b \in Ancestors(a)
      PROVE  \E n \in 1 .. N : n \in Nat /\ b = up[n] /\ b # None /\ b \in Areas /\ b # a
  <2>1. PICK n \in 1 .. N : b = up[n] /\ b # None
    BY <1>1
  <2>2. n \in Nat /\ 0 < n
    BY <2>1, <1>2
  <2>3. Rank(b) < Rank(a)
    BY <1>1, <2>1, <2>2, UpwardsFall
  <2>4. Rank(a) \in Nat
    BY AboveFacts
  <2> QED
    BY <1>1, <2>1, <2>2, <2>3, <2>4
<1>6. ASSUME NEW n \in Nat, n < N, up[n] # None, ParentArea(up[n]) # None
      PROVE  ParentArea(up[n]) \in Ancestors(a)
  <2>1. up[n + 1] = ParentArea(up[n]) /\ n + 1 \in 1 .. N
    BY <1>1, <1>2, <1>6 DEF Above
  <2> QED
    BY <1>1, <1>6, <2>1
<1>7. ASSUME NEW b \in {a} \cup Ancestors(a), ParentArea(b) # None
      PROVE  ParentArea(b) \in Ancestors(a)
  <2>1. PICK n \in 0 .. N : b = up[n] /\ b # None
    <3>1. CASE b = a
      <4>1. 0 \in 0 .. N
        BY <1>2
      <4> QED
        BY <1>1, <1>3, <3>1, <4>1
    <3>2. CASE b \in Ancestors(a)
      <4>1. PICK n \in 1 .. N : b = up[n] /\ b # None
        BY <1>5, <3>2
      <4>2. n \in 0 .. N
        BY <1>2
      <4> QED
        BY <4>1, <4>2
    <3> QED
      BY <3>1, <3>2
  <2>2. n \in Nat /\ n # N /\ n <= N
    BY <1>2, <1>4, <2>1
  <2> QED
    BY <1>2, <1>6, <1>7, <2>1, <2>2
<1>8. ASSUME NEW T, \A b \in {a} \cup (Ancestors(a) \cap T) : ParentArea(b) # None => ParentArea(b) \in T
      PROVE  Ancestors(a) \subseteq T
  <2> DEFINE S == {n \in Nat : n + 1 <= N /\ up[n + 1] # None => up[n + 1] \in T}
  <2>1. 0 \in S
    BY <1>1, <1>3, <1>8 DEF Above
  <2>2. ASSUME NEW n \in Nat, n \in S
        PROVE  n + 1 \in S
    <3> SUFFICES ASSUME (n + 1) + 1 <= N, up[(n + 1) + 1] # None
                 PROVE  up[(n + 1) + 1] \in T
      OBVIOUS
    <3>1. n + 1 \in Nat /\ n + 1 \in 1 .. N /\ n + 1 <= N
      BY <1>2
    <3>2. up[(n + 1) + 1] = Above(up[n + 1])
      BY <1>1, <3>1
    <3>3. up[n + 1] # None /\ up[(n + 1) + 1] = ParentArea(up[n + 1])
      BY <3>2 DEF Above
    <3>4. up[n + 1] \in Ancestors(a) \cap T
      BY <1>1, <2>2, <3>1, <3>3
    <3> QED
      BY <1>8, <3>3, <3>4
  <2>3. Nat \subseteq S
    <3> HIDE DEF S
    <3> QED
      BY <2>1, <2>2, Induction
  <2> SUFFICES ASSUME NEW b \in Ancestors(a)
               PROVE  b \in T
    OBVIOUS
  <2>4. PICK n \in 1 .. N : b = up[n] /\ b # None
    BY <1>5
  <2>5. n - 1 \in Nat /\ (n - 1) + 1 = n /\ n <= N
    BY <1>2
  <2>6. n - 1 \in S
    BY <2>3, <2>5
  <2> QED
    BY <2>4, <2>5, <2>6
<1> QED
  BY <1>5, <1>7, <1>8

------------------------------------------------------------------------------
(* The walk along the connectors.                                             *)

(* One step of Primary.                                                       *)
Onward(g, before) == LineageParent(IF before = <<>> THEN g ELSE before[Len(before)])
Visited(before, h) == \E i \in DOMAIN before : before[i] = h
Walked(g, before, n) ==
  IF Len(before) < n - 1 \/ Onward(g, before) = None \/ Visited(before, Onward(g, before))
  THEN before ELSE Append(before, Onward(g, before))

(* What the walk has met after n steps, if it stays in A.                     *)
WalkKept(g, A, s, n) ==
  /\ s \in Seq(A) /\ Len(s) <= n
  /\ \A i, j \in 1 .. Len(s) : s[i] = s[j] => i = j
  /\ s # <<>> => s[1] = LineageParent(g)
  /\ \A i \in 1 .. Len(s) - 1 : LineageParent(s[i]) = s[i + 1]
  /\ Len(s) < n => Onward(g, s) = None \/ Visited(s, Onward(g, s))

Closed(g, A) == \A h \in {g} \cup A : LineageParent(h) # None => LineageParent(h) \in A

LEMMA WalkStep ==
  ASSUME NEW g, NEW A, Closed(g, A), NEW n \in Nat, NEW s, WalkKept(g, A, s, n)
  PROVE  WalkKept(g, A, Walked(g, s, n + 1), n + 1)
<1> DEFINE next == Onward(g, s)
           t == Append(s, next)
<1>0. (n + 1) - 1 = n
  OBVIOUS
<1>1. s \in Seq(A) /\ Len(s) \in Nat /\ Len(s) <= n /\ DOMAIN s = 1 .. Len(s)
  BY DEF WalkKept
<1>2. next # None => next \in A
  <2>1. s # <<>> => s[Len(s)] \in A
    BY <1>1
  <2> QED
    BY <2>1 DEF Closed, Onward
<1>3. CASE Len(s) < n \/ next = None \/ Visited(s, next)
  <2>1. Walked(g, s, n + 1) = s
    BY <1>0, <1>3 DEF Walked
  <2> QED
    BY <1>1, <1>3, <2>1 DEF WalkKept
<1>4. CASE ~(Len(s) < n \/ next = None \/ Visited(s, next))
  <2>1. Walked(g, s, n + 1) = t
    BY <1>0, <1>4 DEF Walked
  <2>2. next \in A /\ Len(s) = n
    <3>1. next # None /\ ~(Len(s) < n)
      BY <1>4
    <3>2. Len(s) = n
      <4>1. \A m \in Nat : m <= n /\ ~(m < n) => m = n
        OBVIOUS
      <4> QED
        BY <1>1, <3>1, <4>1
    <3> QED
      BY <1>2, <3>1, <3>2
  <2>3. /\ t \in Seq(A) /\ Len(t) = n + 1 /\ t[n + 1] = next
        /\ \A i \in 1 .. n : t[i] = s[i] /\ s[i] # next
    <3> HIDE DEF next
    <3> QED
      BY <1>1, <1>4, <2>2 DEF Visited
  <2>4. \A i, j \in 1 .. Len(t) : t[i] = t[j] => i = j
    <3> HIDE DEF t, next
    <3> QED
      BY <2>2, <2>3 DEF WalkKept
  <2>5. t # <<>> /\ t[1] = LineageParent(g)
    <3>1. CASE n = 0
      <4>1. s = <<>>
        BY <1>1, <2>2, <3>1
      <4> QED
        BY <2>3, <3>1, <4>1 DEF Onward
    <3>2. CASE n # 0
      <4>1. s # <<>> /\ 1 \in 1 .. n
        BY <1>1, <2>2, <3>2
      <4> HIDE DEF t
      <4> QED
        BY <2>3, <4>1 DEF WalkKept
    <3> QED
      BY <3>1, <3>2
  <2>6. ASSUME NEW i \in 1 .. Len(t) - 1
        PROVE  LineageParent(t[i]) = t[i + 1]
    <3>1. i \in 1 .. n /\ t[i] = s[i]
      BY <2>3
    <3>2. CASE i = n
      <4>1. s # <<>> /\ next = LineageParent(s[n])
        BY <1>1, <2>2, <3>1, <3>2 DEF Onward
      <4> QED
        BY <2>3, <3>1, <3>2, <4>1
    <3>3. CASE i # n
      <4>1. i \in 1 .. Len(s) - 1 /\ i + 1 \in 1 .. n
        BY <2>2, <3>1, <3>3
      <4>2. LineageParent(s[i]) = s[i + 1]
        BY <4>1 DEF WalkKept
      <4> HIDE DEF t
      <4> QED
        BY <2>3, <3>1, <4>1, <4>2
    <3> QED
      BY <3>2, <3>3
  <2> HIDE DEF t, next
  <2> QED
    BY <2>1, <2>3, <2>4, <2>5, <2>6 DEF WalkKept
<1> QED
  BY <1>3, <1>4

(* Primary is a walk of as many steps as there are groups.                    *)
Walks(g, hops) == hops = [n \in Nat |-> IF n = 0 THEN <<>> ELSE Walked(g, hops[n - 1], n)]
LEMMA PrimaryKept ==
  ASSUME NEW g, NEW A, Closed(g, A)
  PROVE  WalkKept(g, A, Primary(g), Cardinality(Group))
<1> DEFINE step == [p \in Seq(A) \X Nat |-> IF Walked(g, p[1], p[2]) \in Seq(A) THEN Walked(g, p[1], p[2]) ELSE p[1]]
           hops == CHOOSE h : Walks(g, h)
<1>1. PICK f : Iterates(f, Seq(A), <<>>, step)
  <2>1. step \in Steps(Seq(A))
    BY DEF Steps
  <2>2. <<>> \in Seq(A)
    OBVIOUS
  <2> HIDE DEF step
  <2> QED
    BY <2>1, <2>2, Recursion
<1>2. f \in [Nat -> Seq(A)] /\ f[0] = <<>> /\ \A n \in Nat : f[n + 1] = step[<<f[n], n + 1>>]
  BY <1>1 DEF Iterates
<1>3. ASSUME NEW n \in Nat, WalkKept(g, A, f[n], n)
      PROVE  f[n + 1] = Walked(g, f[n], n + 1) /\ WalkKept(g, A, f[n + 1], n + 1)
  <2>1. WalkKept(g, A, Walked(g, f[n], n + 1), n + 1)
    BY <1>3, WalkStep
  <2>2. Walked(g, f[n], n + 1) \in Seq(A)
    BY <2>1 DEF WalkKept
  <2>3. <<f[n], n + 1>> \in Seq(A) \X Nat
    <3>1. f[n] \in Seq(A) /\ n + 1 \in Nat
      BY <1>2
    <3> QED
      BY <3>1
  <2>4. step[<<f[n], n + 1>>] = Walked(g, f[n], n + 1)
    BY <2>2, <2>3
  <2> QED
    BY <1>2, <2>1, <2>4
<1>4. \A n \in Nat : WalkKept(g, A, f[n], n)
  <2> DEFINE T == {n \in Nat : WalkKept(g, A, f[n], n)}
  <2>1. 0 \in T
    BY <1>2 DEF WalkKept
  <2>2. \A n \in Nat : n \in T => n + 1 \in T
    BY <1>3
  <2>3. Nat \subseteq T
    <3> HIDE DEF T
    <3> QED
      BY <2>1, <2>2, Induction
  <2> QED
    BY <2>3
<1>5. Walks(g, f)
  <2>1. ASSUME NEW n \in Nat
        PROVE  f[n] = IF n = 0 THEN <<>> ELSE Walked(g, f[n - 1], n)
    <3>1. CASE n = 0
      BY <1>2, <3>1
    <3>2. CASE n # 0
      <4>1. n - 1 \in Nat /\ (n - 1) + 1 = n
        BY <3>2
      <4>2. f[(n - 1) + 1] = Walked(g, f[n - 1], (n - 1) + 1)
        BY <1>3, <1>4, <4>1
      <4> QED
        BY <3>2, <4>1, <4>2
    <3> QED
      BY <3>1, <3>2
  <2> QED
    BY <1>2, <2>1 DEF Walks
<1> HIDE DEF step
<1>6. Walks(g, hops)
  <2>1. \E h : Walks(g, h)
    BY <1>5
  <2> HIDE DEF Walks
  <2> QED
    BY <2>1
<1>7. Primary(g) = hops[Cardinality(Group)]
  BY Zenon DEF Primary, Walked, Onward, Visited, Walks
<1> HIDE DEF hops
<1>8. hops[0] = <<>> /\ \A n \in Nat : hops[n + 1] = Walked(g, hops[n], n + 1)
  <2>1. \A n \in Nat : n + 1 \in Nat /\ n + 1 # 0 /\ (n + 1) - 1 = n
    OBVIOUS
  <2>2. \A n \in Nat : hops[n] = IF n = 0 THEN <<>> ELSE Walked(g, hops[n - 1], n)
    BY <1>6 DEF Walks
  <2> QED
    BY <2>1, <2>2
<1>9. \A n \in Nat : WalkKept(g, A, hops[n], n)
  <2> DEFINE T == {n \in Nat : WalkKept(g, A, hops[n], n)}
  <2>1. 0 \in T
    BY <1>2, <1>4, <1>8
  <2>2. ASSUME NEW n \in Nat, n \in T
        PROVE  n + 1 \in T
    <3>1. WalkKept(g, A, Walked(g, hops[n], n + 1), n + 1)
      BY <2>2, WalkStep
    <3> QED
      BY <1>8, <3>1
  <2>3. Nat \subseteq T
    <3> HIDE DEF T
    <3> QED
      BY <2>1, <2>2, Induction
  <2> QED
    BY <2>3
<1> QED
  BY <1>7, <1>9, StudyAssumption, FS_CardinalityType

(* It meets all that follows from the group, and nothing else.                *)
LEMMA PrimaryFacts ==
  ASSUME NEW g \in Group, NEW A, A \subseteq Group, Closed(g, A)
  PROVE  LET met == {Primary(g)[i] : i \in DOMAIN Primary(g)} IN met \subseteq A /\ Closed(g, met)
<1> DEFINE s == Primary(g)
           N == Cardinality(Group)
           met == {s[i] : i \in DOMAIN s}
<1>1. WalkKept(g, A, s, N)
  BY PrimaryKept
<1> HIDE DEF s
<1>2. s \in Seq(A) /\ Len(s) \in Nat /\ DOMAIN s = 1 .. Len(s) /\ Len(s) <= N /\ N \in Nat /\ N # 0
  <2>1. s \in Seq(A) /\ Len(s) <= N
    BY <1>1 DEF WalkKept
  <2>2. N \in Nat /\ N # 0
    BY StudyAssumption, FS_CardinalityType, FS_EmptySet
  <2> HIDE DEF N
  <2> QED
    BY <2>1, <2>2
<1>3. met \subseteq A
  BY <1>2
<1>4. CASE Len(s) = N
  <2> DEFINE q == [i \in 1 .. N |-> s[i]]
  <2>1. q \in [1 .. N -> met]
    BY <1>2, <1>4
  <2>2. \A i, j \in 1 .. N : q[i] = q[j] => i = j
    BY <1>1, <1>4 DEF WalkKept
  <2>3. q \in Injection(1 .. N, met)
    <3> HIDE DEF q, met
    <3> QED
      BY <2>1, <2>2 DEF Injection, IsInjective
  <2>4. met \subseteq Group /\ IsFiniteSet(met)
    BY <1>3, StudyAssumption, FS_Subset
  <2>5. Cardinality(1 .. N) <= Cardinality(met) /\ Cardinality(1 .. N) = N
    <3> HIDE DEF met, q
    <3> QED
      BY <1>2, <2>3, <2>4, FS_Injection, FS_Interval
  <2>6. met = Group
    <3> HIDE DEF met, q
    <3>1. Cardinality(met) <= N /\ (Cardinality(met) = N => met = Group) /\ Cardinality(met) \in Nat
      BY <2>4, StudyAssumption, FS_Subset, FS_CardinalityType DEF N
    <3> QED
      BY <1>2, <2>5, <3>1
  <2>7. A = Group
    BY <1>3, <2>6
  <2> QED
    BY <1>3, <2>6, <2>7 DEF s
<1>5. CASE Len(s) # N
  <2>1. Onward(g, s) = None \/ Visited(s, Onward(g, s))
    BY <1>1, <1>2, <1>5 DEF WalkKept
  <2>2. ASSUME NEW h \in {g} \cup met, LineageParent(h) # None
        PROVE  LineageParent(h) \in met
    <3>1. CASE s = <<>>
      <4>1. met = {} /\ Onward(g, s) = LineageParent(g) /\ DOMAIN s = {}
        BY <1>2, <3>1 DEF Onward
      <4> QED
        BY <2>1, <2>2, <4>1 DEF Visited
    <3>2. CASE s # <<>>
      <4>1. 1 \in DOMAIN s /\ s[1] = LineageParent(g)
        BY <1>1, <1>2, <3>2 DEF WalkKept
      <4>2. CASE h = g
        BY <4>1, <4>2
      <4>3. CASE h \in met
        <5>1. PICK i \in 1 .. Len(s) : h = s[i]
          BY <1>2, <4>3
        <5>2. CASE i = Len(s)
          <6>1. Onward(g, s) = LineageParent(h)
            BY <3>2, <5>1, <5>2 DEF Onward
          <6> QED
            BY <2>1, <2>2, <6>1 DEF Visited
        <5>3. CASE i # Len(s)
          <6>1. i \in 1 .. Len(s) - 1 /\ i + 1 \in DOMAIN s
            <7>1. \A m \in Nat : i \in 1 .. m /\ i # m => i \in 1 .. m - 1 /\ i + 1 \in 1 .. m
              OBVIOUS
            <7> QED
              BY <1>2, <5>1, <5>3, <7>1
          <6> QED
            BY <1>1, <5>1, <6>1 DEF WalkKept
        <5> QED
          BY <5>2, <5>3
      <4> QED
        BY <4>2, <4>3
    <3> QED
      BY <3>1, <3>2
  <2> QED
    BY <1>3, <2>2 DEF Closed, s
<1> QED
  BY <1>4, <1>5

------------------------------------------------------------------------------
(* The connectors of a study whose areas are fanned out.                      *)

(* A group starts after all that ran before it, and under its parent.         *)
Ready(g) ==
  /\ boot[g] # None => \A p \in Group : Wave[p] < Wave[g] => HasResult(p)
  /\ Mode[g] = "inherit" => \A b \in {boot[g], origin[g]} \ {None} : b.parent = Parent[g]
AllReady == \A g \in Group : Ready(g)

(* A result is never lost.                                                    *)
LEMMA ResultStays ==
  ASSUME Inv, [Next]_vars, NEW p \in Group, HasResult(p)
  PROVE  HasResult(p)'
<1>1. Grows /\ CommitsKept
  BY NextKeeps DEF Inv, Typed
<1>2. ASSUME NEW s \in Group, Cycled(CleanCommits(s)) # {}
      PROVE  Cycled(CleanCommits(s))' # {}
  <2>1. PICK c \in CleanCommits(s) : Row(c).whole
    BY <1>2 DEF Cycled
  <2>2. c \in Known /\ c \in AllMade
    BY <1>1, KnownFacts, CleanFacts
  <2>3. c \in CleanCommits(s)' /\ Row(c)' = Row(c)
    BY <1>1, <2>1, <2>2, KnownStays DEF Grows
  <2> QED
    BY <2>1, <2>3 DEF Cycled
<1>3. origin[p] # None => origin'[p] # None
  BY BootStep
<1> QED
  BY <1>2, <1>3 DEF HasResult

LEMMA ReadyInvariant == Spec => []AllReady
<1>1. Init => AllReady
  BY DEF Init, AllReady, Ready
<1>2. ASSUME Inv, AllReady, [Next]_vars
      PROVE  AllReady'
  <2> SUFFICES ASSUME NEW g \in Group
               PROVE  Ready(g)'
    BY DEF AllReady
  <2>1. Typed /\ Ready(g)
    BY <1>2 DEF Inv, AllReady
  <2>2. ASSUME boot'[g] # None, NEW p \in Group, Wave[p] < Wave[g]
        PROVE  HasResult(p)'
    <3>1. CASE boot[g] # None
      BY <1>2, <2>1, <2>2, <3>1, ResultStays DEF Ready
    <3>2. CASE boot[g] = None
      <4>1. PICK h \in Group : Begin(h)
        BY <1>2, <2>2, <3>2 DEF Next, Resume, GiveUp, Loop, vars
      <4>2. h = g
        BY <2>1, <2>2, <3>2, <4>1 DEF Begin, Typed
      <4>3. p \in Settled
        BY <2>2, <4>1, <4>2 DEF Begin
      <4> QED
        BY <1>2, <4>3, ResultStays DEF Settled
    <3> QED
      BY <3>1, <3>2
  <2>3. ASSUME Mode[g] = "inherit", NEW b \in {boot'[g], origin'[g]} \ {None}
        PROVE  b.parent = Parent[g]
    <3>1. b \in {boot[g], origin[g]} \ {None} \/ b \in Bootstraps(g)
      BY <1>2, <2>3, BootStep
    <3>2. ASSUME b \in Bootstraps(g)
          PROVE  b.parent = Parent[g]
      <4>1. b = InheritBoot(g)
        BY <2>3, <3>2 DEF Bootstraps
      <4> QED
        BY <4>1 DEF InheritBoot, InheritFrom
    <3> QED
      BY <2>1, <2>3, <3>1, <3>2 DEF Ready
  <2> QED
    BY <2>2, <2>3 DEF Ready
<1> QED
  BY <1>1, <1>2, Invariance, PTL DEF Spec

(* A group that the walk may meet: it has a cycle on record, or is a root.    *)
Alive(h) == origin[h] # None \/ Mode[h] = "baseline"

(* A leaf hangs from whom it inherits from.                                   *)
LEMMA LeafHop ==
  ASSUME Inv, AllReady, FannedOut, NEW h \in Group, Role[h] = "leaf", Alive(h)
  PROVE  /\ Mode[h] = "inherit" => LineageParent(h) = Parent[h] /\ Parent[h] \in Standing /\ Alive(Parent[h])
         /\ Mode[h] # "inherit" => LineageParent(h) = None
<1>1. CASE Mode[h] # "inherit"
  <2>1. InheritAnchor(h) = None
    BY <1>1 DEF FannedOut, InheritAnchor
  <2> QED
    BY <1>1, <2>1 DEF LineageParent, ParentBy
<1>2. CASE Mode[h] = "inherit"
  <2> DEFINE p == Parent[h]
  <2>1. origin[h] # None /\ boot[h] # None
    BY <1>2 DEF Alive, Inv, GroupKept, PhaseKept
  <2>2. p \in Standing /\ p \in Group /\ p = ResultGroup(Area[p]) /\ Wave[p] < Wave[h]
    BY <1>2, StudyAssumption DEF FannedOut, Standing
  <2>3. HasResult(p)
    BY <2>1, <2>2 DEF AllReady, Ready
  <2>4. origin[p] # None
    <3>1. ASSUME CleanCommits(p) # {}
          PROVE  origin[p] # None
      <4>1. Made(p) # {}
        BY <2>2, <3>1, CleanFacts
      <4> QED
        BY <2>2, <4>1 DEF Inv, GroupKept, PhaseKept
    <3>2. ASSUME Role[p] = "leaf", NEW s \in Group, Role[s] = "leaf", Area[s] = Area[p]
          PROVE  s = p
      <4>1. CollapsesOf(Area[p]) = {}
        BY <2>2, <3>2, ResultFacts
      <4> QED
        BY <2>2, <3>2, <4>1 DEF FannedOut, LeavesOf
    <3> QED
      BY <2>3, <3>1, <3>2 DEF HasResult, Cycled
  <2>5. InheritAnchor(h) # None /\ InheritAnchor(h).parent = p
    <3>1. CASE Recorded(h)
      <4>1. StartKept(h, origin[h]) /\ CommitsKept
        BY <2>1 DEF Inv, Typed, GroupKept, StartsKept
      <4>2. PICK b : b = origin[h]
        OBVIOUS
      <4>3. InheritAnchor(h) = AnchorOf(b, Maker(b.start), ParentLoop(b.parent, b.start))
        BY <1>2, <3>1, <4>2 DEF InheritAnchor
      <4>4. b.parent = p
        BY <1>2, <2>1, <4>2 DEF AllReady, Ready
      <4> QED
        BY <2>1, <4>1, <4>2, <4>3, <4>4, BranchOf
    <3>2. CASE ~Recorded(h)
      <4> DEFINE a == PolicyAnchor(InheritPolicy[h], p)
                 b == InheritBoot(h)
      <4>1. b = InheritFrom(p, a)
        BY DEF InheritBoot
      <4>2. b.parent = p /\ b.start = (IF a = None THEN head[p] ELSE a.ref)
        <5> HIDE DEF a, b
        <5> QED
          BY <4>1 DEF InheritFrom
      <4>3. head[p] # None
        BY <2>2, <2>4 DEF Inv, GroupKept, PhaseKept
      <4>4. a # None => a.ref # None
        <5>1. /\ CommitsKept /\ origin[p] \in Bootstrap \cup {None}
              /\ InheritPolicy[h] \in {"best_commit", "last_commit"}
          BY <2>2, StudyAssumption DEF Inv, Typed
        <5>2. a # None => GoodAnchor(a)
          BY <2>2, <5>1, PolicyFacts
        <5>3. a # None => a.ref \in Commit
          BY <5>2 DEF GoodAnchor, Anchor
        <5> QED
          BY <5>3, NothingAssumption
      <4> HIDE DEF a, b
      <4>5. Bootstraps(h) = {b}
        BY <1>2, <4>2, <4>3, <4>4 DEF Bootstraps, b
      <4>6. Now(h) = b
        BY <4>5 DEF Now, AnyOf
      <4>7. StartKept(h, b)
        BY <4>5, BootStarts
      <4>8. b # None
        <5>1. b \in Bootstrap
          BY <4>7 DEF StartKept
        <5> QED
          BY <5>1, NothingAssumption
      <4>9. InheritAnchor(h) = AnchorOf(b, None, 0) /\ CommitsKept
        BY <1>2, <3>2, <4>6 DEF InheritAnchor, Inv, Typed
      <4> QED
        BY <4>2, <4>7, <4>8, <4>9, BranchOf
    <3> QED
      BY <3>1, <3>2
  <2>6. LineageParent(h) = p
    BY <1>2, <2>5 DEF LineageParent, ParentBy
  <2> QED
    BY <1>2, <2>2, <2>4, <2>6 DEF Alive
<1> QED
  BY <1>1, <1>2

(* What a collapse was based on is still the anchor of a leaf that shows      *)
(* something: it selects anew for each build, or no resume has moved anchors. *)
BasedOnLeaf(g) ==
  Role[g] = "collapse" /\ origin[g] # None =>
    /\ Budget[g] = 0 \/ invocations = 1
    /\ \E i \in Resolved(SourceAnchors(g)) :
         i = Strongest(SourceAnchors(g)) /\ HasOwnPoint(SourceIds(g)[i])

(* Then it hangs from one of its leaves.                                      *)
LEMMA CollapseHop ==
  ASSUME Inv, AllStepped, FirstPlans, FannedOut, NEW h \in Group, Role[h] = "collapse", Alive(h), BasedOnLeaf(h)
  PROVE  LineageParent(h) \in LeavesOf(Area[h]) /\ Alive(LineageParent(h))
<1> DEFINE anchors == SourceAnchors(h)
           b == MergeBoot(anchors)
<1>1. /\ Mode[h] = "merge" /\ {SourceIds(h)[i] : i \in DOMAIN SourceIds(h)} = LeavesOf(Area[h])
      /\ origin[h] # None /\ boot[h] # None /\ CommitsKept /\ OriginsKept
  BY DEF FannedOut, Alive, Inv, Typed, GroupKept, PhaseKept, OriginsKept
<1>2. PICK i \in Resolved(anchors) : i = Strongest(anchors) /\ HasOwnPoint(SourceIds(h)[i])
  BY <1>1 DEF BasedOnLeaf
<1> DEFINE s == SourceIds(h)[i]
<1>3. /\ i \in DOMAIN SourceIds(h) /\ s \in Group /\ anchors[i] = PolicyAnchor(TopPolicy[s], s) /\ anchors[i] # None
  BY <1>1, <1>2, SourceAnchorFacts
<1>4. Shows(Winner(s), anchors[i].ref)
  BY <1>2, <1>3, OwnPointShows
<1>5. b.start = anchors[i].ref
  BY <1>2 DEF MergeBoot
<1>6. InheritAnchor(h) # None /\ InheritAnchor(h).commit = b.start
  <2>1. CASE Budget[h] = 0
    <3>1. Bootstraps(h) = {b}
      BY <1>1, <1>2 DEF Bootstraps, MergeBoots
    <3> HIDE DEF b
    <3>2. Now(h) = b /\ StartKept(h, b)
      BY <3>1, BootStarts DEF Now, AnyOf
    <3>3. b # None
      BY <3>2, NothingAssumption DEF StartKept
    <3>4. InheritAnchor(h) = AnchorOf(b, None, 0)
      BY <1>1, <2>1, <3>2 DEF InheritAnchor, Recorded
    <3> QED
      BY <1>1, <3>2, <3>3, <3>4, BranchOf
  <2>2. CASE Budget[h] # 0
    <3>1. FirstBuild /\ MergePlan(h) # None
      BY <1>1, <2>2 DEF BasedOnLeaf, FirstBuild, MergePlan, Recorded
    <3> HIDE DEF b
    <3> QED
      BY <3>1, PlanFacts DEF b
  <2> QED
    BY <2>1, <2>2
<1> HIDE DEF b, s, anchors
<1>7. LineageParent(h) = OrElse(PlannedSource(h, anchors[i].ref), InheritAnchor(h).parent)
  BY <1>1, <1>5, <1>6 DEF LineageParent, ParentBy
<1>8. PICK t \in Group : /\ t = PlannedSource(h, anchors[i].ref) /\ t # None
                         /\ t \in LeavesOf(Area[h]) /\ Shows(Winner(t), anchors[i].ref)
  BY <1>1, <1>3, <1>4, PlannedSourceFacts DEF s
<1>9. LineageParent(h) = t
  BY <1>7, <1>8 DEF OrElse
<1>10. HasOwnPoint(t)
  <2>1. Winner(t) # None
    BY <1>8 DEF Shows
  <2>2. Mode[t] # "merge"
    BY <1>8 DEF FannedOut, LeavesOf
  <2> QED
    BY <2>1, <2>2 DEF Winner
<1>11. CleanCommits(t) # {} => origin[t] # None
  <2>1. CleanCommits(t) # {} => Made(t) # {}
    BY CleanFacts
  <2> QED
    BY <2>1 DEF Inv, GroupKept, PhaseKept
<1> QED
  BY <1>8, <1>9, <1>10, <1>11 DEF HasOwnPoint, Alive

LEMMA OverviewDrawn ==
  ASSUME Inv, AllReady, AllStepped, FirstPlans, FannedOut, \A h \in Group : BasedOnLeaf(h)
  PROVE  OverviewFollowsAreas
<1> SUFFICES ASSUME NEW a \in Areas, origin[ResultGroup(a)] # None
             PROVE  {Area[Primary(ResultGroup(a))[i]] : i \in DOMAIN Primary(ResultGroup(a))} \ {a} = Ancestors(a)
  BY DEF OverviewFollowsAreas
<1> DEFINE g == ResultGroup(a)
           A == {h \in Standing : Alive(h) /\ Area[h] \in {a} \cup Ancestors(a)}
           met == {Primary(g)[i] : i \in DOMAIN Primary(g)}
<1>1. g \in A /\ Area[g] = a
  <2>1. PICK k \in Standing : a = Area[k]
    BY DEF Areas, Standing
  <2> QED
    BY <2>1, ResultFacts DEF Alive
<1>2. A \subseteq Group /\ \A h \in Standing : Area[h] # None /\ Role[h] \in {"leaf", "collapse"}
  BY DEF Standing, FannedOut
<1>3. ASSUME NEW h \in A, Role[h] = "leaf"
      PROVE  /\ LineageParent(h) # None => LineageParent(h) \in A
             /\ LineageParent(h) = None => ParentArea(Area[h]) = None
             /\ LineageParent(h) # None => ParentArea(Area[h]) = Area[LineageParent(h)]
  <2>1. CASE Mode[h] = "inherit"
    <3>1. /\ LineageParent(h) = Parent[h] /\ Parent[h] \in Standing /\ Alive(Parent[h])
          /\ ParentArea(Area[h]) = Area[Parent[h]]
      BY <1>2, <1>3, <2>1, LeafHop, ParentAreaFacts
    <3>2. Area[Parent[h]] # None
      BY <1>2, <3>1
    <3>3. ParentArea(Area[h]) \in Ancestors(a)
      BY <3>1, <3>2, AncestorFacts
    <3>4. Parent[h] # None
      BY <3>1, StudyAssumption DEF Standing
    <3> QED
      BY <3>1, <3>3, <3>4
  <2>2. CASE Mode[h] # "inherit"
    BY <1>2, <1>3, <2>2, LeafHop, ParentAreaFacts
  <2> QED
    BY <2>1, <2>2
<1>4. ASSUME NEW h \in A, Role[h] = "collapse"
      PROVE  /\ LineageParent(h) \in A /\ LineageParent(h) # None
             /\ Role[LineageParent(h)] = "leaf" /\ Area[LineageParent(h)] = Area[h]
  <2>1. LineageParent(h) \in LeavesOf(Area[h]) /\ Alive(LineageParent(h))
    BY <1>2, <1>4, CollapseHop
  <2> QED
    BY <1>4, <2>1, StudyAssumption DEF LeavesOf, Standing
<1>5. Closed(g, A)
  BY <1>1, <1>2, <1>3, <1>4 DEF Closed
<1>6. met \subseteq A /\ Closed(g, met)
  <2>1. g \in Group
    BY <1>1, <1>2
  <2> HIDE DEF A, g
  <2> QED
    BY <1>2, <1>5, <2>1, PrimaryFacts
<1>7. {Area[Primary(g)[i]] : i \in DOMAIN Primary(g)} = {Area[h] : h \in met}
  OBVIOUS
<1> HIDE DEF met
<1>8. {Area[h] : h \in met} \ {a} \subseteq Ancestors(a)
  BY <1>6
<1>9. Ancestors(a) \subseteq {Area[h] : h \in met}
  <2> DEFINE T == {Area[h] : h \in met}
  <2>1. ASSUME NEW b \in {a} \cup (Ancestors(a) \cap T), ParentArea(b) # None
        PROVE  ParentArea(b) \in T
    <3>1. PICK h \in {g} \cup met : Area[h] = b
      BY <1>1
    <3>2. h \in A
      BY <1>1, <1>6, <3>1
    <3>3. PICK l \in {g} \cup met : l \in A /\ Area[l] = b /\ Role[l] = "leaf"
      <4>1. CASE Role[h] = "leaf"
        BY <3>1, <3>2, <4>1
      <4>2. CASE Role[h] # "leaf"
        <5>1. Role[h] = "collapse"
          BY <1>2, <3>2, <4>2
        <5>2. LineageParent(h) \in met
          BY <1>4, <1>6, <3>1, <3>2, <5>1 DEF Closed
        <5> QED
          BY <1>4, <3>1, <3>2, <5>1, <5>2
      <4> QED
        BY <4>1, <4>2
    <3>4. LineageParent(l) # None /\ ParentArea(b) = Area[LineageParent(l)]
      BY <1>3, <2>1, <3>3
    <3>5. LineageParent(l) \in met
      BY <1>6, <3>3, <3>4 DEF Closed
    <3> QED
      BY <3>4, <3>5
  <2> HIDE DEF T
  <2>2. Ancestors(a) \subseteq T
    BY <2>1, AncestorFacts
  <2> QED
    BY <2>2 DEF T
<1>10. a \notin Ancestors(a)
  BY AncestorFacts
<1> QED
  BY <1>7, <1>8, <1>9, <1>10

(* From what stands for an area the connectors lead through the areas above   *)
(* it, in every study whose areas are fanned out and as long as collapses are *)
(* based on leaves that show something.                                       *)
THEOREM OverviewIsRight ==
  ASSUME FannedOut
  PROVE  Spec => []((\A g \in Group : BasedOnLeaf(g)) => OverviewFollowsAreas)
<1>1. Inv /\ AllReady /\ AllStepped /\ FirstPlans => ((\A g \in Group : BasedOnLeaf(g)) => OverviewFollowsAreas)
  BY OverviewDrawn
<1> QED
  BY <1>1, Invariance, ReadyInvariant, SteppedInvariant, PlansInvariant, PTL
===============================================================================
