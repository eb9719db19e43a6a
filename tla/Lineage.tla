-------------------------------- MODULE Lineage --------------------------------
(******************************************************************************)
(* Where the branch of each group starts: the anchors that lineage/anchors.py *)
(* reads out of the registry, the bootstraps that lineage/resolve.py makes of *)
(* them for baseline, inherit and merge groups, and the commits the groups    *)
(* then add.  A study may be interrupted at any point and resumed, and what   *)
(* was recorded then counts beside what was recorded before.                  *)
(*                                                                            *)
(* The commits of a group are numbered in the order they were made; what each *)
(* descends from is git's, the rest is the registry's.                        *)
(******************************************************************************)
EXTENDS Naturals, Sequences, FiniteSets

CONSTANTS
  Group,           \* the groups of the (desugared) configuration
  Order,           \* ... in the order of the configuration
  Wave,            \* the wave of each group
  Mode,            \* "baseline", "inherit" or "merge" (task_kind merge)
  Parent,          \* lineage.inherit_from, or None
  Draws,           \* inherit_from and draw_from of a merge, <<>> to discover
  InheritPolicy,   \* "best_commit" or "last_commit": where a group starts
  TopPolicy,       \* ... and which of its own commits stands for it
  Area, Role,      \* the area; "leaf", "collapse" or "final_merge"
  Budget,          \* effective_loops; 0 is a select collapse
  Score,           \* values of the anchor metric
  BaselineScore,   \* that of the frozen baseline
  Minimize,        \* lower is better
  Outcome,         \* what CI may say of a group's commit: a score, Failed, Unscored, None
  CutOff,          \* bound: the results of each group whose ingest may stop after its first write
  StopOnSuccess, MaxInvocations,
  Failed,          \* a row with a failure class, taken to carry no metric
  Unscored,        \* a clean row without the anchor metric
  None,            \* nothing: no row, no group, no anchor
  Base             \* the commit of baseline_ref, L0

ASSUME StudyAssumption ==
  /\ IsFiniteSet(Group) /\ Order \in Seq(Group) /\ Wave \in [Group -> Nat] /\ Budget \in [Group -> Nat]
  /\ Mode \in [Group -> {"baseline", "inherit", "merge"}]
  /\ Parent \in [Group -> Group \cup {None}] /\ None \notin Group
  /\ \A g \in Group : Mode[g] = "inherit" => Parent[g] \in Group /\ Wave[Parent[g]] < Wave[g]
  /\ Draws \in [Group -> Seq(Group)]
  /\ {InheritPolicy, TopPolicy} \subseteq [Group -> {"best_commit", "last_commit"}]
ASSUME ScoreAssumption ==
  /\ Score \subseteq Nat /\ BaselineScore \in Score /\ Minimize \in BOOLEAN
  /\ Outcome \in [Group -> SUBSET (Score \cup {Failed, Unscored, None})]
  /\ CutOff \in [Group -> SUBSET (Score \cup {Failed, Unscored})]
  /\ {Failed, Unscored, None} \cap Score = {} /\ Cardinality({Failed, Unscored, None}) = 3
  /\ StopOnSuccess \in BOOLEAN /\ MaxInvocations \in Nat \ {0}

LoopCommit == Group \X (Nat \ {0})
Commit == {Base} \cup LoopCommit
FoldIn == [owner : Group, commit : Commit]
CommitRow == [past : SUBSET LoopCommit, loop : Nat \ {0}, whole : BOOLEAN,
              result : Score \cup {Failed, Unscored, None}]
Bootstrap == [start : Commit, parent : Group \cup {None}, owner : Group \cup {None},
              step : Nat, foldIns : SUBSET FoldIn, first : SUBSET FoldIn]
Anchor == [ref : Commit, step : Nat, value : Score, owner : Group \cup {None}]

ASSUME NothingAssumption == Base \notin LoopCommit /\ None \notin Commit \cup Bootstrap \cup Anchor

VARIABLES
  commits,      \* git and the gh_ rows: for each commit of a group its ancestors,
                \* the loop it was made in, what CI said of it, and whether the
                \* gh_ row of that has its cycle row beside it
  head,         \* the branch of each group, None until it is created
  origin,       \* the earliest cycle manifest of each group
  phase, loop,  \* the controllers of the groups
  boot,         \* the last bootstrap of each group
  starts,       \* observation: every commit the branch was started from
  invocations   \* observation: invocations of loops-all

vars == <<commits, head, origin, phase, loop, boot, starts, invocations>>

TypeOK ==
  /\ commits \in [Group -> Seq(CommitRow)] /\ loop \in [Group -> Nat]
  /\ \A g \in Group : loop[g] <= Budget[g] /\ \A i \in DOMAIN commits[g] : commits[g][i].loop <= Budget[g]
  /\ head \in [Group -> Commit \cup {None}]
  /\ origin \in [Group -> Bootstrap \cup {None}] /\ boot \in [Group -> Bootstrap \cup {None}]
  /\ phase \in [Group -> {"idle", "running", "finished"}]
  /\ starts \in [Group -> SUBSET Commit] /\ invocations \in 1..MaxInvocations

Init ==
  /\ commits = [g \in Group |-> <<>>] /\ head = [g \in Group |-> None]
  /\ origin = [g \in Group |-> None] /\ boot = [g \in Group |-> None]
  /\ phase = [g \in Group |-> "idle"] /\ loop = [g \in Group |-> 0]
  /\ starts = [g \in Group |-> {}] /\ invocations = 1

------------------------------------------------------------------------------
(* Queries of the registry, and of git.                                       *)

Row(c) == commits[c[1]][c[2]]
History(c) == IF c = Base THEN {} ELSE {c} \cup Row(c).past
Made(g) == {<<g, i>> : i \in DOMAIN commits[g]}
CleanCommits(g) == {c \in Made(g) : Row(c).result \in Score \cup {Unscored}}
ScoredCommits(g) == {c \in Made(g) : Row(c).result \in Score}

(* What joins the cycle rows misses the runs that have none.                  *)
Cycled(cs) == {c \in cs : Row(c).whole}
LoopsOf(cs) == {Row(c).loop : c \in Cycled(cs)}

(* parent_trajectory_step_for_run: such a run counts as a first loop.         *)
LoopOf(c) == IF Row(c).whole THEN Row(c).loop ELSE 1

Better(x, y) == IF Minimize THEN x < y ELSE x > y

GroupComplete(g) ==
  IF Budget[g] = 0 THEN origin[g] # None
  ELSE \/ Cardinality(LoopsOf(CleanCommits(g))) >= Budget[g]
       \/ /\ Cycled(CleanCommits(g)) # {}
          /\ Cardinality(LoopsOf({c \in Made(g) : Row(c).result # None})) >= Budget[g]

(* What LoopsAll shows of the waves before one that begins.                   *)
HasResult(g) ==
  \/ Budget[g] = 0 /\ origin[g] # None
  \/ Cycled(CleanCommits(g)) # {}
  \/ Role[g] = "leaf" /\ \E s \in Group : Role[s] = "leaf" /\ Area[s] = Area[g] /\ Cycled(CleanCommits(s)) # {}

(* The groups that the wave after theirs need not wait for.                   *)
Settled ==
  {s \in Group : HasResult(s) /\ (phase[s] = "finished" \/ (phase[s] = "idle" /\ GroupComplete(s)))}

------------------------------------------------------------------------------
(* Anchors: a commit, its place on the trajectory, its metric and its owner.  *)

L0 == [ref |-> Base, step |-> 0, value |-> BaselineScore, owner |-> None]

(* The anchor of the earliest cycle, looked up again under the group that     *)
(* owned it or else the parent; the baseline when that finds no metric.       *)
OwnedByParent(m) == {o \in {m.parent} \ {None} : m.start \in ScoredCommits(o)}   \* variant
OwnedBy(m) == {o \in {m.owner, m.parent} \ {None} : m.start \in ScoredCommits(o)}
OriginAnchor(g) ==
  LET m == origin[g] IN
  IF m = None \/ m.parent = None \/ OwnedBy(m) = {} THEN L0
  ELSE [ref |-> m.start, step |-> m.step, value |-> Row(m.start).result,
        owner |-> IF m.owner \in OwnedBy(m) THEN m.owner ELSE m.parent]

LocalAnchor(g, c) ==                    \* variant: the loop alone is the step
  LET o == OriginAnchor(g) IN
  [ref |-> c, step |-> LoopOf(c), owner |-> g,
   value |-> IF Row(c).result \in Score THEN Row(c).result ELSE o.value]
LoopAnchor(g, c) ==
  LET o == OriginAnchor(g) IN
  [ref |-> c, step |-> o.step + LoopOf(c), owner |-> g,
   value |-> IF Row(c).result \in Score THEN Row(c).result ELSE o.value]

(* The first of the best: the origin, then the loops as they were recorded.   *)
BestAnchor(g) ==
  LET o == OriginAnchor(g)
      better == {c \in ScoredCommits(g) : Better(Row(c).result, o.value)} IN
  IF better = {} THEN o
  ELSE LoopAnchor(g, CHOOSE c \in better : \A d \in better :
                       \/ Better(Row(c).result, Row(d).result)
                       \/ Row(c).result = Row(d).result /\ c[2] <= d[2])

(* latest_loop_github_run: the highest loop, the newest of those; a run       *)
(* without a cycle row comes below all loops.                                 *)
LoopRank(c) == IF Row(c).whole THEN Row(c).loop ELSE 0
LastAnchor(g) ==
  IF CleanCommits(g) = {} THEN None
  ELSE LoopAnchor(g, CHOOSE c \in CleanCommits(g) : \A d \in CleanCommits(g) :
                       \/ LoopRank(c) > LoopRank(d)
                       \/ LoopRank(c) = LoopRank(d) /\ c[2] >= d[2])

PolicyAnchor(policy, g) == IF policy = "best_commit" THEN BestAnchor(g) ELSE LastAnchor(g)

------------------------------------------------------------------------------
(* The lineage graph of the configuration.                                    *)

(* The groups met by following inherit_from: those of every set that holds    *)
(* the parent of the group and the parents of its own.                        *)
Follows(g, S) == {Parent[h] : h \in {g} \cup S} \subseteq S \cup {None}
Upstream == [g \in Group |-> {h \in Group : \A S \in SUBSET Group : Follows(g, S) => h \in S}]

NoAreas(g) == g                         \* variant: a leaf stands for itself
AreaNode(g) ==
  LET nodes == {c \in Group : Area[c] = Area[g] /\ Role[c] \in {"collapse", "final_merge"}} IN
  IF Role[g] = "leaf" /\ nodes # {} THEN CHOOSE c \in nodes : TRUE ELSE g

(* The tips of the lineages, which a merge without sources discovers, at      *)
(* their places in the configuration.                                         *)
IsTip(g) == Mode[g] # "merge" /\ \A h \in Group : Mode[h] # "merge" => Parent[h] # g
Tips == [i \in {j \in DOMAIN Order : IsTip(Order[j])} |-> Order[i]]
SourceIds(g) == IF Draws[g] # <<>> THEN Draws[g] ELSE Tips

ASSUME MergeAssumption ==               \* the loader: a merge runs after its sources
  \A g \in Group : Mode[g] = "merge" => \A i \in DOMAIN SourceIds(g) : Wave[SourceIds(g)[i]] < Wave[g]

------------------------------------------------------------------------------
(* Bootstraps.                                                                *)

BaselineBoot == [start |-> Base, parent |-> None, owner |-> None, step |-> 0, foldIns |-> {}, first |-> {}]

(* Without an anchor the group starts at the parent's branch, and no step is  *)
(* recorded: what reads it takes 0, or looks for one.                         *)
InheritFrom(parent, a) ==
  IF a = None
  THEN [start |-> head[parent], parent |-> parent, owner |-> None, step |-> 0, foldIns |-> {}, first |-> {}]
  ELSE [start |-> a.ref, parent |-> parent, owner |-> a.owner, step |-> a.step, foldIns |-> {}, first |-> {}]
InheritBoot(g) == InheritFrom(Parent[g], PolicyAnchor(InheritPolicy[g], Parent[g]))

SourceAnchors(g) ==
  [i \in DOMAIN SourceIds(g) |-> PolicyAnchor(TopPolicy[SourceIds(g)[i]], SourceIds(g)[i])]
Resolved(anchors) == {i \in DOMAIN anchors : anchors[i] # None}

(* The strongest source, the first of equals.                                 *)
Strongest(anchors) ==
  CHOOSE i \in Resolved(anchors) : \A j \in Resolved(anchors) :
    LET x == anchors[i].value  y == anchors[j].value IN
    Better(x, y) \/ (x = y /\ i <= j)

(* A source that adds nothing: the baseline, the base itself, or a commit     *)
(* of a group upstream of the base.                                           *)
NoOp(s, base) ==
  \/ s.owner = None
  \/ s.ref = base.ref
  \/ base.owner # None /\ AreaNode(s.owner) \in Upstream[base.owner]

(* The base, and what is folded into it; first is the fold-in listed before   *)
(* the others, which are ordered as sources are.                              *)
MergeBoot(anchors) ==
  LET base == anchors[Strongest(anchors)]
      adds == {i \in Resolved(anchors) \ {Strongest(anchors)} : ~NoOp(anchors[i], base)}
      Fold(i) == [owner |-> anchors[i].owner, commit |-> anchors[i].ref]
      Before(i, j) == \/ Better(anchors[i].value, anchors[j].value)
                      \/ anchors[i].value = anchors[j].value /\ i < j
  IN [start |-> base.ref, parent |-> base.owner, owner |-> base.owner, step |-> base.step,
      foldIns |-> {Fold(i) : i \in adds},
      first |-> {Fold(i) : i \in {k \in adds : \A j \in adds : ~Before(j, k)}}]
MergeBoots(anchors) == IF Resolved(anchors) = {} THEN {} ELSE {MergeBoot(anchors)}

Bootstraps(g) ==
  CASE Mode[g] = "merge" -> MergeBoots(SourceAnchors(g))
    [] Mode[g] = "baseline" -> {BaselineBoot}
    [] OTHER -> {b \in {InheritBoot(g)} : b.start # None}

------------------------------------------------------------------------------
(* A group of the wave that is due is started: only an inherit bootstrap      *)
(* resets a branch that exists.  A select collapse records what it adopts.    *)
Begin(g) ==
  /\ phase[g] = "idle" /\ ~GroupComplete(g)
  /\ {s \in Group : Wave[s] < Wave[g]} \subseteq Settled
  /\ \E b \in Bootstraps(g) :
       /\ boot' = [boot EXCEPT ![g] = b]
       /\ head' = [head EXCEPT ![g] = IF Mode[g] = "baseline" /\ @ # None THEN @ ELSE b.start]
       /\ starts' = [starts EXCEPT ![g] = @ \cup {head'[g]}]
       /\ IF Budget[g] = 0
          THEN /\ origin' = [origin EXCEPT ![g] = b]
               /\ phase' = [phase EXCEPT ![g] = "finished"] /\ UNCHANGED loop
          ELSE /\ phase' = [phase EXCEPT ![g] = "running"]
               /\ loop' = [loop EXCEPT ![g] = 1] /\ UNCHANGED origin
  /\ UNCHANGED <<commits, invocations>>

(* The first cycle a group ever records stays its earliest.                   *)
RecordCycle(g) == origin' = [origin EXCEPT ![g] = IF @ = None THEN boot[g] ELSE @]

OneMore(g) == loop[g] > Budget[g]       \* variant: off by one
LastLoop(g) == loop[g] >= Budget[g]

(* A loop commits on top of the branch and CI answers.  ingest commits the    *)
(* run row before it reads the manifest and writes the cycle row: a kill in   *)
(* between, or a manifest that cannot be parsed, leaves the one without the   *)
(* other, and ends the controller.                                            *)
Loop(g, r) ==
  /\ phase[g] = "running"
  /\ RecordCycle(g)
  /\ \E whole \in BOOLEAN :
       /\ ~whole => r \in CutOff[g]
       /\ commits' = [commits EXCEPT ![g] = Append(@, [past |-> History(head[g]), loop |-> loop[g],
                                                       whole |-> whole, result |-> r])]
       /\ \/ /\ whole /\ ~LastLoop(g) /\ loop' = [loop EXCEPT ![g] = @ + 1]
             /\ UNCHANGED phase
          \/ /\ ~whole \/ LastLoop(g) \/ (StopOnSuccess /\ r \in Score \cup {Unscored})
             /\ phase' = [phase EXCEPT ![g] = "finished"] /\ UNCHANGED loop
  /\ head' = [head EXCEPT ![g] = <<g, Len(commits'[g])>>]
  /\ UNCHANGED <<boot, starts, invocations>>

(* A cycle is blocked before it is recorded, or fails before its commit.      *)
GiveUp(g) ==
  /\ phase[g] = "running" /\ phase' = [phase EXCEPT ![g] = "finished"]
  /\ RecordCycle(g) \/ UNCHANGED origin
  /\ UNCHANGED <<commits, head, loop, boot, starts, invocations>>

(* loops-all ends, or is killed, and is started again.                        *)
Resume ==
  /\ invocations < MaxInvocations /\ invocations' = invocations + 1
  /\ phase' = [g \in Group |-> "idle"]
  /\ UNCHANGED <<commits, head, origin, loop, boot, starts>>

Next == Resume \/ \E g \in Group : Begin(g) \/ GiveUp(g) \/ \E r \in Outcome[g] : Loop(g, r)

Spec == Init /\ [][Next]_vars

------------------------------------------------------------------------------
(* What the branches and the registry must agree on.                          *)

Depth(c) == Cardinality(History(c))
Begun == {g \in Group : origin[g] # None}

(* A group that was only ever started from one commit, which the registry     *)
(* can score, like those its branch descends from.                            *)
Steady(g) ==
  /\ starts[g] = {boot[g].start}
  /\ boot[g].start = Base \/ (boot[g].owner # None /\ Row(boot[g].start).result \in Score)
SteadyPath(g) == Steady(g) /\ \A c \in History(head[g]) : Steady(c[1])

(* A group and all it is configured to build on, at any distance; that no     *)
(* policy between them prefers what is last to what is best.                  *)
SourcesOf(g) ==
  CASE Mode[g] = "inherit" -> {Parent[g]}
    [] Mode[g] = "merge" -> {SourceIds(g)[i] : i \in DOMAIN SourceIds(g)}
    [] OTHER -> {}
Contributes(S) == UNION {SourcesOf(h) : h \in S} \subseteq S
BuildsOn == [g \in Group |-> {h \in Group : \A S \in SUBSET Group : g \in S /\ Contributes(S) => h \in S}]
TakesBest(g) ==
  CASE Mode[g] = "inherit" -> InheritPolicy[g] = "best_commit"
    [] Mode[g] = "merge" -> \A h \in SourcesOf(g) : TopPolicy[h] = "best_commit"
    [] OTHER -> TRUE
BestPath(g) == \A h \in BuildsOn[g] : TakesBest(h)

(* best_commit never lets go of what was reached: the anchor of a group is    *)
(* at least as good as every commit its branch descends from, through any     *)
(* number of groups, adoptions and merges.                                    *)
BestOfHistory ==
  \A g \in Begun : SteadyPath(g) /\ BestPath(g) =>
    LET best == BestAnchor(g).value IN
    /\ ~Better(BaselineScore, best)
    /\ \A c \in History(head[g]) :
         Row(c).result \in Score => ~Better(Row(c).result, best)

(* A number that counts the commits down to the baseline: never more than     *)
(* there are, and as many if all of them are taken for the loops they were.   *)
Placed(c) == \A d \in History(c) : LoopOf(d) = Row(d).loop
Counts(n, c) == n <= Depth(c) /\ (Placed(c) => n = Depth(c))

(* The trajectory is one axis for all groups: the step of an anchor is the    *)
(* number of loops, that is commits, between it and the baseline; and is less *)
(* only above a commit whose ingest was cut off in a later loop than the      *)
(* first.                                                                     *)
StepIsDepth ==
  \A g \in Begun : SteadyPath(g) =>
    \A a \in {BestAnchor(g), LastAnchor(g)} \ {None} : Counts(a.step, a.ref)

(* A merge plan has no commit twice, and not the result of the area that the  *)
(* group of its base inherits from, however that area was collapsed.          *)
PlanIsDistinct ==
  \A g \in Begun : Mode[g] = "merge" =>
    /\ \A f \in boot[g].foldIns :
         /\ f.commit # boot[g].start
         /\ boot[g].owner # None /\ Parent[boot[g].owner] # None =>
              ~(f.commit = boot[boot[g].owner].start /\ Area[f.owner] = Area[Parent[boot[g].owner]])
    /\ \A f, h \in boot[g].foldIns : f.commit = h.commit => f = h

(* A source is folded in only if the base does not already contain it.        *)
FoldInsAreNew ==
  \A g \in Begun : \A f \in boot[g].foldIns : f.commit \notin History(boot[g].start)
==============================================================================
