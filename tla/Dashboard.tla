------------------------------- MODULE Dashboard -------------------------------
(******************************************************************************)
(* What dashboard/build.py draws of a study: for the anchor metric, the points*)
(* of every group on one axis of loops, which of them is starred, where the   *)
(* line of a group comes from, and the map of the areas.  A build only reads  *)
(* the registry, so it is operators over the state of Lineage.  It may read   *)
(* at any time, and reads some things as they were recorded and resolves      *)
(* others again.                                                              *)
(*                                                                            *)
(* The configuration is a desugared one: its merges have lineage.mode inherit *)
(* and no inherit_from.                                                       *)
(******************************************************************************)
EXTENDS Lineage

(* What is drawn besides points: the start of a group, and its top commit.    *)
Branching == [commit : Commit, parent : Group \cup {None}, step : Nat, source : Group \cup {None}]
TopCommit == [commit : Commit, step : Nat, baseline : BOOLEAN]

ASSUME NothingShown == None \notin Branching \cup TopCommit

(* What resolve_branch_bootstrap says at the time of the build.               *)
AnyOf(bootstraps) == IF bootstraps = {} THEN None ELSE CHOOSE b \in bootstraps : TRUE
Now(g) == AnyOf(Bootstraps(g))

------------------------------------------------------------------------------
(* The top commit of each group: the one its policy chooses.                  *)

HasOwnPoint(g) == CleanCommits(g) # {} \/ Mode[g] = "baseline"

(* A select collapse has no run: what it adopts is resolved again, and is not *)
(* shown while that is the baseline.                                          *)
SelectWinner(b) ==
  IF b = None \/ b.step = 0 THEN None
  ELSE [commit |-> b.start, step |-> b.step, baseline |-> FALSE]

PolicyWinner(a) ==
  IF a = None THEN None
  ELSE [commit |-> a.ref, step |-> a.step, baseline |-> a.owner = None /\ a.step = 0]

Winner(g) ==
  CASE HasOwnPoint(g) -> PolicyWinner(PolicyAnchor(TopPolicy[g], g))
    [] ~HasOwnPoint(g) /\ Mode[g] = "merge" /\ Budget[g] = 0 -> SelectWinner(Now(g))
    [] OTHER -> None

------------------------------------------------------------------------------
(* Where a group branched off.  The cycle of a select collapse has no run and *)
(* is not among the cycles read; a group without any is resolved now.         *)

Recorded(g) == origin[g] # None /\ Budget[g] # 0

OrElse(x, y) == IF x # None THEN x ELSE y

(* Without a recorded owner, the group whose run has the commit; without a    *)
(* recorded step, the loop in which the parent made it.                       *)
HasCycle(c) == c # Base /\ Row(c).result # None /\ Row(c).whole
Maker(c) == IF HasCycle(c) THEN c[1] ELSE None
ParentLoop(p, c) == IF HasCycle(c) /\ c[1] = p THEN Row(c).loop ELSE 0

AnchorOf(b, maker, step) ==
  IF b = None THEN None
  ELSE [commit |-> b.start, parent |-> b.parent, step |-> IF b.owner = None THEN step ELSE b.step,
        source |-> OrElse(b.owner, OrElse(maker, b.parent))]

InheritAnchor(g) ==
  CASE Mode[g] = "baseline" -> None
    [] Mode[g] # "baseline" /\ Recorded(g) ->
         AnchorOf(origin[g], Maker(origin[g].start), ParentLoop(origin[g].parent, origin[g].start))
    [] OTHER -> AnchorOf(Now(g), None, 0)

------------------------------------------------------------------------------
(* The points of a group.                                                     *)

(* One row for each loop, that of the newest run, and those without a cycle.  *)
KeptRows(g) ==
  {c \in ScoredCommits(g) :
     Row(c).whole => \A d \in Cycled(ScoredCommits(g)) : Row(d).loop = Row(c).loop => d[2] <= c[2]}

LoopOnly(c) == Row(c).loop              \* variant: the step of the anchor is forgotten
StepOf(a) == IF a = None THEN 0 ELSE a.step
TrajectoryX(c) == IF Row(c).whole THEN StepOf(InheritAnchor(c[1])) + Row(c).loop ELSE 0

OwnPoints(g) ==
  {[x |-> TrajectoryX(c), commit |-> c, value |-> Row(c).result] : c \in KeptRows(g)}
  \cup (IF Mode[g] = "baseline" THEN {[x |-> 0, commit |-> None, value |-> BaselineScore]} ELSE {})

(* A collapse shows the commit it builds on, at the value its source shows in *)
(* that place, and the way to it when the source is of its own area.          *)
BasePoints(a, own, source) ==
  {[x |-> a.step, commit |-> a.commit, value |-> p.value] :
     p \in {q \in source : q.x = a.step /\ \A o \in own : o.x # a.step}}

HasStart(g) == Mode[g] = "baseline" \/ InheritAnchor(g) # None
PathPoints(g, a, source) ==
  LET from == StepOf(InheritAnchor(a.source)) IN
  IF Area[a.source] # Area[g] \/ ~HasStart(a.source) THEN {}
  ELSE {p \in source : p.x > from /\ p.x < a.step}

CollapsePoints(g, a, own, source) == BasePoints(a, own, source) \cup PathPoints(g, a, source)
SourcePoints(g, a) ==
  IF a = None THEN {} ELSE IF a.source = None THEN {}
  ELSE CollapsePoints(g, a, OwnPoints(g), OwnPoints(a.source))

Points(g) ==
  OwnPoints(g) \cup (IF Role[g] = "collapse" THEN SourcePoints(g, InheritAnchor(g)) ELSE {})

(* The star of a group: the point of its top commit, whichever group made it. *)
OwnStar(g, w, p) ==                     \* variant: the commit must be of the group itself
  IF w = None THEN FALSE
  ELSE IF w.baseline THEN p.commit = None
  ELSE p.commit = w.commit /\ p.commit \notin {None, Base} /\ p.commit[1] = g
Star(g, w, p) ==
  IF w = None THEN FALSE ELSE p.commit = IF w.baseline THEN None ELSE w.commit
Stars(g) == LET w == Winner(g) IN {p \in Points(g) : Star(g, w, p)}

------------------------------------------------------------------------------
(* The lineage of a group, for the connectors.                                *)

(* The source of a merge whose top commit is c.                               *)
RecordedOwner(g, c) == None             \* variant: the owner of the commit, never the source
Shows(w, c) == IF w = None THEN FALSE ELSE w.commit = c
FirstOf(g, sources) ==
  IF sources = {} THEN None
  ELSE SourceIds(g)[CHOOSE i \in sources : \A j \in sources : i <= j]
PlannedSource(g, c) ==
  FirstOf(g, {i \in DOMAIN SourceIds(g) : Shows(Winner(SourceIds(g)[i]), c)})

ParentBy(g, a) ==
  IF a = None THEN None
  ELSE IF Mode[g] = "merge" THEN OrElse(PlannedSource(g, a.commit), a.parent) ELSE a.parent
LineageParent(g) == ParentBy(g, InheritAnchor(g))

(* The hops to the baseline, each at the top commit of its group.             *)
Primary(g) ==
  LET hops[n \in Nat] ==
        IF n = 0 THEN <<>>
        ELSE LET before == hops[n - 1]
                 next == LineageParent(IF before = <<>> THEN g ELSE before[Len(before)])
             IN IF Len(before) < n - 1 \/ next = None \/ (\E i \in DOMAIN before : before[i] = next)
                THEN before ELSE Append(before, next)
  IN hops[Cardinality(Group)]

(* The sources a merge folds in, for the arrows: as planned by the last cycle,*)
(* or now when none is recorded.  The last cycle is that of the highest loop, *)
(* of the last start only while no resume has started the group again.        *)
MergePlan(g) ==
  CASE Mode[g] # "merge" -> None
    [] Mode[g] = "merge" /\ Recorded(g) -> boot[g]
    [] OTHER -> Now(g)

(* The participants that have a group, without the first of them: that is the *)
(* base, or a fold-in if the base is the baseline's.                          *)
FoldIns(plan) ==
  IF plan = None THEN {}
  ELSE IF plan.owner = None THEN plan.foldIns \ plan.first ELSE plan.foldIns

FoldInSource(g, f) == OrElse(PlannedSource(g, f.commit), f.owner)
Secondary(g) == {FoldInSource(g, f) : f \in FoldIns(MergePlan(g))}

------------------------------------------------------------------------------
(* The map of the areas: each stands for its collapse, or its only leaf.      *)

Areas == {Area[g] : g \in {h \in Group : Role[h] # "final_merge"}}

ResultGroup(a) ==
  LET collapses == {g \in Group : Area[g] = a /\ Role[g] = "collapse"}
      first == CHOOSE i \in DOMAIN Order : /\ Area[Order[i]] = a
                                           /\ \A j \in 1..(i - 1) : Area[Order[j]] # a
  IN IF collapses # {} THEN CHOOSE g \in collapses : TRUE ELSE Order[first]

ParentArea(a) ==
  LET heirs == {i \in DOMAIN Order : /\ Area[Order[i]] = a /\ Role[Order[i]] = "leaf"
                                     /\ Parent[Order[i]] # None}
      heir == Order[CHOOSE i \in heirs : \A j \in heirs : i <= j]
  IN IF heirs = {} THEN None ELSE Area[Parent[heir]]

Ancestors(a) ==
  LET up[n \in Nat] == IF n = 0 THEN a
                       ELSE LET below == up[n - 1] IN IF below = None THEN None ELSE ParentArea(below)
  IN {up[n] : n \in 1..Cardinality(Group)} \ {None}

------------------------------------------------------------------------------
(* Every place at which the dashboard shows a commit: points, top commits and *)
(* the steps at which groups branched off.                                    *)
AllPoints == UNION {Points(g) : g \in Group}
Marks(points) ==
  LET winners == {Winner(g) : g \in Group} \ {None}
      anchors == {InheritAnchor(g) : g \in Group} \ {None}
  IN {<<p.commit, p.x>> : p \in points}
     \cup {<<m.commit, m.step>> : m \in winners \cup anchors}

(* The registry can score the commits that groups recorded to start from, and *)
(* no group would start at a branch of which it knows no step.                *)
StartsScored ==
  \A g \in Group :
    /\ origin[g] # None => origin[g].start = Base \/ OwnedBy(origin[g]) # {}
    /\ LET b == Now(g) IN b # None => b.start = Base \/ b.owner # None

(* A commit with a run and a cycle row has one place on the axis, whichever   *)
(* group shows it and whether that place was recorded when a group started or *)
(* computed for the build, and a point shows the score of its own commit, as  *)
(* long as the row of that commit is kept: of a loop that a resume ran again, *)
(* only the newest is.                                                        *)
OnePlacePerCommit ==
  LET points == AllPoints
      marks == {m \in Marks(points) : m[1] \notin {None, Base}}
      whole == {m \in marks : Row(m[1]).whole}
  IN StartsScored =>
       /\ Cardinality({m[1] : m \in whole}) = Cardinality(whole)
       /\ \A p \in points :
            p.commit \notin {None, Base} =>
              (p.commit \in Cycled(KeptRows(p.commit[1])) => p.value = Row(p.commit).result)

(* What the lineage panel calls the top commit of a group is on the chart as  *)
(* a starred point, as long as it has a score: of the group itself if its row *)
(* is kept, and of another group if a collapse adopted it from a loop with a  *)
(* cycle row, even when a resume has run that loop again.                     *)
TopCommitsAreStarred ==
  StartsScored =>
    \A g \in Group :
      LET w == Winner(g) IN
      /\ w # None
      /\ ~w.baseline
      /\ IF w.commit[1] = g THEN w.commit \in KeptRows(g)
         ELSE Role[g] = "collapse" /\ w.commit \in Cycled(ScoredCommits(w.commit[1]))
      => Stars(g) # {}

(* From the group that stands for an area, the connectors lead through the    *)
(* groups that stand for the areas above it, as the configuration has them,   *)
(* although the registry records the owners of commits, which are leaves.     *)
OverviewFollowsAreas ==
  \A a \in Areas :
    LET g == ResultGroup(a)  hops == Primary(g) IN
    origin[g] # None => {Area[hops[i]] : i \in DOMAIN hops} \ {a} = Ancestors(a)

(* The arrows into a merge come from the sources it was given, none from the  *)
(* group it is based on, and one for each commit it folds in, or one less if  *)
(* it is based on the baseline; as long as the plan and the top commits are   *)
(* of one invocation.                                                         *)
FoldInsDrawn(g) ==
  LET plan == MergePlan(g)  drawn == Secondary(g)
      lost == IF plan.owner = None /\ plan.foldIns # {} THEN 1 ELSE 0 IN
  plan # None =>
    /\ drawn \subseteq {SourceIds(g)[i] : i \in DOMAIN SourceIds(g)}
    /\ Cardinality(drawn) = Cardinality(plan.foldIns) - lost
    /\ LineageParent(g) \notin drawn
FoldInsAreDrawn == invocations = 1 => \A g \in Group : FoldInsDrawn(g)
==============================================================================
