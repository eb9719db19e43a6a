----------------------------- MODULE ConfigDesugar -----------------------------
(******************************************************************************)
(* What core/config.py makes of the research groups of a configuration when   *)
(* it is loaded: areas that declare approaches fan out into leaves and a      *)
(* collapse, the results of terminal areas meet in a final merge, waves are   *)
(* derived, and what comes out is validated like a flat configuration, or     *)
(* refused.  LoopsAll and Lineage take the loaded groups as their constants.  *)
(******************************************************************************)
EXTENDS Naturals, Sequences, SequencesExt

CONSTANTS
  Names,    \* what areas are called, in the order of the file; one that is
            \* not listed may still be referred to
  Config,   \* the configurations that may be loaded
  None      \* inherit_from, area or role not set

Name == ToSet(Names)
AreaEntry == [mode : {"baseline", "inherit"}, parent : Name \cup {None},
              task : {"experiment", "merge"}, draws : Seq(Name),
              approaches : Nat, combine : BOOLEAN]

(* The id of a group: the area itself, its i-th leaf, its collapse.           *)
FinalId == <<"final_merge", "area", 0>>
Id == (Name \X {"area", "leaf", "collapse"} \X Nat) \cup {FinalId}
Plain(a) == <<a, "area", 0>>
Leaf(a, i) == <<a, "leaf", i>>
Collapse(a) == <<a, "collapse", 0>>

Group == [id : Id, task : {"experiment", "merge"}, parent : Id \cup {None}, draws : Seq(Id),
          select : BOOLEAN, area : Name \cup {None, "final_merge"},
          role : {None, "leaf", "collapse", "final_merge"}]

ASSUME ConfigAssumption ==
  /\ Names \in Seq(Name) /\ IsInjective(Names) /\ "final_merge" \notin Name
  /\ None \notin Name \cup Id \cup {"leaf", "collapse", "final_merge"}
  /\ \A c \in Config : /\ c.areas \in Seq(AreaEntry) /\ Len(c.areas) <= Len(Names)
                       /\ c.combineAreas \in Seq(Name)
                       /\ c.waves \in Seq(SUBSET {Plain(a) : a \in Name})

VARIABLES
  config,   \* the file: areas, combine_areas, execution_waves or _order
  stage,    \* how far it has been validated
  groups,   \* research_groups as they stand
  waves     \* execution_waves()

vars == <<config, stage, groups, waves>>

TypeOK ==
  /\ config \in Config /\ stage \in {"raw", "desugared", "described", "loaded", "rejected"}
  /\ groups \in Seq(Group) /\ waves \in Seq(SUBSET Id)
  /\ stage \in {"described", "loaded"} => \A g \in ToSet(groups) : g.role # None

------------------------------------------------------------------------------
(* The areas of the file.                                                     *)

Areas == ToSet(config.areas)
Listed == {Names[i] : i \in DOMAIN config.areas}
AreaNamed(n) == config.areas[CHOOSE i \in DOMAIN config.areas : Names[i] = n]
Inherits(a) == a.mode = "inherit" /\ a.parent # None
FansOut == \E a \in Areas : a.approaches > 0

(* combine_areas is not read in a flat configuration, nor waves in another.   *)
Init ==
  /\ config \in Config
  /\ IF FansOut THEN config.waves = <<>> ELSE config.combineAreas = <<>>
  /\ stage = "raw" /\ groups = <<>> /\ waves = <<>>

(* validate_group: only a merge may inherit from nobody in particular.        *)
WellFormed == \A a \in Areas : a.mode = "inherit" /\ a.task # "merge" => a.parent # None

(* The areas met going up from n, in order, then None; never None in a cycle. *)
Ancestry(n) ==
  LET up[i \in 0..Len(config.areas)] ==
        IF i = 0 THEN n
        ELSE LET below == up[i - 1] IN
             IF below \in Listed /\ Inherits(AreaNamed(below)) THEN AreaNamed(below).parent ELSE None
  IN up
InCycle(n) == Ancestry(n)[Len(config.areas)] # None
Level(n) == Cardinality({i \in 1..Len(config.areas) : Ancestry(n)[i] # None})

DesugarFails ==
  \/ \E a \in Areas : Inherits(a) /\ a.parent \notin Listed
  \/ \E n \in Listed : InCycle(n)
  \/ ~(ToSet(config.combineAreas) \subseteq Listed)

------------------------------------------------------------------------------
(* Groups and waves out of areas.                                             *)

FirstLeaf(n) == IF AreaNamed(n).approaches >= 2 THEN Leaf(n, 1) ELSE Plain(n)   \* variant
ResultNode(n) == IF AreaNamed(n).approaches >= 2 THEN Collapse(n) ELSE Plain(n)

LeafParent(a) ==
  IF Inherits(a) THEN ResultNode(a.parent)
  ELSE IF a.parent = None THEN None ELSE Plain(a.parent)

LeafIds(n) ==
  IF AreaNamed(n).approaches <= 1 THEN <<Plain(n)>>
  ELSE [i \in 1..AreaNamed(n).approaches |-> Leaf(n, i)]
LeafGroup(n, id) ==
  [id |-> id, task |-> AreaNamed(n).task, parent |-> LeafParent(AreaNamed(n)), draws |-> <<>>,
   select |-> FALSE, area |-> n, role |-> "leaf"]
CollapseGroup(n) ==
  [id |-> Collapse(n), task |-> "merge", parent |-> None, draws |-> LeafIds(n),
   select |-> ~AreaNamed(n).combine, area |-> n, role |-> "collapse"]
Expand(n) ==
  [i \in DOMAIN LeafIds(n) |-> LeafGroup(n, LeafIds(n)[i])]
  \o (IF AreaNamed(n).approaches <= 1 THEN <<>> ELSE <<CollapseGroup(n)>>)

Roots(n) == ~Inherits(AreaNamed(n))     \* variant: the wrong end
Terminal(n) == ~\E b \in Areas : Inherits(b) /\ b.parent = n
FinalAreas ==
  IF config.combineAreas # <<>> THEN config.combineAreas
  ELSE FlattenSeq([i \in DOMAIN config.areas |-> IF Terminal(Names[i]) THEN <<Names[i]>> ELSE <<>>])

FinalGroup ==
  [id |-> FinalId, task |-> "merge", parent |-> None,
   draws |-> [i \in DOMAIN FinalAreas |-> ResultNode(FinalAreas[i])],
   select |-> FALSE, area |-> "final_merge", role |-> "final_merge"]
FinalMerge == IF Len(FinalAreas) < 2 THEN <<>> ELSE <<FinalGroup>>

Expanded == FlattenSeq([i \in DOMAIN config.areas |-> Expand(Names[i])])
WaveOf(level, role) ==
  {g.id : g \in {h \in ToSet(Expanded) : h.role = role /\ Level(h.area) = level}}

WaveIfAny(wave) == IF wave = {} THEN <<>> ELSE <<wave>>
OneWavePerLevel ==                      \* variant: a collapse beside its leaves
  FlattenSeq([i \in DOMAIN config.areas |-> WaveIfAny(WaveOf(i - 1, "leaf") \cup WaveOf(i - 1, "collapse"))])
AreaWaves ==
  FlattenSeq([i \in DOMAIN config.areas |->
                WaveIfAny(WaveOf(i - 1, "leaf")) \o WaveIfAny(WaveOf(i - 1, "collapse"))])
DerivedWaves == AreaWaves \o [i \in DOMAIN FinalMerge |-> {FinalId}]

FlatGroup(n) ==
  LET a == AreaNamed(n) IN
  [id |-> Plain(n), task |-> a.task, select |-> FALSE,
   parent |-> IF a.parent = None THEN None ELSE Plain(a.parent),
   draws |-> [i \in DOMAIN a.draws |-> Plain(a.draws[i])], area |-> None, role |-> None]
FlatGroups == [i \in DOMAIN config.areas |-> FlatGroup(Names[i])]

------------------------------------------------------------------------------
(* The rules every configuration is held to in the end.                       *)

Ids == {groups[i].id : i \in DOMAIN groups}
Placed == UNION ToSet(waves)
Explicit(g) == ToSet(g.draws) \cup ({g.parent} \ {None})

(* The last wave a group is in.                                               *)
WavesOf(id) == {w \in DOMAIN waves : id \in waves[w]}
Position(id) == CHOOSE w \in WavesOf(id) : \A v \in WavesOf(id) \ {w} : v < w

AfterOthers(g) ==
  \A h \in ToSet(groups) : h.task # "merge" /\ h.id \in Placed => Position(h.id) < Position(g.id)
BesideSources(g) ==                     \* variant: off by one
  \A s \in Explicit(g) \cap Placed : Position(s) <= Position(g.id)
AfterSources(g) == \A s \in Explicit(g) \cap Placed : Position(s) < Position(g.id)

ValidOrder ==
  /\ Placed \subseteq Ids
  /\ \A g \in ToSet(groups) : g.id \in Placed =>
       IF g.task = "merge" /\ Explicit(g) = {} THEN AfterOthers(g) ELSE AfterSources(g)

ValidReferences ==
  /\ Cardinality(Ids) = Len(groups)
  /\ \A g \in ToSet(groups) : Explicit(g) \subseteq Ids
  /\ ValidOrder

------------------------------------------------------------------------------
(* A flat configuration, without approaches, passes through.                  *)
PassFlat ==
  /\ stage = "raw" /\ WellFormed /\ ~FansOut
  /\ groups' = FlatGroups
  /\ waves' = IF config.waves # <<>> THEN config.waves
              ELSE [i \in DOMAIN config.areas |-> {Plain(Names[i])}]
  /\ stage' = "desugared" /\ UNCHANGED config

DesugarAreas ==
  /\ stage = "raw" /\ WellFormed /\ FansOut /\ ~DesugarFails
  /\ groups' = Expanded \o FinalMerge /\ waves' = DerivedWaves
  /\ stage' = "desugared" /\ UNCHANGED config

AssignNothing ==                        \* variant: flat groups are forgotten
  stage = "desugared" /\ stage' = "described" /\ UNCHANGED <<config, groups, waves>>
AssignAreaMetadata ==
  /\ stage = "desugared" /\ stage' = "described"
  /\ groups' = [i \in DOMAIN groups |->
       IF groups[i].area # None THEN groups[i]
       ELSE [groups[i] EXCEPT !.area = groups[i].id[1],
                              !.role = IF groups[i].task = "merge" THEN "final_merge" ELSE "leaf"]]
  /\ UNCHANGED <<config, waves>>

ValidateReferences ==
  /\ stage = "described" /\ ValidReferences
  /\ stage' = "loaded" /\ UNCHANGED <<config, groups, waves>>

Reject ==
  /\ \/ stage = "raw" /\ (~WellFormed \/ (FansOut /\ DesugarFails))
     \/ stage = "described" /\ ~ValidReferences
  /\ stage' = "rejected" /\ UNCHANGED <<config, groups, waves>>

Next == PassFlat \/ DesugarAreas \/ AssignAreaMetadata \/ ValidateReferences \/ Reject

Spec == Init /\ [][Next]_vars

------------------------------------------------------------------------------
(* The groups a group is started from: those it names, or the tips of all     *)
(* lineages.                                                                  *)
SourcesOf(g) ==
  IF g.task = "merge" /\ Explicit(g) = {}
  THEN {h.id : h \in {x \in ToSet(groups) :
          x.task # "merge" /\ ~\E y \in ToSet(groups) : y.task # "merge" /\ y.parent = x.id}}
  ELSE Explicit(g)
GroupWith(id) == CHOOSE g \in ToSet(groups) : g.id = id

(* What a group builds on, at any distance.                                   *)
BuildsOn(id) ==
  LET back[n \in Nat] ==
        IF n = 0 THEN {id}
        ELSE LET near == back[n - 1] IN near \cup UNION {SourcesOf(GroupWith(i)) : i \in near}
  IN back[Len(groups)]

(* Areas that make sense together are never refused by what they expand to:   *)
(* the derived waves pass the rules that hand-written waves are held to.      *)
SoundAreas ==
  /\ WellFormed /\ ~DesugarFails
  /\ \A a \in Areas : a.task # "merge" /\ (a.mode = "baseline" => a.parent = None)
SoundAreasLoad == stage = "rejected" /\ FansOut => ~SoundAreas

NamedOnce == \A v, w \in DOMAIN waves : v # w => waves[v] \cap waves[w] = {}

(* Areas expand to a study in which every group runs, and runs once.          *)
RunsOnce == stage = "loaded" /\ FansOut => Placed = Ids /\ NamedOnce

(* What loops-all relies on (WavesAreOrdered of LoopsAll): a group runs after *)
(* all it is started from, named or discovered.  A wave list written by hand  *)
(* may break it by naming a group twice.                                      *)
RunsInOrder ==
  stage = "loaded" /\ NamedOnce =>
    \A v, w \in DOMAIN waves : \A id \in waves[w], s \in waves[v] :
      s \in SourcesOf(GroupWith(id)) => v < w

(* Nothing the study does is lost: unless combine_areas says otherwise, the   *)
(* last wave is one group, and it builds on every other one.                  *)
NothingIsLeftOut ==
  stage = "loaded" /\ FansOut /\ config.combineAreas = <<>> =>
    \E id \in Ids : waves[Len(waves)] = {id} /\ BuildsOn(id) = Ids

(* The map that lineage/resolve.py makes from leaves to area nodes: every     *)
(* edge into another area starts at the node that stands for its own.         *)
EdgesJoinResults ==
  stage = "loaded" /\ FansOut =>
    \A g \in ToSet(groups) : \A s \in {GroupWith(i) : i \in Explicit(g)} :
      s.area # g.area /\ s.role = "leaf" =>
        ~\E h \in ToSet(groups) : h.area = s.area /\ h.role # "leaf"
==============================================================================
