--------------------------- MODULE MCConfigDesugar ---------------------------
(* ConfigDesugar on all configurations of up to three areas: any lineage      *)
(* between them, known, unknown or cyclic, and up to two approaches each.     *)
EXTENDS ConfigDesugar

XYZ == <<"x", "y", "z">>
Experiment(mode, parent, k, combine) ==
  [mode |-> mode, parent |-> parent, task |-> "experiment", draws |-> <<>>,
   approaches |-> k, combine |-> combine]
MergeOf(parent, draws) ==
  [mode |-> "inherit", parent |-> parent, task |-> "merge", draws |-> draws,
   approaches |-> 0, combine |-> TRUE]

Sizes == {<<0, TRUE>>, <<1, TRUE>>, <<2, TRUE>>, <<2, FALSE>>}
Entries ==
  {Experiment("baseline", None, s[1], s[2]) : s \in Sizes}
  \cup {Experiment("inherit", p, s[1], s[2]) : p \in {"x", "y", "z"}, s \in Sizes}
  \cup {Experiment("baseline", "x", 0, TRUE), Experiment("inherit", None, 0, TRUE)}
  \cup {MergeOf(None, <<>>), MergeOf(None, <<"x", "y">>), MergeOf("x", <<>>)}

X == Plain("x")
Y == Plain("y")
Z == Plain("z")
Hand == {<<>>, <<{X}, {Y}, {Z}>>, <<{X, Y}, {Z}>>, <<{Z}, {X}>>, <<{Y}, {X}, {Y}>>}

Configs ==
  [areas : UNION {[1..n -> Entries] : n \in 1..3},
   combineAreas : {<<>>, <<"y", "x">>, <<"z">>}, waves : Hand]
==============================================================================
