------------------------------ MODULE MCLineage ------------------------------
(* Lineage on a chain of areas: the root r, an area of two leaves that is     *)
(* collapsed by selection, and an area of one leaf; a final merge.  Only a1   *)
(* has a second loop, so that a resume may run its first one again.  What CI  *)
(* says of a commit is chosen where the choice is told apart later on.        *)
EXTENDS Dashboard

ChainOrder == <<"r", "a1", "a2", "ac", "c", "f">>
Chain == {ChainOrder[i] : i \in DOMAIN ChainOrder}
ChainWave == [g \in Chain |-> CASE g = "r" -> 1 [] g \in {"a1", "a2"} -> 2 [] g = "ac" -> 3
                                [] g = "c" -> 4 [] g = "f" -> 5]
ChainMode == [g \in Chain |-> CASE g = "r" -> "baseline" [] g \in {"ac", "f"} -> "merge" [] OTHER -> "inherit"]
ChainParent == [g \in Chain |-> CASE g \in {"a1", "a2"} -> "r" [] g = "c" -> "ac" [] OTHER -> None]
ChainDraws == [g \in Chain |-> CASE g = "ac" -> <<"a1", "a2">> [] g = "f" -> <<"ac", "c">> [] OTHER -> <<>>]
SomeCutOff == [g \in Chain |-> IF g = "a1" THEN {2} ELSE {}]
AllBest == [g \in Chain |-> "best_commit"]
KeepLatest == [g \in Chain |-> IF g = "c" THEN "last_commit" ELSE "best_commit"]
ChainArea == [g \in Chain |-> CASE g = "r" -> "r" [] g \in {"a1", "a2", "ac"} -> "a" [] OTHER -> g]
ChainRole == [g \in Chain |-> CASE g = "ac" -> "collapse" [] g = "f" -> "final_merge" [] OTHER -> "leaf"]
ChainBudget == [g \in Chain |-> CASE g = "ac" -> 0 [] g = "a1" -> 2 [] OTHER -> 1]
Scores == {0, 1, 2}
Outcomes == [g \in Chain |-> CASE g = "r" -> {1, Unscored, Failed} [] g = "a1" -> {1, 2, Unscored}
                              [] g = "c" -> {2, Unscored} [] g = "a2" -> {2} [] OTHER -> {1}]
==============================================================================
