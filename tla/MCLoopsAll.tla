----------------------------- MODULE MCLoopsAll -----------------------------
(* LoopsAll on a study of two areas: a fans out into two leaves and a         *)
(* collapse, b inherits from that collapse.                                   *)
EXTENDS LoopsAll

AreaGroups == {"a1", "a2", "ac", "b"}
AreaWaves == <<{"a1", "a2"}, {"ac"}, {"b"}>>
AreaSources == [g \in AreaGroups |-> CASE g = "ac" -> {"a1", "a2"}
                                       [] g = "b" -> {"ac"}
                                       [] OTHER -> {}]
AreaLeaves == {"a1", "a2", "b"}
AreaOf == [g \in AreaGroups |-> IF g = "b" THEN "b" ELSE "a"]
AreaBudget == [g \in AreaGroups |-> CASE g = "a1" -> 2 [] g = "ac" -> 0 [] OTHER -> 1]
==============================================================================
