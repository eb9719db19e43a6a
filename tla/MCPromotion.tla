------------------------------ MODULE MCPromotion ------------------------------
(* A file that every tree has, one that only a commit of the study adds and   *)
(* another drops, and one outside workdir; two commits, of two groups.        *)
EXTENDS Promotion, TLC

CONSTANTS c1, c2, g1, g2

MCOld == "model" :> "old" @@ "extra" :> None @@ "notes" :> "old"
MCTree == c1 :> ("model" :> c1 @@ "extra" :> None) @@ c2 :> ("model" :> c2 @@ "extra" :> c2)
MCScore == c1 :> 1 @@ c2 :> 2
MCOrder == <<g1, g2>>
MCPolicy == g1 :> "best_commit" @@ g2 :> "last_commit"
==============================================================================
