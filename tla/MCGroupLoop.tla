----------------------------- MODULE MCGroupLoop -----------------------------
(* GroupLoop on small instances; the configurations pick the constants.       *)
EXTENDS GroupLoop
==============================================================================
