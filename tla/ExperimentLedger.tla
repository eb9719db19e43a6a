--------------------------- MODULE ExperimentLedger ---------------------------
(******************************************************************************)
(* What a research group promises about the experiments it runs, with no      *)
(* mention of git, GitHub, the agent or the registry.  One experiment is      *)
(* one agent cycle.  It is either blocked or validated; only a validated      *)
(* one is published; only a published one is evaluated; and a result is       *)
(* recorded only for an evaluated experiment, exactly as it was evaluated.    *)
(* Nothing that happened to an experiment is ever undone.  Crashes may        *)
(* strand an experiment at any stage, so nothing is promised about            *)
(* progress.                                                                  *)
(******************************************************************************)
CONSTANTS Experiment,   \* the experiments a group may ever run
          Verdict,      \* every outcome an evaluation may have
          Usable        \* those of Verdict that may be recorded

VARIABLES stage,        \* how far each experiment has come
          verdict,      \* what its evaluation concluded
          recorded      \* what the registry says it concluded

ledger == <<stage, verdict, recorded>>

Unknown == "none"

LedgerInit ==
  /\ stage = [e \in Experiment |-> "new"]
  /\ verdict = [e \in Experiment |-> Unknown]
  /\ recorded = [e \in Experiment |-> Unknown]

(* The guards of the cycle rejected experiment e.                             *)
Block(e) ==
  /\ stage[e] = "new"
  /\ stage' = [stage EXCEPT ![e] = "blocked"]
  /\ UNCHANGED <<verdict, recorded>>

(* The guards of the cycle accepted experiment e.                             *)
Validate(e) ==
  /\ stage[e] = "new"
  /\ stage' = [stage EXCEPT ![e] = "validated"]
  /\ UNCHANGED <<verdict, recorded>>

(* The experiments of batch reach the remote together: the one just run,      *)
(* and earlier ones whose own attempt to publish was cut short.               *)
(* Evaluations still under way are then given up without a usable outcome.    *)
Publish(batch) ==
  /\ batch # {}
  /\ \E dropped \in SUBSET {x \in Experiment : stage[x] = "published"},
        v \in Verdict \ Usable :
       /\ stage' = [x \in Experiment |-> IF x \in batch THEN "published"
                                         ELSE IF x \in dropped THEN "evaluated"
                                         ELSE stage[x]]
       /\ verdict' = [x \in Experiment |-> IF x \in dropped THEN v
                                           ELSE verdict[x]]
  /\ UNCHANGED recorded

Evaluate(e) ==
  /\ stage[e] = "published"
  /\ stage' = [stage EXCEPT ![e] = "evaluated"]
  /\ \E v \in Verdict : verdict' = [verdict EXCEPT ![e] = v]
  /\ UNCHANGED recorded

Record(e) ==
  /\ stage[e] = "evaluated"
  /\ verdict[e] \in Usable
  /\ recorded[e] = Unknown
  /\ recorded' = [recorded EXCEPT ![e] = verdict[e]]
  /\ UNCHANGED <<stage, verdict>>

LedgerNext ==
  \/ \E e \in Experiment : Block(e) \/ Validate(e) \/ Evaluate(e) \/ Record(e)
  \/ \E batch \in SUBSET {e \in Experiment : stage[e] = "validated"} : Publish(batch)

LedgerSpec == LedgerInit /\ [][LedgerNext]_ledger
===============================================================================
