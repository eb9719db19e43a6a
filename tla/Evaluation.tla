------------------------------ MODULE Evaluation -------------------------------
(******************************************************************************)
(* One evaluation from a push to a verdict: the frozen adapter runs tests,    *)
(* training and scorer; the evaluation node classifies what it printed and    *)
(* leaves a bundle; the workflow uploads it; run_loops, or the baseline       *)
(* helper, waits for the workflow and decides.  GroupLoop takes the verdicts  *)
(* that can come of this as its constant.                                     *)
(******************************************************************************)
EXTENDS Naturals

CONSTANTS
  Diagnostics,  \* what an adapter may say in its report's "diagnostics": of
                \* {"absent", "valid", "invalid"}; the MNIST one says nothing
  Reliable,     \* no job is lost, no download fails, no deadline passes
  None

(* Two programs judge an evaluation: the scorer the exact accuracy and        *)
(* latency, the node every target, of the rounded report.  "marginal" is met  *)
(* for the node only (rounded up to a bound), "short" for the scorer only     *)
(* (rounded below it, or short of a target the scorer is not given);          *)
(* "partial" is "short" for want of a target in the report.                   *)
Scored == {"met", "marginal", "short", "partial", "below"}
ScorerMet == {"met", "short", "partial"}
NodeMet == {"met", "marginal"}
FailureClass == {"none", "infra_failure", "code_failure", "eval_failure"}
Outcome == {"met_targets", "below_targets", "execution_blocked"}
Report == [passed : BOOLEAN, executed : BOOLEAN, class : FailureClass,
           metrics : Scored \cup {None}, diagnostics : {"absent", "valid", "invalid"}]
Bundle == [class : FailureClass, outcome : Outcome, metrics : Scored \cup {None}]
Verdict == [class : FailureClass, outcome : Outcome, met : BOOLEAN]

ASSUME EvaluationAssumption ==
  /\ Diagnostics # {} /\ Diagnostics \subseteq {"absent", "valid", "invalid"}
  /\ Reliable \in BOOLEAN
  /\ None \notin {"pass", "void", "fail", "ok", "garbled"} \cup Scored \cup Report \cup Bundle

VARIABLES
  kind,      \* node_kind
  step,      \* of the workflow's job
  tests, train, score,  \* how the commands of the adapter went
  report,    \* the JSON it printed
  exit,      \* its exit code
  bundle,    \* what the node wrote
  uploaded,  \* the bundle can be downloaded
  reader,    \* the process that waits
  verdict,   \* what run_loops makes of it
  row,       \* the run and its outcome in the registry
  baseline   \* the baseline snapshot: whether it was made from this evaluation

vars == <<kind, step, tests, train, score, report, exit, bundle, uploaded, reader, verdict, row, baseline>>
job == <<step, tests, train, score, report, exit, bundle, uploaded>>
decision == <<reader, verdict, row, baseline>>

(* Readers ask one or the other whether the evaluation was blocked.           *)
Consistent(b) == b.outcome = "execution_blocked" <=> b.class # "none"

CommandTypes ==
  /\ kind \in {"experiment", "baseline"}
  /\ step \in {"tests", "train", "score", "report", "normalize", "upload", "success", "failure"}
  /\ tests \in {None, "pass", "void", "fail"} /\ train \in {None, "ok", "garbled", "fail"}
  /\ score \in {None, "no checkpoint", "crash"} \cup Scored
ArtifactTypes ==
  /\ report \in Report \cup {None} /\ exit \in {None, 0, 1, 2}
  /\ bundle \in Bundle \cup {None} /\ uploaded \in BOOLEAN
  /\ bundle # None => Consistent(bundle)
DecisionTypes ==
  /\ reader \in {"watching", "fetching", "refused", "done"}
  /\ verdict \in Verdict \cup {None} /\ row \in Bundle \cup {None} /\ baseline \in {None} \cup Scored
TypeOK == CommandTypes /\ ArtifactTypes /\ DecisionTypes

Init ==
  /\ kind \in {"experiment", "baseline"} /\ step = "tests" /\ uploaded = FALSE /\ reader = "watching"
  /\ tests = None /\ train = None /\ score = None /\ report = None /\ exit = None
  /\ bundle = None /\ verdict = None /\ row = None /\ baseline = None

------------------------------------------------------------------------------
(* The adapter: each command runs only if the one before it ended well.       *)

(* "void": pytest exits well, but nothing has passed; what follows runs.      *)
RunTests ==
  /\ step = "tests" /\ tests' \in {"pass", "void", "fail"}
  /\ step' = IF tests' = "fail" THEN "report" ELSE "train"
  /\ UNCHANGED <<kind, train, score, report, exit, bundle, uploaded, decision>>

(* "garbled": training leaves metrics that are not JSON; whether it also      *)
(* fails makes no difference.                                                 *)
Train ==
  /\ step = "train" /\ train' \in {"ok", "garbled", "fail"}
  /\ step' = IF train' = "fail" THEN "report" ELSE "score"
  /\ UNCHANGED <<kind, tests, score, report, exit, bundle, uploaded, decision>>

Score ==
  /\ step = "score" /\ step' = "report"
  /\ score' \in IF train = "garbled" THEN {"crash"} ELSE {"no checkpoint", "crash"} \cup Scored
  /\ UNCHANGED <<kind, tests, train, report, exit, bundle, uploaded, decision>>

Executed == tests = "pass" /\ train = "ok" /\ score \in Scored
AdapterClass ==
  IF tests # "pass" \/ train = "fail" THEN "code_failure"
  ELSE IF score \in Scored THEN "none"
  ELSE IF score = "no checkpoint" THEN "code_failure" ELSE "eval_failure"

(* Reading garbled metrics raises, and nothing is printed.                    *)
WriteReport ==
  /\ step = "report" /\ step' = "normalize"
  /\ IF train = "garbled" THEN exit' = 1 /\ report' = None
     ELSE /\ exit' = IF Executed THEN 0 ELSE 2
          /\ \E d \in Diagnostics :
               report' = [passed |-> Executed /\ score \in ScorerMet, executed |-> Executed,
                          class |-> AdapterClass,
                          metrics |-> IF score \in Scored THEN score ELSE None, diagnostics |-> d]
  /\ UNCHANGED <<kind, tests, train, score, bundle, uploaded, decision>>

------------------------------------------------------------------------------
(* The evaluation node.  Metrics that are null are keys of the report too.    *)

ByExitCode == IF exit \in {0, 2} THEN "none" ELSE "infra_failure"   \* variant: health flag not asked
ClassifyFailure ==
  IF exit = 0 THEN "none"
  ELSE IF ~report.executed THEN report.class
  ELSE IF exit = 2 THEN "none" ELSE "infra_failure"

Passed == exit = 0 /\ report.passed
MeetsExpectations == report.metrics \in NodeMet

OutcomeByTargets ==                     \* variant: targets before execution
  IF Passed /\ MeetsExpectations THEN "met_targets" ELSE "below_targets"
ResearchOutcome ==
  IF ClassifyFailure # "none" THEN "execution_blocked"
  ELSE IF Passed /\ MeetsExpectations THEN "met_targets" ELSE "below_targets"

Printed == report # None
Readable ==
  /\ Printed
  /\ report.diagnostics = "valid" \/ (report.diagnostics = "absent" /\ report.executed)

(* normalize, write, and the workflow's own ingest of what was written.       *)
Normalize ==
  /\ step = "normalize" /\ Readable /\ step' = "upload"
  /\ bundle' = [class |-> ClassifyFailure, outcome |-> ResearchOutcome, metrics |-> report.metrics]
  /\ UNCHANGED <<kind, tests, train, score, report, exit, uploaded, decision>>

(* normalize_eval_node raises: the steps after it are skipped, upload too.    *)
NormalizeRaises ==
  /\ step = "normalize" /\ ~Readable /\ step' = "failure"
  /\ UNCHANGED <<kind, tests, train, score, report, exit, bundle, uploaded, decision>>

Upload ==
  /\ step = "upload" /\ uploaded' = TRUE
  /\ step' = IF bundle.class = "none" THEN "success" ELSE "failure"
  /\ UNCHANGED <<kind, tests, train, score, report, exit, bundle, decision>>

Ended == step \in {"success", "failure"}

(* The job runs out of time, is cancelled by a push, or loses its runner.     *)
JobFails ==
  /\ ~Reliable /\ ~Ended /\ step' = "failure"
  /\ UNCHANGED <<kind, tests, train, score, report, exit, bundle, uploaded, decision>>

------------------------------------------------------------------------------
(* The process that pushed or dispatched.                                     *)

WatchToTheEnd ==                        \* variant: no deadline
  /\ reader = "watching" /\ Ended
  /\ reader' = IF kind = "baseline" /\ step # "success" THEN "refused" ELSE "fetching"
  /\ UNCHANGED <<kind, job, verdict, row, baseline>>
(* Until the workflow has ended or the deadline has passed; only the baseline *)
(* helper asks which.                                                         *)
Watch ==
  /\ reader = "watching" /\ (Ended \/ ~Reliable)
  /\ reader' = IF kind = "baseline" /\ step # "success" THEN "refused" ELSE "fetching"
  /\ UNCHANGED <<kind, job, verdict, row, baseline>>

NoBundle == [class |-> "infra_failure", outcome |-> "execution_blocked", met |-> FALSE]

(* No artifact, or gh cannot get it.                                          *)
DownloadFails ==
  /\ reader = "fetching" /\ (~uploaded \/ ~Reliable)
  /\ IF kind = "baseline" THEN reader' = "refused" /\ verdict' = verdict
     ELSE reader' = "done" /\ verdict' = NoBundle
  /\ UNCHANGED <<kind, job, row, baseline>>

Conclude ==
  /\ reader = "fetching" /\ uploaded /\ kind = "experiment" /\ reader' = "done"
  /\ row' = bundle
  /\ verdict' = [class |-> bundle.class, outcome |-> bundle.outcome, met |-> bundle.outcome = "met_targets"]
  /\ UNCHANGED <<kind, job, baseline>>

Measured == bundle.class = "none" /\ bundle.metrics \notin {None, "partial"}
RecordBaseline ==
  /\ reader = "fetching" /\ uploaded /\ kind = "baseline"
  /\ IF Measured THEN reader' = "done" /\ baseline' = bundle.metrics
     ELSE reader' = "refused" /\ baseline' = baseline
  /\ UNCHANGED <<kind, job, verdict, row>>

Adapter == RunTests \/ Train \/ Score \/ WriteReport
Node == Normalize \/ NormalizeRaises \/ Upload \/ JobFails
Reader == Watch \/ DownloadFails \/ Conclude \/ RecordBaseline
Next == Adapter \/ Node \/ Reader

Spec == Init /\ [][Next]_vars
ReaderSpec == Spec /\ WF_vars(Reader)

------------------------------------------------------------------------------
(* What a loop is told, and may stop on, is what happened: it counts as clean *)
(* exactly if tests, training and scoring ended well, and as a success        *)
(* exactly if moreover scorer and node both find the targets met, the one of  *)
(* the exact and the other of the rounded metrics: what either finds missed   *)
(* is below.  Without a bundle it is a failure; and the baseline that         *)
(* everything is compared with was measured, on every target.                 *)
VerdictIsEvaluations ==
  /\ row # None => /\ verdict.class = "none" <=> Executed
                   /\ verdict.met <=> Executed /\ score \in ScorerMet \cap NodeMet
  /\ verdict # None /\ row = None => verdict.class # "none" /\ ~verdict.met
  /\ baseline # None => Executed /\ baseline = score /\ score # "partial"

(* Whatever becomes of the job, whoever waits for it goes on.                 *)
ReaderDecides == reader = "watching" ~> reader \in {"done", "refused"}

(* "Do not hide execution failures; classify as infra_failure, code_failure,  *)
(* or eval_failure": the next cycle is told the class the adapter found.      *)
FailuresAreClassified == verdict # None /\ report # None => verdict.class = report.class
==============================================================================
