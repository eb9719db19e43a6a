---------------------------- MODULE EvaluationProofs ----------------------------
(******************************************************************************)
(* A verdict is the evaluation's, for every adapter that reports diagnostics  *)
(* as the schema allows, with lost jobs and failed downloads or without.  The *)
(* invariant follows one fact through three authorities: whether everything   *)
(* was executed, in the report, in the bundle and in the registry.            *)
(******************************************************************************)
EXTENDS Evaluation, TLAPS

(* Each command ran only if the one before it ended well.                     *)
CommandsInOrder ==
  /\ train # None => tests \in {"pass", "void"}
  /\ score # None => train \in {"ok", "garbled"}
  /\ score \in Scored => train = "ok"
  /\ step = "tests" => train = None
  /\ step \in {"tests", "train"} => score = None
  /\ step = "train" => tests \in {"pass", "void"}
  /\ step = "score" => train \in {"ok", "garbled"}

BeforeReport == {"tests", "train", "score", "report"}
ReportIsExecution ==
  report # None =>
    /\ step \notin BeforeReport
    /\ exit = (IF Executed THEN 0 ELSE 2)
    /\ report.executed = Executed /\ (report.class = "none" <=> Executed)
    /\ report.passed = (Executed /\ score \in ScorerMet)
    /\ report.metrics = (IF score \in Scored THEN score ELSE None)

BothMet == Executed /\ score \in ScorerMet \cap NodeMet
Tells(b) ==
  /\ b.class = "none" <=> Executed
  /\ b.outcome = "met_targets" <=> BothMet
  /\ b.metrics = (IF score \in Scored THEN score ELSE None)
BundleIsExecution ==
  /\ bundle # None => step \notin BeforeReport \cup {"normalize"} /\ Tells(bundle)
  /\ uploaded \/ step = "upload" => bundle # None

RegistryIsExecution ==
  /\ reader # "done" => verdict = None /\ row = None /\ baseline = None
  /\ row # None \/ baseline # None => bundle # None
  /\ VerdictIsEvaluations

Inv == TypeOK /\ CommandsInOrder /\ ReportIsExecution /\ BundleIsExecution /\ RegistryIsExecution

------------------------------------------------------------------------------
LEMMA InitInv == Init => Inv
<1> SUFFICES ASSUME Init PROVE Inv
  OBVIOUS
<1>1. TypeOK
  BY DEF Init, TypeOK, CommandTypes, ArtifactTypes, DecisionTypes, Scored
<1>2. CommandsInOrder
  BY EvaluationAssumption DEF Init, CommandsInOrder, Scored
<1>3. ReportIsExecution /\ BundleIsExecution /\ RegistryIsExecution
  BY DEF Init, ReportIsExecution, BundleIsExecution, RegistryIsExecution, VerdictIsEvaluations
<1> QED
  BY <1>1, <1>2, <1>3 DEF Inv

LEMMA ReportType ==
  ASSUME TypeOK, NEW d \in Diagnostics
  PROVE  [passed |-> Executed /\ score \in ScorerMet, executed |-> Executed,
          class |-> AdapterClass,
          metrics |-> IF score \in Scored THEN score ELSE None, diagnostics |-> d] \in Report
<1>1. AdapterClass \in FailureClass /\ Executed \in BOOLEAN
      /\ (Executed /\ score \in ScorerMet) \in BOOLEAN
  BY DEF AdapterClass, Executed, FailureClass
<1>2. (IF score \in Scored THEN score ELSE None) \in Scored \cup {None}
  OBVIOUS
<1>3. d \in {"absent", "valid", "invalid"}
  BY EvaluationAssumption
<1> QED
  BY <1>1, <1>2, <1>3 DEF Report

LEMMA NodeType ==
  ASSUME TypeOK, report # None
  PROVE  /\ ClassifyFailure \in FailureClass /\ ResearchOutcome \in Outcome
         /\ report.metrics \in Scored \cup {None}
         /\ ResearchOutcome = "execution_blocked" <=> ClassifyFailure # "none"
<1>1. report \in Report
  BY DEF TypeOK, ArtifactTypes
<1>2. report.class \in FailureClass /\ report.metrics \in Scored \cup {None}
  BY <1>1 DEF Report
<1>3. ClassifyFailure \in FailureClass
  BY <1>2 DEF ClassifyFailure, FailureClass
<1> QED
  BY <1>2, <1>3 DEF ResearchOutcome, Outcome

LEMMA CommandTypesStep == CommandTypes /\ [Next]_vars => CommandTypes'
<1> SUFFICES ASSUME CommandTypes, [Next]_vars PROVE CommandTypes'
  OBVIOUS
<1>1. CASE Adapter
  BY <1>1 DEF Adapter, RunTests, Train, Score, WriteReport, CommandTypes, Scored
<1>2. CASE Node
  BY <1>2 DEF Node, Normalize, NormalizeRaises, Upload, JobFails, CommandTypes
<1>3. CASE Reader \/ UNCHANGED vars
  BY <1>3 DEF Reader, Watch, DownloadFails, Conclude, RecordBaseline, job, vars, CommandTypes
<1> QED
  BY <1>1, <1>2, <1>3 DEF Next

LEMMA ArtifactTypesStep == TypeOK /\ [Next]_vars => ArtifactTypes'
<1> SUFFICES ASSUME TypeOK, [Next]_vars PROVE ArtifactTypes'
  OBVIOUS
<1>1. CASE RunTests \/ Train \/ Score
  BY <1>1 DEF RunTests, Train, Score, ArtifactTypes, TypeOK
<1>2. CASE WriteReport
  <2>1. report' \in Report \cup {None} /\ exit' \in {None, 0, 1, 2}
    BY <1>2, ReportType DEF WriteReport
  <2> QED
    BY <1>2, <2>1 DEF WriteReport, ArtifactTypes, TypeOK
<1>3. CASE Normalize
  <2>1. report # None
    BY <1>3 DEF Normalize, Readable, Printed
  <2> DEFINE b == [class |-> ClassifyFailure, outcome |-> ResearchOutcome, metrics |-> report.metrics]
  <2>2. bundle' = b /\ b \in Bundle /\ Consistent(b)
    BY <1>3, <2>1, NodeType DEF Normalize, Bundle, Consistent
  <2> HIDE DEF b
  <2> QED
    BY <1>3, <2>2 DEF Normalize, ArtifactTypes, TypeOK
<1>4. CASE NormalizeRaises \/ Upload \/ JobFails
  BY <1>4 DEF NormalizeRaises, Upload, JobFails, ArtifactTypes, TypeOK
<1>5. CASE Reader \/ UNCHANGED vars
  BY <1>5 DEF Reader, Watch, DownloadFails, Conclude, RecordBaseline, job, vars, ArtifactTypes, TypeOK
<1> QED
  BY <1>1, <1>2, <1>3, <1>4, <1>5 DEF Next, Adapter, Node

LEMMA DecisionTypesStep == TypeOK /\ BundleIsExecution /\ [Next]_vars => DecisionTypes'
<1> SUFFICES ASSUME TypeOK, BundleIsExecution, [Next]_vars PROVE DecisionTypes'
  OBVIOUS
<1>1. CASE Watch
  BY <1>1 DEF Watch, DecisionTypes, TypeOK
<1>2. CASE DownloadFails
  <2>1. NoBundle \in Verdict
    BY DEF NoBundle, Verdict, FailureClass, Outcome
  <2> HIDE DEF NoBundle
  <2> QED
    BY <1>2, <2>1 DEF DownloadFails, DecisionTypes, TypeOK
<1>3. CASE Conclude
  <2>1. bundle \in Bundle
    BY <1>3 DEF Conclude, BundleIsExecution, ArtifactTypes, TypeOK
  <2>2. verdict' \in Verdict /\ row' = bundle
    BY <1>3, <2>1 DEF Conclude, Bundle, Verdict
  <2> QED
    BY <1>3, <2>1, <2>2 DEF Conclude, DecisionTypes, TypeOK
<1>4. CASE RecordBaseline
  <2>1. bundle \in Bundle
    BY <1>4 DEF RecordBaseline, BundleIsExecution, ArtifactTypes, TypeOK
  <2>2. baseline' \in {None} \cup Scored
    BY <1>4, <2>1 DEF RecordBaseline, Measured, Bundle, DecisionTypes, TypeOK
  <2> QED
    BY <1>4, <2>2 DEF RecordBaseline, DecisionTypes, TypeOK
<1>5. CASE UNCHANGED decision
  BY <1>5 DEF decision, DecisionTypes, TypeOK
<1>6. CASE Adapter
  BY <1>5, <1>6 DEF Adapter, RunTests, Train, Score, WriteReport
<1>7. CASE Node
  BY <1>5, <1>7 DEF Node, Normalize, NormalizeRaises, Upload, JobFails
<1>8. CASE UNCHANGED vars
  BY <1>5, <1>8 DEF vars, decision
<1> QED
  BY <1>1, <1>2, <1>3, <1>4, <1>6, <1>7, <1>8 DEF Next, Reader

LEMMA CommandsStep == CommandTypes /\ CommandsInOrder /\ [Next]_vars => CommandsInOrder'
<1> SUFFICES ASSUME CommandTypes, CommandsInOrder, [Next]_vars PROVE CommandsInOrder'
  OBVIOUS
<1> USE EvaluationAssumption DEF CommandsInOrder, Scored
<1>1. CASE RunTests
  BY <1>1 DEF RunTests
<1>2. CASE Train
  BY <1>2 DEF Train
<1>3. CASE Score
  BY <1>3 DEF Score
<1>4. CASE WriteReport \/ Node
  BY <1>4 DEF WriteReport, Node, Normalize, NormalizeRaises, Upload, JobFails
<1>5. CASE Reader \/ UNCHANGED vars
  BY <1>5 DEF Reader, Watch, DownloadFails, Conclude, RecordBaseline, job, vars
<1> QED
  BY <1>1, <1>2, <1>3, <1>4, <1>5 DEF Next, Adapter

LEMMA ReportStep == TypeOK /\ CommandsInOrder /\ ReportIsExecution /\ [Next]_vars => ReportIsExecution'
<1> SUFFICES ASSUME TypeOK, CommandsInOrder, ReportIsExecution, [Next]_vars PROVE ReportIsExecution'
  OBVIOUS
<1>1. CASE WriteReport
  <2>1. CASE train = "garbled"
    BY <1>1, <2>1 DEF WriteReport, ReportIsExecution
  <2>2. CASE train # "garbled"
    <3>1. PICK d \in Diagnostics :
            report' = [passed |-> Executed /\ score \in ScorerMet, executed |-> Executed,
                       class |-> AdapterClass,
                       metrics |-> IF score \in Scored THEN score ELSE None, diagnostics |-> d]
      BY <1>1, <2>2 DEF WriteReport
    <3>2. AdapterClass = "none" <=> Executed
      BY EvaluationAssumption DEF AdapterClass, Executed, CommandsInOrder, Scored
    <3>3. UNCHANGED <<tests, train, score>> /\ step' = "normalize" /\ exit' = (IF Executed THEN 0 ELSE 2)
      BY <1>1, <2>2 DEF WriteReport
    <3>4. Executed' = Executed
      BY <3>3 DEF Executed
    <3> QED
      BY <3>1, <3>2, <3>3, <3>4 DEF ReportIsExecution, BeforeReport
  <2> QED
    BY <2>1, <2>2
<1>2. CASE RunTests \/ Train \/ Score      \* nothing is reported yet
  BY <1>2 DEF RunTests, Train, Score, ReportIsExecution, BeforeReport
<1>3. CASE Node
  BY <1>3 DEF Node, Normalize, NormalizeRaises, Upload, JobFails, ReportIsExecution, BeforeReport, Executed
<1>4. CASE Reader \/ UNCHANGED vars
  BY <1>4 DEF Reader, Watch, DownloadFails, Conclude, RecordBaseline, job, vars, ReportIsExecution, Executed
<1> QED
  BY <1>1, <1>2, <1>3, <1>4 DEF Next, Adapter

(* What the node makes of a report that is the execution's.                   *)
LEMMA NodeTells ==
  ASSUME CommandsInOrder, ReportIsExecution, report # None
  PROVE  Tells([class |-> ClassifyFailure, outcome |-> ResearchOutcome, metrics |-> report.metrics])
<1>1. ClassifyFailure = "none" <=> Executed
  BY DEF ReportIsExecution, ClassifyFailure
<1>2. ResearchOutcome = "met_targets" <=> BothMet
  <2>1. CASE Executed
    <3>1. exit = 0 /\ report.metrics = score /\ report.passed = (score \in ScorerMet)
      BY <2>1 DEF ReportIsExecution, Executed
    <3> QED
      BY <1>1, <2>1, <3>1 DEF ResearchOutcome, Passed, MeetsExpectations, BothMet
  <2>2. CASE ~Executed
    BY <1>1, <2>2 DEF ResearchOutcome, BothMet
  <2> QED
    BY <2>1, <2>2
<1> QED
  BY <1>1, <1>2 DEF Tells, ReportIsExecution

(* Nothing that ran can change once the node has written its bundle.          *)
LEMMA BundleStep ==
  TypeOK /\ CommandsInOrder /\ ReportIsExecution /\ BundleIsExecution /\ [Next]_vars => BundleIsExecution'
<1> SUFFICES ASSUME TypeOK, CommandsInOrder, ReportIsExecution, BundleIsExecution, [Next]_vars
             PROVE  BundleIsExecution'
  OBVIOUS
<1>1. CASE Adapter
  <2>1. step \in BeforeReport /\ step' # "upload" /\ UNCHANGED <<bundle, uploaded>>
    BY <1>1 DEF Adapter, RunTests, Train, Score, WriteReport, BeforeReport
  <2> QED
    BY <2>1 DEF BundleIsExecution
<1>2. CASE Normalize
  <2>1. report # None /\ UNCHANGED <<tests, train, score>> /\ step' = "upload"
    BY <1>2 DEF Normalize, Readable, Printed
  <2>2. Tells(bundle') /\ bundle' \in Bundle
    BY <1>2, <2>1, NodeTells, NodeType DEF Normalize, Bundle
  <2>3. Tells(bundle)'
    BY <2>1, <2>2 DEF Tells, BothMet, Executed
  <2> QED
    BY <2>1, <2>2, <2>3, EvaluationAssumption DEF BundleIsExecution, BeforeReport
<1>3. CASE NormalizeRaises \/ Upload \/ JobFails
  <2>1. UNCHANGED <<tests, train, score, bundle>>
    BY <1>3 DEF NormalizeRaises, Upload, JobFails
  <2>2. Tells(bundle)' <=> Tells(bundle)
    BY <2>1 DEF Tells, BothMet, Executed
  <2>3. uploaded' => uploaded \/ Upload
    BY <1>3 DEF NormalizeRaises, Upload, JobFails
  <2>4. step' \in {"success", "failure"} /\ (Upload => step = "upload")
    BY <1>3 DEF NormalizeRaises, Upload, JobFails
  <2> QED
    BY <2>1, <2>2, <2>3, <2>4 DEF BundleIsExecution, BeforeReport
<1>4. CASE Reader \/ UNCHANGED vars
  <2>1. UNCHANGED <<step, tests, train, score, bundle, uploaded>>
    BY <1>4 DEF Reader, Watch, DownloadFails, Conclude, RecordBaseline, job, vars
  <2>2. Tells(bundle)' <=> Tells(bundle)
    BY <2>1 DEF Tells, BothMet, Executed
  <2> QED
    BY <2>1, <2>2 DEF BundleIsExecution
<1> QED
  BY <1>1, <1>2, <1>3, <1>4 DEF Next, Node

LEMMA RegistryStep ==
  TypeOK /\ BundleIsExecution /\ RegistryIsExecution /\ [Next]_vars => RegistryIsExecution'
<1> SUFFICES ASSUME TypeOK, BundleIsExecution, RegistryIsExecution, [Next]_vars
             PROVE  RegistryIsExecution'
  OBVIOUS
<1>1. CASE Adapter
  <2>1. step \in BeforeReport /\ UNCHANGED <<bundle, reader, verdict, row, baseline>>
    BY <1>1 DEF Adapter, RunTests, Train, Score, WriteReport, BeforeReport, decision
  <2>2. row = None /\ baseline = None
    BY <2>1 DEF BundleIsExecution, RegistryIsExecution
  <2> QED
    BY <2>1, <2>2 DEF RegistryIsExecution, VerdictIsEvaluations
<1>2. CASE Node
  <2>1. UNCHANGED <<tests, train, score, reader, verdict, row, baseline>> /\ (bundle # None => bundle' # None)
    <3>1. CASE Normalize
      BY <1>2, <3>1 DEF Normalize, decision, BundleIsExecution
    <3>2. CASE NormalizeRaises \/ Upload \/ JobFails
      BY <3>2 DEF NormalizeRaises, Upload, JobFails, decision
    <3> QED
      BY <1>2, <3>1, <3>2 DEF Node
  <2> QED
    BY <2>1 DEF RegistryIsExecution, VerdictIsEvaluations, Executed
<1>3. CASE Watch \/ UNCHANGED vars
  <2>1. UNCHANGED <<tests, train, score, bundle, verdict, row, baseline>> /\ (reader' # "done" => reader # "done")
    BY <1>3 DEF Watch, job, vars
  <2> QED
    BY <2>1 DEF RegistryIsExecution, VerdictIsEvaluations, Executed
<1>4. CASE DownloadFails
  <2>1. verdict' \in {None, NoBundle} /\ row = None /\ baseline = None /\ UNCHANGED <<row, baseline>>
        /\ (reader' # "done" => verdict' = None)
    BY <1>4 DEF DownloadFails, RegistryIsExecution
  <2>2. NoBundle.class # "none" /\ ~NoBundle.met
    BY DEF NoBundle
  <2> HIDE DEF NoBundle
  <2> QED
    BY <2>1, <2>2 DEF RegistryIsExecution, VerdictIsEvaluations
<1>5. CASE Conclude
  <2>1. /\ bundle # None /\ bundle' = bundle /\ row' = bundle /\ reader' = "done" /\ baseline = None /\ baseline' = None
        /\ verdict' = [class |-> bundle.class, outcome |-> bundle.outcome, met |-> bundle.outcome = "met_targets"]
    BY <1>5 DEF Conclude, BundleIsExecution, RegistryIsExecution, job
  <2>2. (verdict'.class = "none" <=> Executed) /\ (verdict'.met <=> BothMet)
    BY <2>1 DEF BundleIsExecution, Tells
  <2>3. UNCHANGED <<tests, train, score>>
    BY <1>5 DEF Conclude, job
  <2> QED
    BY <2>1, <2>2, <2>3 DEF RegistryIsExecution, VerdictIsEvaluations, BothMet, Executed
<1>6. CASE RecordBaseline
  <2>1. /\ bundle # None /\ UNCHANGED <<tests, train, score, bundle, verdict, row>>
        /\ verdict = None /\ row = None /\ baseline = None
        /\ IF Measured THEN reader' = "done" /\ baseline' = bundle.metrics ELSE baseline' = None
    BY <1>6 DEF RecordBaseline, BundleIsExecution, RegistryIsExecution, job
  <2>2. Measured => Executed /\ bundle.metrics = score /\ score # "partial"
    BY <2>1 DEF Measured, BundleIsExecution, Tells, Executed
  <2> QED
    BY <2>1, <2>2 DEF RegistryIsExecution, VerdictIsEvaluations, Executed
<1> QED
  BY <1>1, <1>2, <1>3, <1>4, <1>5, <1>6 DEF Next, Reader

LEMMA Invariance == Spec => []Inv
<1>1. Inv /\ [Next]_vars => Inv'
  BY CommandTypesStep, ArtifactTypesStep, DecisionTypesStep, CommandsStep, ReportStep, BundleStep, RegistryStep
     DEF Inv, TypeOK
<1> QED
  BY <1>1, InitInv, PTL DEF Spec

------------------------------------------------------------------------------
(* Everything a job leaves behind has its type, and a bundle is blocked       *)
(* exactly when it names a failure.                                           *)
THEOREM TypeCorrect == Spec => []TypeOK
<1>1. Inv => TypeOK
  BY DEF Inv
<1> QED
  BY <1>1, Invariance, PTL

(* A loop is told that it was clean exactly when what it pushed was executed, *)
(* and that it met its targets exactly when both judges found so: neither the *)
(* scorer's verdict nor the node's own comparison is ever enough.             *)
THEOREM VerdictCorrect == Spec => []VerdictIsEvaluations
<1>1. Inv => VerdictIsEvaluations
  BY DEF Inv, RegistryIsExecution
<1> QED
  BY <1>1, Invariance, PTL
==============================================================================
