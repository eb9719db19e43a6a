--------------------------- MODULE GroupLoopProofs ---------------------------
(******************************************************************************)
(* What holds of GroupLoop for every group, whatever its files, its loop      *)
(* budget, its retries and the number of times it is resumed.                 *)
(******************************************************************************)
EXTENDS GroupLoop, FiniteSetTheorems, TLAPS

LEMMA MaxRunsNat == MaxRuns \in Nat
BY BoundsAssumption DEF MaxRuns

(* Where the controller is bounds what it has done.                           *)
Progress ==
  /\ pc # "down" => loop >= 1
  /\ pc \notin {"down", "cycle"} => runs >= 1
  /\ pc = "ingest" => gh = runs /\ row[gh].verdict \in Usable
  /\ pc = "feedback" => verdict # "none"

TypeInv == TypeOK /\ Progress

(* Typing facts the steps need; everything else about the types stays opaque. *)
LEMMA Types ==
  /\ NoBranch \in Commit /\ \A a \in 0..MaxAnchor : Anchor(a) \in Commit
  /\ \A r \in Nat : OwnCommit(r) \in Commit /\ AgentCommit(r) \in Commit
  /\ \A r \in 0..MaxRuns : r >= 1 => r \in RunId
  /\ RunId \subseteq 0..MaxRuns
  /\ NoEdits \in [Files -> Nat] /\ NoAgent \in AgentOutcome /\ NoRow \in GithubRow
  /\ Usable \subseteq Verdict /\ "incomplete" \in Verdict
  /\ "none" \notin Verdict /\ "incomplete" \notin Usable
BY BoundsAssumption, MaxRunsNat
   DEF NoBranch, Commit, Anchor, OwnCommit, AgentCommit, RunId, NoEdits, NoAgent,
       AgentOutcome, NoRow, GithubRow, Usable, Clean, Verdict

LEMMA CommitNames ==
  \A r, s : /\ OwnCommit(r) = OwnCommit(s) => r = s
            /\ OwnCommit(r) # AgentCommit(s) /\ OwnCommit(r) # Anchor(s)
BY DEF OwnCommit, AgentCommit, Anchor

LEMMA AgentTypes ==
  /\ \A status \in {"finished", "error", "cancelled"}, plan \in BOOLEAN :
       [status |-> status, plan |-> plan, class |-> "none"] \in AgentOutcome
  /\ \A a \in AgentOutcome, class \in {"invalid_cycle", "infra_failure", "agent_moved_head"} :
       [a EXCEPT !.class = class] \in AgentOutcome
BY DEF AgentOutcome

LEMMA RegistryTypes ==
  /\ \A v \in Usable, l \in 0..Loops : [verdict |-> v, loop |-> l] \in GithubRow
  /\ \A i \in IntentPacket : [i EXCEPT !.attempts = @ + 1] \in IntentPacket
  /\ \A i \in IntentPacket, r \in Nat :
       /\ [i EXCEPT !.fed = r] \in IntentPacket
       /\ [i EXCEPT !.fed = r, !.ref = r] \in IntentPacket
  /\ [attempts |-> 0, fed |-> 0, ref |-> 0] \in IntentPacket
  /\ \A l \in 1..Loops, r \in RunId, v \in Usable \cup {"incomplete"} :
       [loop |-> l, run |-> r, verdict |-> v] \in CycleResult
<1>1. \A v \in Usable, l \in 0..Loops : [verdict |-> v, loop |-> l] \in GithubRow
  BY DEF GithubRow
<1>2. \A i \in IntentPacket : [i EXCEPT !.attempts = @ + 1] \in IntentPacket
  BY DEF IntentPacket
<1>3. ASSUME NEW i \in IntentPacket, NEW r \in Nat
      PROVE  /\ [i EXCEPT !.fed = r] \in IntentPacket
             /\ [i EXCEPT !.fed = r, !.ref = r] \in IntentPacket
        BY DEF IntentPacket
<1>4. [attempts |-> 0, fed |-> 0, ref |-> 0] \in IntentPacket
  BY DEF IntentPacket
<1>5. \A l \in 1..Loops, r \in RunId, v \in Usable \cup {"incomplete"} :
         [loop |-> l, run |-> r, verdict |-> v] \in CycleResult
  BY DEF CycleResult
<1> QED
  BY <1>1, <1>2, <1>3, <1>4, <1>5

LEMMA TypeInit == Init => TypeInv
<1> SUFFICES ASSUME Init PROVE TypeInv
    OBVIOUS
<1> USE DEF Init
<1>1. /\ manifestFile \in [RunId -> {"none", "untracked", "staged", "committed"}]
      /\ ci \in [RunId -> Verdict \cup {"none", "running"}]
      /\ localRun \in [RunId -> {"none", "finished", "error"}]
  BY DEF NothingRun
<1>2. content \in [RunId -> [Files -> Nat]] /\ row \in [RunId -> GithubRow]
  BY Types
<1>3. manifest \in [RunId -> 0..Loops]
  BY BoundsAssumption
<1>4. intent \in IntentPacket
  BY RegistryTypes
<1>5. Progress
  BY DEF Progress
<1> QED
  BY <1>1, <1>2, <1>3, <1>4, <1>5, BoundsAssumption, MaxRunsNat, Types DEF TypeInv, TypeOK

LEMMA TypeStep == TypeInv /\ [Next]_vars => TypeInv'
<1> SUFFICES ASSUME TypeInv, [Next]_vars PROVE TypeInv'
    OBVIOUS
<1> USE BoundsAssumption, MaxRunsNat, Types
<1> USE DEF TypeInv, TypeOK, Progress, Leave, Goto
<1>1. CASE Start
  BY <1>1 DEF Start, BeginInvocation, CleanTree, Anchors, Resets, github, registry
<1>2. CASE SyncRefused
  BY <1>2 DEF SyncRefused, BeginInvocation, git, github, registry
<1>3. CASE BeginCycle
  BY <1>3 DEF BeginCycle, ChangedFiles, git, github, registry
<1>4. CASE AgentStep
  <2>1. PICK status \in {"finished", "error", "cancelled"}, plan \in BOOLEAN,
              touched \in SUBSET Files, commits \in BOOLEAN :
                AgentRuns(status, plan, touched, commits)
    BY <1>4 DEF AgentStep
  <2>2. agent' \in AgentOutcome
    BY <2>1, AgentTypes DEF AgentRuns
  <2>3. head' \in Commit /\ branch' \subseteq Commit /\ dirty' \in [Files -> Nat]
    BY <2>1 DEF AgentRuns
  <2> QED
    BY <2>1, <2>2, <2>3 DEF AgentRuns, observed, github, registry
<1>5. CASE BackendBlocks
  BY <1>5, AgentTypes DEF BackendBlocks, Blocked, observed, git, github
<1>6. CASE HeadGuardBlocks
  BY <1>6, AgentTypes DEF HeadGuardBlocks, Blocked, observed, git, github
<1>7. CASE ContractBlocks
  BY <1>7, AgentTypes DEF ContractBlocks, Blocked, observed, git, github
<1>8. CASE BoundaryBlocks
  BY <1>8, AgentTypes DEF BoundaryBlocks, Blocked, observed, git, github
<1>9. CASE ValidateCycle
  BY <1>9 DEF ValidateCycle, process, observed, git, github
<1>10. CASE CountAttempt
  BY <1>10, RegistryTypes DEF CountAttempt, process, observed, git, github
<1>11. CASE RetryTransient
  BY <1>11 DEF RetryTransient, CleanTree, observed, github, registry
<1>12. CASE GiveUp
  BY <1>12 DEF GiveUp, git, github, registry
<1>13. CASE RecordManifest
  BY <1>13 DEF RecordManifest, LoopIndex, process, observed, github
<1>14. CASE StageResearchCommit
  BY <1>14 DEF StageResearchCommit, process, observed, github, registry
<1>15. CASE CommitCycle
  BY <1>15 DEF CommitCycle, process, observed, github, registry
<1>16. CASE Push
  BY <1>16 DEF Push, process, observed, git, registry
<1>17. CASE PushFails
  BY <1>17 DEF PushFails, git, github, registry
<1>18. CASE FindRun
  BY <1>18 DEF FindRun, observed, git, github, registry
<1>19. CASE WatchRun
  BY <1>19 DEF WatchRun, process, observed, git, github, registry
<1>20. CASE WatchTimeout
  BY <1>20 DEF WatchTimeout, process, observed, git, github, registry
<1>21. CASE BundleIncomplete
  BY <1>21 DEF BundleIncomplete, observed, git, github, registry
<1>22. CASE BundleRejected
  BY <1>22 DEF BundleRejected, git, github, registry
<1>23. CASE IngestRun
  <2>1. gh \in RunId /\ [verdict |-> ci[gh], loop |-> 0] \in GithubRow
    <3>1. gh \in RunId /\ ci[gh] \in Usable /\ 0 \in 0..Loops
      BY <1>23 DEF IngestRun, OwnBundle
    <3> QED
      BY ONLY <3>1, RegistryTypes
  <2>2. [verdict |-> ci[gh], loop |-> 0].verdict = ci[gh]
    OBVIOUS
  <2> QED
    BY <1>23, <2>1, <2>2 DEF IngestRun, OwnBundle, process, observed, git, github
<1>28. CASE IngestManifest
  <2>1. /\ gh \in RunId /\ manifest[gh] \in 0..Loops
        /\ [verdict |-> row[gh].verdict, loop |-> manifest[gh]] \in GithubRow
    BY <1>28, RegistryTypes DEF IngestManifest
  <2> QED
    BY <1>28, <2>1 DEF IngestManifest, observed, git, github
<1>24. CASE FinishCycle
  <2>1. intent' \in IntentPacket
    <3>1. intent \in IntentPacket /\ runs \in Nat
      OBVIOUS
    <3>2. \/ intent' = [intent EXCEPT !.fed = runs]
          \/ intent' = [intent EXCEPT !.fed = runs, !.ref = runs]
      BY <1>24 DEF FinishCycle, FeedIntent
    <3> QED
      BY ONLY <3>1, <3>2, RegistryTypes
  <2>2. loop \in 1..Loops /\ runs \in RunId /\ verdict \in Usable \cup {"incomplete"}
    BY <1>24 DEF FinishCycle
  <2>3. [loop |-> loop, run |-> runs, verdict |-> verdict] \in CycleResult
    BY <2>2 DEF CycleResult
  <2>6. cycles' \subseteq CycleResult
    BY <1>24, <2>3 DEF FinishCycle
  <2>4. CASE Leave("ok") \/ Leave("exhausted")
    BY <1>24, <2>1, <2>6, <2>4 DEF FinishCycle, observed, git, github
  <2>5. CASE Goto("cycle")
    BY <1>24, <2>1, <2>6, <2>5 DEF FinishCycle, observed, git, github
  <2> QED
    BY <1>24, <2>4, <2>5 DEF FinishCycle
<1>25. CASE Crash
  BY <1>25 DEF Crash, git, github, registry
<1>26. CASE \E r \in RunId : WorkflowEnds(r)
  BY <1>26, OutcomesAssumption DEF WorkflowEnds, process, observed, git, registry
<1>27. CASE UNCHANGED vars
  BY <1>27 DEF vars, process, observed, git, github, registry
<1> QED
  BY <1>1, <1>2, <1>3, <1>4, <1>5, <1>6, <1>7, <1>8, <1>9, <1>10, <1>11, <1>12, <1>13,
     <1>14, <1>15, <1>16, <1>17, <1>18, <1>19, <1>20, <1>21, <1>22, <1>23, <1>24, <1>25,
     <1>26, <1>27, <1>28 DEF Next, Controller

(* Every variable of the group keeps its type: no run, loop or attempt        *)
(* counter leaves its range, however often the group is resumed.              *)
THEOREM TypeCorrect == Spec => []TypeOK
<1>1. TypeInv => TypeOK
  BY DEF TypeInv
<1> QED
  BY TypeInit, TypeStep, <1>1, PTL DEF Spec

------------------------------------------------------------------------------
(* GroupLoop implements ExperimentLedger, whatever the files, the budget,     *)
(* the retries, the resumes and what the workflow runs do.                    *)

(* The cycle under way is undecided until its guards have spoken, and later   *)
(* cycles are untouched.                                                      *)
Undecided ==
  /\ \A r \in RunId : r > runs => localRun[r] = "none"
  /\ pc \in {"agent", "guards"} => localRun[runs] = "none"

AfterGuards == {"intent", "manifest", "stage", "commit", "push", "find", "watch",
                "download", "ingest", "feedback"}
BeforePush == {"intent", "manifest", "stage", "commit", "push"}

(* Only a validated cycle goes on to a commit; only its commits are pushed.   *)
OnlyValidated ==
  /\ pc \in AfterGuards => localRun[runs] = "finished"
  /\ pc \in BeforePush => OwnCommit(runs) \notin published
  /\ pc = "push" => OwnCommit(runs) \in branch
  /\ \A r \in RunId : OwnCommit(r) \in branch \cup published => localRun[r] = "finished"

(* Only a pushed commit is evaluated, and a row holds what that concluded.    *)
OnlyEvaluated ==
  /\ \A r \in RunId : ci[r] # "none" => OwnCommit(r) \in published
  /\ \A r \in RunId : row[r].verdict # "none" => row[r].verdict = ci[r]
  /\ pc \in {"find", "watch", "download"} => row[runs].verdict = "none"

LedgerInv == TypeInv /\ Undecided /\ OnlyValidated /\ OnlyEvaluated

LEMMA RowTypes ==
  /\ \A e \in GithubRow : e.verdict \in Usable \cup {"none"}
  /\ NoRow.verdict = "none"
BY DEF GithubRow, NoRow

LEMMA VerdictWords ==
  /\ "running" \notin Verdict /\ "none" \notin Verdict /\ "incomplete" \in Verdict
  /\ "incomplete" \notin Usable /\ "none" \notin Usable /\ Usable \subseteq Verdict
BY DEF Verdict, Usable, Clean

LEMMA LedgerInvInit == Init => LedgerInv
BY TypeInit, CommitNames, RowTypes
   DEF Init, LedgerInv, Undecided, OnlyValidated, OnlyEvaluated, AfterGuards, BeforePush,
       NothingRun

LEMMA LedgerInvStep == LedgerInv /\ [Next]_vars => LedgerInv'
<1> SUFFICES ASSUME LedgerInv, [Next]_vars
             PROVE  Undecided' /\ OnlyValidated' /\ OnlyEvaluated'
    BY TypeStep DEF LedgerInv
<1>t. /\ runs \in 0..MaxRuns /\ gh \in 0..MaxRuns /\ MaxRuns \in Nat
      /\ pc # "down" /\ pc # "cycle" => runs \in RunId
      /\ localRun \in [RunId -> {"none", "finished", "error"}]
      /\ ci \in [RunId -> Verdict \cup {"none", "running"}]
      /\ row \in [RunId -> GithubRow]
      /\ RunId = 1..MaxRuns
  BY MaxRunsNat DEF LedgerInv, TypeInv, TypeOK, Progress, RunId
<1> USE <1>t DEF LedgerInv, Undecided, OnlyValidated, OnlyEvaluated, AfterGuards,
            BeforePush, Leave, Goto
<1> HIDE DEF TypeInv
<1>1. CASE Start
  BY <1>1 DEF Start, BeginInvocation, CleanTree, Anchors, Resets, github, registry
<1>2. CASE SyncRefused
  BY <1>2 DEF SyncRefused, BeginInvocation, git, github, registry
<1>3. CASE BeginCycle
  BY <1>3 DEF BeginCycle, git, github, registry
<1>4. CASE AgentStep
  BY <1>4, CommitNames DEF AgentStep, AgentRuns, observed, github, registry
<1>5. CASE BackendBlocks \/ HeadGuardBlocks \/ ContractBlocks \/ BoundaryBlocks
  BY <1>5 DEF BackendBlocks, HeadGuardBlocks, ContractBlocks, BoundaryBlocks, Blocked,
              observed, git, github
<1>6. CASE ValidateCycle
  BY <1>6 DEF ValidateCycle, process, observed, git, github
<1>7. CASE CountAttempt
  BY <1>7 DEF CountAttempt, process, observed, git, github
<1>8. CASE RetryTransient \/ GiveUp
  BY <1>8 DEF RetryTransient, GiveUp, CleanTree, observed, git, github, registry
<1>9. CASE RecordManifest
  BY <1>9 DEF RecordManifest, process, observed, github
<1>10. CASE StageResearchCommit
  BY <1>10 DEF StageResearchCommit, process, observed, github, registry
<1>11. CASE CommitCycle
  BY <1>11, CommitNames DEF CommitCycle, process, observed, github, registry
<1>12. CASE Push
  BY <1>12, RowTypes, VerdictWords DEF Push, process, observed, git, registry
<1>13. CASE PushFails
  BY <1>13 DEF PushFails, git, github, registry
<1>14. CASE FindRun
  BY <1>14 DEF FindRun, observed, git, github, registry
<1>15. CASE WatchRun \/ WatchTimeout
  BY <1>15 DEF WatchRun, WatchTimeout, process, observed, git, github, registry
<1>16. CASE BundleIncomplete \/ BundleRejected
  BY <1>16 DEF BundleIncomplete, BundleRejected, observed, git, github, registry
<1>17. CASE IngestRun \/ IngestManifest
  BY <1>17 DEF IngestRun, IngestManifest, OwnBundle, process, observed, git, github
<1>18. CASE FinishCycle
  BY <1>18 DEF FinishCycle, observed, git, github
<1>19. CASE Crash
  BY <1>19 DEF Crash, git, github, registry
<1>20. CASE \E r \in RunId : WorkflowEnds(r)
  BY <1>20, RowTypes, VerdictWords DEF WorkflowEnds, process, observed, git, registry
<1>21. CASE UNCHANGED vars
  BY <1>21 DEF vars, process, observed, git, github, registry
<1> QED
  BY <1>1, <1>2, <1>3, <1>4, <1>5, <1>6, <1>7, <1>8, <1>9, <1>10, <1>11, <1>12, <1>13,
     <1>14, <1>15, <1>16, <1>17, <1>18, <1>19, <1>20, <1>21 DEF Next, Controller

LEMMA LedgerInvariant == Spec => []LedgerInv
BY LedgerInvInit, LedgerInvStep, PTL DEF Spec

------------------------------------------------------------------------------
(* The refinement: where the ledger's view of a cycle stays or moves on.      *)

LEMMA LedgerQuiet ==
  UNCHANGED <<localRun, published, ci, row>> => UNCHANGED Ledger!ledger
BY DEF Ledger!ledger, Stage, Final

LEMMA RefinesInit == Init => Ledger!LedgerInit
<1> SUFFICES ASSUME Init PROVE Ledger!LedgerInit
    OBVIOUS
<1>1. \A r \in RunId : ~Final(r) /\ OwnCommit(r) \notin published /\ localRun[r] = "none"
  BY VerdictWords DEF Init, Final, NothingRun
<1> QED
  BY <1>1, RowTypes DEF Init, Ledger!LedgerInit, Ledger!Unknown, Stage

LEMMA RefinesStep == LedgerInv /\ [Next]_vars => [Ledger!LedgerNext]_(Ledger!ledger)
<1> SUFFICES ASSUME LedgerInv, [Next]_vars
             PROVE  Ledger!LedgerNext \/ UNCHANGED Ledger!ledger
    OBVIOUS
<1>t. /\ pc # "down" /\ pc # "cycle" => runs \in RunId
      /\ localRun \in [RunId -> {"none", "finished", "error"}]
      /\ ci \in [RunId -> Verdict \cup {"none", "running"}]
      /\ row \in [RunId -> GithubRow]
      /\ \A r \in RunId : ci[r] = "none" \/ ci[r] = "running" => ~Final(r)
  BY MaxRunsNat, VerdictWords
     DEF LedgerInv, TypeInv, TypeOK, Progress, RunId, Final
<1>b. ASSUME NEW class, Blocked(class) PROVE runs \in RunId /\ Ledger!Block(runs)
  <2>1. /\ pc = "guards" /\ localRun[runs] = "none" /\ runs \in RunId
        /\ localRun' = [localRun EXCEPT ![runs] = "error"]
        /\ UNCHANGED <<published, ci, row>>
    BY <1>b, <1>t DEF Blocked, LedgerInv, Undecided, git, github
  <2>2. Stage(runs) = "new" /\ OwnCommit(runs) \notin published /\ ~Final(runs)
    BY <2>1, <1>t DEF LedgerInv, OnlyValidated, OnlyEvaluated, Stage
  <2> QED
    BY <2>1, <2>2, <1>t DEF Ledger!Block, Stage, Final
<1>v. ASSUME ValidateCycle PROVE runs \in RunId /\ Ledger!Validate(runs)
  <2>1. /\ pc = "guards" /\ localRun[runs] = "none" /\ runs \in RunId
        /\ localRun' = [localRun EXCEPT ![runs] = "finished"]
        /\ UNCHANGED <<published, ci, row>>
    BY <1>v, <1>t DEF ValidateCycle, LedgerInv, Undecided, git, github
  <2>2. Stage(runs) = "new" /\ OwnCommit(runs) \notin published /\ ~Final(runs)
    BY <2>1, <1>t DEF LedgerInv, OnlyValidated, OnlyEvaluated, Stage
  <2> QED
    BY <2>1, <2>2, <1>t DEF Ledger!Validate, Stage, Final
<1>e. ASSUME NEW r \in RunId, WorkflowEnds(r) PROVE Ledger!Evaluate(r)
  <2>1. PICK v \in Verdict : ci' = [ci EXCEPT ![r] = v]
    BY <1>e, OutcomesAssumption DEF WorkflowEnds
  <2>2. ci[r] = "running" /\ OwnCommit(r) \in published /\ ~Final(r)
    BY <1>e, <1>t DEF WorkflowEnds, LedgerInv, OnlyEvaluated
  <2>3. UNCHANGED <<localRun, published, row>>
    BY <1>e DEF WorkflowEnds, registry
  <2> QED
    BY <2>1, <2>2, <2>3, <1>t DEF Ledger!Evaluate, Stage, Final
<1>i. ASSUME IngestRun PROVE \E e \in RunId : Ledger!Record(e)
  <2>1. /\ gh = runs /\ gh \in RunId /\ ci[gh] \in Usable /\ row[gh].verdict = "none"
        /\ row' = [row EXCEPT ![gh] = [verdict |-> ci[gh], loop |-> 0]]
        /\ UNCHANGED <<localRun, published, ci>>
    BY <1>i, <1>t DEF IngestRun, OwnBundle, LedgerInv, OnlyEvaluated, github
  <2>2. PICK g \in RunId : g = gh
    BY <2>1
  <2>3. Final(g)
    BY <2>1, <2>2, VerdictWords DEF Final
  <2>4. Ledger!Record(g)
    BY <2>1, <2>2, <2>3, <1>t DEF Ledger!Record, Ledger!Unknown, Stage, Final
  <2> QED
    BY <2>4
<1>p. ASSUME Push
      PROVE  \E batch \in SUBSET {r \in RunId : Stage(r) = "validated"} :
               Ledger!Publish(batch)
  <2>0. PICK batch \in SUBSET RunId :
               batch = {r \in RunId : OwnCommit(r) \in branch \ published}
    OBVIOUS
  <2> DEFINE dropped == {r \in RunId : r # runs /\ ci[r] = "running"}
  <2>1. /\ runs \in RunId /\ OwnCommit(runs) \in branch \ published
        /\ published' = published \cup branch
        /\ ci' = [r \in RunId |-> IF r = runs THEN "running"
                                  ELSE IF ci[r] = "running" THEN "incomplete" ELSE ci[r]]
        /\ UNCHANGED <<localRun, row>>
    BY <1>p, <1>t DEF Push, LedgerInv, OnlyValidated, BeforePush, registry
  <2>2. \A r \in RunId : ci[r] # "none" => OwnCommit(r) \in published
    BY DEF LedgerInv, OnlyEvaluated
  <2>3. \A r \in batch : Stage(r) = "validated" /\ ~Final(r)
    BY <2>0, <2>2, <1>t DEF LedgerInv, OnlyValidated, Stage
  <2>4. \A r \in batch : Stage(r)' = "published" /\ ~Final(r)'
    BY <2>0, <2>1, <2>2, VerdictWords DEF Stage, Final
  <2>5. \A r \in dropped : /\ Stage(r) = "published"
                           /\ Stage(r)' = "evaluated" /\ Final(r)' /\ ci'[r] = "incomplete"
    BY <2>1, <2>2, <1>t, VerdictWords DEF Stage, Final
  <2>6. \A r \in RunId \ (batch \cup dropped) :
           Stage(r)' = Stage(r) /\ Final(r)' = Final(r) /\ ci'[r] = ci[r]
    BY <2>0, <2>1 DEF Stage, Final
  <2>7. batch \cap dropped = {} /\ batch # {} /\ "incomplete" \in Verdict \ Usable
    BY <2>0, <2>1, <2>2, VerdictWords
  <2>8. Ledger!Publish(batch)
    <3>1. dropped \in SUBSET {x \in RunId : Stage(x) = "published"}
      BY <2>5
    <3>2. [r \in RunId |-> Stage(r)]' =
            [x \in RunId |-> IF x \in batch THEN "published"
                             ELSE IF x \in dropped THEN "evaluated"
                             ELSE [r \in RunId |-> Stage(r)][x]]
      BY <2>4, <2>5, <2>6, <2>7
    <3>3. [r \in RunId |-> IF Final(r) THEN ci[r] ELSE "none"]' =
            [x \in RunId |-> IF x \in dropped THEN "incomplete"
                             ELSE [r \in RunId |-> IF Final(r) THEN ci[r] ELSE "none"][x]]
      <4>1. \A x \in batch : (IF Final(x) THEN ci[x] ELSE "none")' = "none"
                            /\ (IF Final(x) THEN ci[x] ELSE "none") = "none"
        BY <2>3, <2>4
      <4> QED
        BY <4>1, <2>5, <2>6, <2>7
    <3>4. UNCHANGED [r \in RunId |-> row[r].verdict]
      BY <2>1
    <3> HIDE DEF dropped
    <3> QED
      BY <3>1, <3>2, <3>3, <3>4, <2>7 DEF Ledger!Publish
  <2> QED
    BY <2>3, <2>8
<1>q. CASE \/ \E class : Blocked(class) \/ ValidateCycle \/ Push \/ IngestRun
          \/ \E r \in RunId : WorkflowEnds(r)
  <2>1. CASE \E class : Blocked(class)
    BY <1>b, <2>1 DEF Ledger!LedgerNext
  <2>2. CASE ValidateCycle
    BY <1>v, <2>2 DEF Ledger!LedgerNext
  <2>3. CASE Push
    BY <1>p, <2>3 DEF Ledger!LedgerNext
  <2>4. CASE IngestRun
    BY <1>i, <2>4 DEF Ledger!LedgerNext
  <2>5. CASE \E r \in RunId : WorkflowEnds(r)
    BY <1>e, <2>5 DEF Ledger!LedgerNext
  <2> QED
    BY <1>q, <2>1, <2>2, <2>3, <2>4, <2>5
<1>s. CASE UNCHANGED <<localRun, published, ci, row>>
  BY <1>s, LedgerQuiet
<1>n. \/ (\E class : Blocked(class)) \/ ValidateCycle \/ Push \/ IngestRun
      \/ \E r \in RunId : WorkflowEnds(r)
      \/ UNCHANGED <<localRun, published, ci, row>>
      \/ IngestManifest
  <2>1. CASE UNCHANGED vars
    BY <2>1 DEF vars, github, registry
  <2>2. CASE Start \/ SyncRefused \/ BeginCycle \/ AgentStep \/ CountAttempt
    BY <2>2 DEF Start, SyncRefused, BeginInvocation, BeginCycle, AgentStep, AgentRuns,
                CountAttempt, github, registry
  <2>3. CASE BackendBlocks \/ HeadGuardBlocks \/ ContractBlocks \/ BoundaryBlocks
    BY <2>3 DEF BackendBlocks, HeadGuardBlocks, ContractBlocks, BoundaryBlocks
  <2>4. CASE RetryTransient \/ GiveUp \/ RecordManifest \/ StageResearchCommit \/ CommitCycle
    BY <2>4 DEF RetryTransient, GiveUp, RecordManifest, StageResearchCommit, CommitCycle,
                github, registry
  <2>5. CASE PushFails \/ FindRun \/ WatchRun \/ WatchTimeout \/ BundleIncomplete
             \/ BundleRejected
    BY <2>5 DEF PushFails, FindRun, WatchRun, WatchTimeout, BundleIncomplete,
                BundleRejected, github, registry
  <2>6. CASE FinishCycle \/ Crash
    BY <2>6 DEF FinishCycle, Crash, github, registry
  <2> QED
    BY <2>1, <2>2, <2>3, <2>4, <2>5, <2>6 DEF Next, Controller
<1>m. CASE IngestManifest
  <2>1. /\ row' = [row EXCEPT ![gh] = [verdict |-> row[gh].verdict, loop |-> manifest[gh]]]
        /\ UNCHANGED <<localRun, published, ci>>
    BY <1>m DEF IngestManifest, github
  <2>2. \A r \in RunId : row'[r].verdict = row[r].verdict
    BY <2>1, <1>t
  <2> QED
    BY <2>1, <2>2 DEF Ledger!ledger, Stage, Final
<1> QED
  BY <1>n, <1>m, <1>q, <1>s

(* Whatever is retried, lost, cancelled or resumed, a group runs its          *)
(* experiments as the ledger says: guards before the push, the push before    *)
(* the evaluation, and a gh_ row that says what its own commit's run said.    *)
THEOREM RunsKeepLedger == Spec => KeepsLedger
<1>1. Init => Ledger!LedgerInit
  BY RefinesInit
<1>2. LedgerInv /\ [Next]_vars => [Ledger!LedgerNext]_(Ledger!ledger)
  BY RefinesStep
<1> QED
  BY <1>1, <1>2, LedgerInvariant, PTL DEF Spec, KeepsLedger, Ledger!LedgerSpec

------------------------------------------------------------------------------
(* What GroupLoop keeps of its branch and of its working tree, under the      *)
(* conditions the parallel wave creates: an inherit group starts from its     *)
(* anchor, and a linked worktree starts clean; what it tells the next cycle,  *)
(* and what it reports at the end.                                            *)

BeforeItsCommit == {"agent", "guards", "blocked", "intent", "manifest", "stage", "commit"}
AfterCommit == {"push", "find", "watch", "download", "ingest", "feedback"}

(* Between invocations the branch may hold anything an earlier one made; an   *)
(* invocation of an inherit group sheds it all before its first cycle.        *)
Rebuilt ==
  /\ before <= runs
  /\ pc \notin {"down", "cycle"} => before < runs
  /\ head.by \in {"none", "anchor"} => branch = {}
  /\ \A c \in branch : c.run <= runs /\ (pc # "down" => before < c.run)

(* The manifest of the cycle under way holds its loop; every cycle on the     *)
(* branch belongs to an earlier loop, but the one just committed.             *)
Ordered ==
  /\ pc \in AfterCommit \cup {"stage", "commit"} => manifest[runs] = loop
  /\ pc \in BeforeItsCommit => OwnCommit(runs) \notin branch
  /\ \A r \in RunId : OwnCommit(r) \in branch =>
       pc = "down" \/ manifest[r] < loop \/ (r = runs /\ pc \in AfterCommit)
  /\ LoopOrdersBranch

BranchInv == TypeInv /\ Rebuilt /\ Ordered

LEMMA CommitFields ==
  /\ \A r : OwnCommit(r).by = "orchestrator" /\ OwnCommit(r).run = r
  /\ \A r : AgentCommit(r).by = "agent" /\ AgentCommit(r).run = r
  /\ \A a : Anchor(a).by = "anchor"
  /\ NoBranch.by = "none"
BY DEF OwnCommit, AgentCommit, Anchor, NoBranch

LEMMA BranchInvInit == Init => BranchInv
BY TypeInit, CommitFields, MaxRunsNat
   DEF Init, BranchInv, Rebuilt, Ordered, LoopOrdersBranch, AfterCommit, BeforeItsCommit

LEMMA RebuiltStep == Inherit /\ BranchInv /\ [Next]_vars => Rebuilt'
<1> SUFFICES ASSUME Inherit, BranchInv, [Next]_vars PROVE Rebuilt'
    OBVIOUS
<1>t. /\ runs \in Nat /\ before \in Nat
      /\ \A c \in branch : c.run \in Nat
  BY MaxRunsNat DEF BranchInv, TypeInv, TypeOK, Commit
<1> USE <1>t, CommitFields DEF BranchInv, Rebuilt, Leave, Goto
<1>1. CASE Start
  BY <1>1 DEF Start, BeginInvocation, Anchors, Resets
<1>2. CASE SyncRefused
  BY <1>2 DEF SyncRefused, BeginInvocation, git
<1>3. CASE BeginCycle
  BY <1>3 DEF BeginCycle, git
<1>4. CASE AgentStep
  BY <1>4 DEF AgentStep, AgentRuns, observed
<1>5. CASE BackendBlocks \/ HeadGuardBlocks \/ ContractBlocks \/ BoundaryBlocks
  BY <1>5 DEF BackendBlocks, HeadGuardBlocks, ContractBlocks, BoundaryBlocks, Blocked,
              observed, git
<1>6. CASE ValidateCycle \/ CountAttempt \/ RecordManifest \/ StageResearchCommit
  BY <1>6 DEF ValidateCycle, CountAttempt, RecordManifest, StageResearchCommit, observed, git
<1>7. CASE RetryTransient \/ GiveUp
  BY <1>7 DEF RetryTransient, GiveUp, observed, git
<1>8. CASE CommitCycle
  BY <1>8 DEF CommitCycle, observed
<1>9. CASE Push \/ PushFails \/ FindRun \/ WatchRun \/ WatchTimeout
  BY <1>9 DEF Push, PushFails, FindRun, WatchRun, WatchTimeout, observed, git
<1>10. CASE BundleIncomplete \/ BundleRejected \/ IngestRun \/ IngestManifest \/ FinishCycle
  BY <1>10 DEF BundleIncomplete, BundleRejected, IngestRun, IngestManifest, FinishCycle, process,
               observed, git
<1>11. CASE Crash \/ \E r \in RunId : WorkflowEnds(r)
  BY <1>11 DEF Crash, WorkflowEnds, observed, git
<1>12. CASE UNCHANGED vars
  BY <1>12 DEF vars, observed, git
<1> QED
  BY <1>1, <1>2, <1>3, <1>4, <1>5, <1>6, <1>7, <1>8, <1>9, <1>10, <1>11, <1>12
     DEF Next, Controller

LEMMA OrderedStep == Inherit /\ BranchInv /\ [Next]_vars => Ordered'
<1> SUFFICES ASSUME Inherit, BranchInv, [Next]_vars PROVE Ordered'
    OBVIOUS
<1>t. /\ runs \in Nat /\ loop \in Nat /\ RunId \subseteq Nat
      /\ pc \notin {"down", "cycle"} => runs \in RunId
      /\ manifest \in [RunId -> Nat]
  BY MaxRunsNat, BoundsAssumption DEF BranchInv, TypeInv, TypeOK, Progress, RunId
<1>r. ASSUME NEW r, OwnCommit(r) \in branch PROVE r <= runs
  <2>1. OwnCommit(r).run <= runs
    BY <1>r DEF BranchInv, Rebuilt
  <2> QED
    BY <2>1, CommitFields
<1> USE <1>t DEF BranchInv, Ordered, LoopOrdersBranch, AfterCommit, BeforeItsCommit, Leave, Goto
<1>1. CASE Start
  BY <1>1, CommitFields DEF Start, BeginInvocation, Anchors, Resets, Rebuilt, registry
<1>2. CASE SyncRefused
  BY <1>2 DEF SyncRefused, BeginInvocation, git, registry
<1>3. CASE BeginCycle
  BY <1>3, <1>r DEF BeginCycle, git, registry
<1>4. CASE AgentStep
  BY <1>4, CommitNames DEF AgentStep, AgentRuns, observed, registry
<1>5. CASE BackendBlocks \/ HeadGuardBlocks \/ ContractBlocks \/ BoundaryBlocks
  BY <1>5 DEF BackendBlocks, HeadGuardBlocks, ContractBlocks, BoundaryBlocks, Blocked,
              observed, git
<1>6. CASE ValidateCycle \/ CountAttempt
  BY <1>6 DEF ValidateCycle, CountAttempt, observed, process, git
<1>7. CASE RecordManifest
  BY <1>7 DEF RecordManifest, LoopIndex, observed, process
<1>8. CASE StageResearchCommit
  BY <1>8 DEF StageResearchCommit, observed, process, registry
<1>9. CASE RetryTransient \/ GiveUp
  BY <1>9 DEF RetryTransient, GiveUp, observed, git, registry
<1>10. CASE CommitCycle
  BY <1>10, <1>r, CommitNames DEF CommitCycle, observed, process, registry
<1>11. CASE Push \/ PushFails \/ FindRun \/ WatchRun \/ WatchTimeout
  BY <1>11 DEF Push, PushFails, FindRun, WatchRun, WatchTimeout, observed, process, git,
               registry
<1>12. CASE BundleIncomplete \/ BundleRejected \/ IngestRun \/ IngestManifest
  BY <1>12 DEF BundleIncomplete, BundleRejected, IngestRun, IngestManifest, process, observed, git,
               registry
<1>13. CASE FinishCycle
  BY <1>13 DEF FinishCycle, observed, git
<1>14. CASE Crash \/ \E r \in RunId : WorkflowEnds(r)
  BY <1>14 DEF Crash, WorkflowEnds, observed, process, git, registry
<1>15. CASE UNCHANGED vars
  BY <1>15 DEF vars, observed, process, git, registry
<1> QED
  BY <1>1, <1>2, <1>3, <1>4, <1>5, <1>6, <1>7, <1>8, <1>9, <1>10, <1>11, <1>12, <1>13,
     <1>14, <1>15 DEF Next, Controller

LEMMA BranchInvariant == ASSUME Inherit PROVE Spec => []BranchInv
<1>1. BranchInv /\ [Next]_vars => BranchInv'
  BY TypeStep, RebuiltStep, OrderedStep DEF BranchInv
<1> QED
  BY BranchInvInit, <1>1, PTL DEF Spec

(* An inherit group pushes a branch that holds nothing of an earlier          *)
(* invocation, which is why its push may be forced.                           *)
THEOREM InheritRebuilds == ASSUME Inherit PROVE Spec => []RebuiltFromAnchor
<1>1. BranchInv => RebuiltFromAnchor
  BY DEF BranchInv, Rebuilt, RebuiltFromAnchor
<1> QED
  BY BranchInvariant, <1>1, PTL

(* Along the branch of an inherit group a later cycle has a higher loop.      *)
THEOREM InheritOrdersLoops == ASSUME Inherit PROVE Spec => []LoopOrdersBranch
<1>1. BranchInv => LoopOrdersBranch
  BY DEF BranchInv, Ordered
<1> QED
  BY BranchInvariant, <1>1, PTL

------------------------------------------------------------------------------
(* The branch of a baseline group only grows.                                 *)
Grows ==
  /\ published \subseteq branch
  /\ head = NoBranch => branch = {}

BaselineInv == LedgerInv /\ Grows

LEMMA GrowsStep == ~Inherit /\ BaselineInv /\ [Next]_vars => Grows'
<1> SUFFICES ASSUME ~Inherit, BaselineInv, [Next]_vars PROVE Grows'
    OBVIOUS
<1> USE CommitFields DEF BaselineInv, Grows
<1>1. CASE Start
  BY <1>1 DEF Start, BeginInvocation, Anchors, Resets, github
<1>2. CASE SyncRefused \/ BeginCycle
  BY <1>2 DEF SyncRefused, BeginInvocation, BeginCycle, git, github
<1>3. CASE AgentStep
  BY <1>3 DEF AgentStep, AgentRuns, github
<1>4. CASE BackendBlocks \/ HeadGuardBlocks \/ ContractBlocks \/ BoundaryBlocks
  BY <1>4 DEF BackendBlocks, HeadGuardBlocks, ContractBlocks, BoundaryBlocks, Blocked,
              git, github
<1>5. CASE ValidateCycle \/ CountAttempt \/ RecordManifest \/ StageResearchCommit
  BY <1>5 DEF ValidateCycle, CountAttempt, RecordManifest, StageResearchCommit, git, github
<1>6. CASE RetryTransient \/ GiveUp
  BY <1>6 DEF RetryTransient, GiveUp, git, github
<1>7. CASE CommitCycle
  BY <1>7 DEF CommitCycle, github
<1>8. CASE Push \/ PushFails \/ FindRun \/ WatchRun \/ WatchTimeout
  BY <1>8 DEF Push, PushFails, FindRun, WatchRun, WatchTimeout, git, github
<1>9. CASE BundleIncomplete \/ BundleRejected \/ IngestRun \/ IngestManifest \/ FinishCycle
  BY <1>9 DEF BundleIncomplete, BundleRejected, IngestRun, IngestManifest, FinishCycle, git, github
<1>10. CASE Crash \/ \E r \in RunId : WorkflowEnds(r)
  BY <1>10 DEF Crash, WorkflowEnds, git, github
<1>11. CASE UNCHANGED vars
  BY <1>11 DEF vars, git, github
<1> QED
  BY <1>1, <1>2, <1>3, <1>4, <1>5, <1>6, <1>7, <1>8, <1>9, <1>10, <1>11
     DEF Next, Controller

(* No resume, retry or failed discard takes a recorded clean result off the   *)
(* branch of a baseline group.                                                *)
THEOREM BaselineKeepsResults == ASSUME ~Inherit PROVE Spec => []CleanResultsStayOnBranch
<1>1. Init => BaselineInv
  BY LedgerInvInit DEF Init, BaselineInv, Grows
<1>2. BaselineInv /\ [Next]_vars => BaselineInv'
  BY LedgerInvStep, GrowsStep DEF BaselineInv
<1>3. BaselineInv => CleanResultsStayOnBranch
  BY VerdictWords DEF BaselineInv, Grows, LedgerInv, OnlyEvaluated, CleanResultsStayOnBranch,
                      Usable
<1> QED
  BY <1>1, <1>2, <1>3, PTL DEF Spec

------------------------------------------------------------------------------
Tracked == Files \ Bytecode
Settled == {"cycle", "agent", "push", "find", "watch", "download", "ingest",
            "feedback"}
Accepted == {"intent", "manifest", "stage", "commit"}

(* Outside a cycle's own edits nothing but byte code is dirty; what the       *)
(* boundary accepted is editable.                                             *)
OwnTree ==
  /\ pc \in Settled => \A f \in Tracked : dirty[f] = 0
  /\ pc \in {"agent", "guards"} \cup Accepted => preexisting \cap Tracked = {}
  /\ pc \in {"guards"} \cup Accepted => \A f \in Tracked : dirty[f] \in {0, runs}
  /\ pc \in Accepted => \A f \in OffLimits \cup Protected : dirty[f] = 0

TreeInv == TypeInv /\ OwnTree /\ CommitHoldsOwnEdits

LEMMA FileKinds ==
  /\ Source \cup OffLimits \cup Protected = Tracked
  /\ Tracked \cap Bytecode = {} /\ Source \cap (OffLimits \cup Protected) = {}
BY FilesAssumption DEF Files, Tracked

LEMMA TreeInit == Init => TreeInv
BY TypeInit DEF Init, TreeInv, OwnTree, CommitHoldsOwnEdits, Tracked, NoEdits, Settled,
                Accepted

LEMMA TreeStep ==
  ASSUME Linked, ~DiscardCanFail PROVE TreeInv /\ [Next]_vars => TreeInv'
<1> SUFFICES ASSUME TreeInv, [Next]_vars PROVE OwnTree' /\ CommitHoldsOwnEdits'
    BY TypeStep DEF TreeInv
<1>t. /\ pc \notin {"down", "cycle"} => runs \in RunId
      /\ dirty \in [Files -> Nat] /\ content \in [RunId -> [Files -> Nat]]
      /\ Tracked \subseteq Files
  BY MaxRunsNat DEF TreeInv, TypeInv, TypeOK, Progress, RunId, Tracked
<1> USE <1>t DEF TreeInv, OwnTree, CommitHoldsOwnEdits, Settled, Accepted, Leave, Goto
<1>1. CASE Start
  BY <1>1 DEF Start, BeginInvocation, CleanTree, NoEdits
<1>2. CASE SyncRefused
  BY <1>2 DEF SyncRefused
<1>3. CASE BeginCycle
  BY <1>3 DEF BeginCycle, git, ChangedFiles
<1>4. CASE AgentStep
  BY <1>4 DEF AgentStep, AgentRuns, NoEdits, observed
<1>5. CASE BackendBlocks \/ HeadGuardBlocks \/ ContractBlocks \/ BoundaryBlocks
  BY <1>5 DEF BackendBlocks, HeadGuardBlocks, ContractBlocks, BoundaryBlocks, Blocked,
              observed, git
<1>6. CASE ValidateCycle
  <2>1. \A f \in OffLimits \cup Protected : dirty[f] = 0
    BY <1>6, FileKinds DEF ValidateCycle, WithinBoundary, CycleChanges, ChangedFiles
  <2> QED
    BY <1>6, <2>1 DEF ValidateCycle, observed, process, git
<1>7. CASE CountAttempt \/ RecordManifest \/ StageResearchCommit
  BY <1>7 DEF CountAttempt, RecordManifest, StageResearchCommit, observed, process, git
<1>8. CASE RetryTransient \/ GiveUp
  BY <1>8 DEF RetryTransient, GiveUp, CleanTree, NoEdits, observed, git
<1>9. CASE CommitCycle
  <2>1. Stageable = {f \in Source : dirty[f] # 0}
    BY <1>9, FileKinds DEF CommitCycle, Stageable, ChangedFiles
  <2>2. \A f \in Tracked : dirty'[f] = 0
    BY <1>9, <2>1, FileKinds DEF CommitCycle
  <2>3. /\ content' = [content EXCEPT ![runs] = [f \in Files |-> IF f \in Stageable
                                                               THEN dirty[f] ELSE 0]]
        /\ pc' = "push" /\ \A f \in Source : dirty[f] \in {0, runs}
    BY <1>9, FileKinds DEF CommitCycle
  <2>4. CommitHoldsOwnEdits'
    BY <1>9, <2>1, <2>3 DEF CommitCycle
  <2> QED
    BY <2>2, <2>3, <2>4
<1>10. CASE Push \/ PushFails \/ FindRun \/ WatchRun \/ WatchTimeout
  BY <1>10 DEF Push, PushFails, FindRun, WatchRun, WatchTimeout, observed, process, git
<1>11. CASE BundleIncomplete \/ BundleRejected \/ IngestRun \/ IngestManifest \/ FinishCycle
  BY <1>11 DEF BundleIncomplete, BundleRejected, IngestRun, IngestManifest, FinishCycle, process,
               observed, git
<1>12. CASE Crash \/ \E r \in RunId : WorkflowEnds(r)
  BY <1>12 DEF Crash, WorkflowEnds, observed, process, git
<1>13. CASE UNCHANGED vars
  BY <1>13 DEF vars, observed, process, git
<1> QED
  BY <1>1, <1>2, <1>3, <1>4, <1>5, <1>6, <1>7, <1>8, <1>9, <1>10, <1>11, <1>12, <1>13
     DEF Next, Controller

(* In a worktree a wave made, if git carries out the discard before a retry,  *)
(* no commit holds an edit of another cycle or of a file off limits.          *)
THEOREM WorktreeCommitsOwnEdits ==
  ASSUME Linked, ~DiscardCanFail PROVE Spec => []CommitHoldsOwnEdits
<1>1. TreeInv => CommitHoldsOwnEdits
  BY DEF TreeInv
<1> QED
  BY TreeInit, TreeStep, <1>1, PTL DEF Spec

------------------------------------------------------------------------------
(* The outcome of the loop just finished is in the packet until that of the   *)
(* next one replaces it.                                                      *)
Fed ==
  pc # "down" /\ loop > 1 => \E c \in cycles : c.loop = loop - 1 /\ c.run = intent.fed

FedInv == TypeInv /\ Fed

LEMMA FedStep == FedInv /\ [Next]_vars => FedInv'
<1> SUFFICES ASSUME FedInv, [Next]_vars PROVE Fed'
    BY TypeStep DEF FedInv
<1> USE DEF FedInv, Fed, Leave, Goto
<1>1. CASE Start \/ SyncRefused
  BY <1>1 DEF Start, SyncRefused, BeginInvocation
<1>2. CASE BeginCycle \/ AgentStep
  BY <1>2 DEF BeginCycle, AgentStep, AgentRuns, registry, process, observed
<1>3. CASE BackendBlocks \/ HeadGuardBlocks \/ ContractBlocks \/ BoundaryBlocks
  BY <1>3 DEF BackendBlocks, HeadGuardBlocks, ContractBlocks, BoundaryBlocks, Blocked,
              observed
<1>4. CASE CountAttempt
  <2>1. intent'.fed = intent.fed
    BY <1>4 DEF CountAttempt, TypeInv, TypeOK, IntentPacket
  <2> QED
    BY <1>4, <2>1 DEF CountAttempt, process
<1>5. CASE ValidateCycle \/ RecordManifest \/ StageResearchCommit \/ CommitCycle
  BY <1>5 DEF ValidateCycle, RecordManifest, StageResearchCommit, CommitCycle, process,
              registry
<1>6. CASE RetryTransient \/ GiveUp
  BY <1>6 DEF RetryTransient, GiveUp, registry
<1>7. CASE Push \/ PushFails \/ FindRun \/ WatchRun \/ WatchTimeout
  BY <1>7 DEF Push, PushFails, FindRun, WatchRun, WatchTimeout, process, registry
<1>8. CASE BundleIncomplete \/ BundleRejected \/ IngestRun \/ IngestManifest
  BY <1>8 DEF BundleIncomplete, BundleRejected, IngestRun, IngestManifest, process, registry
<1>9. CASE FinishCycle
  <2>1. intent'.fed = runs
    BY <1>9 DEF FinishCycle, FeedIntent, TypeInv, TypeOK, IntentPacket
  <2>2. PICK c \in cycles' : c = [loop |-> loop, run |-> runs, verdict |-> verdict]
    BY <1>9 DEF FinishCycle
  <2>3. pc' = "down" \/ (loop' = loop + 1 /\ loop \in Nat)
    BY <1>9, BoundsAssumption DEF FinishCycle, TypeInv, TypeOK
  <2> QED
    BY <2>1, <2>2, <2>3
<1>10. CASE Crash \/ \E r \in RunId : WorkflowEnds(r)
  BY <1>10 DEF Crash, WorkflowEnds, process, registry
<1>11. CASE UNCHANGED vars
  BY <1>11 DEF vars, process, registry
<1> QED
  BY <1>1, <1>2, <1>3, <1>4, <1>5, <1>6, <1>7, <1>8, <1>9, <1>10, <1>11 DEF Next, Controller

(* However many attempts it takes, the agent of a later loop reads the        *)
(* outcome of the loop before it.                                             *)
THEOREM FeedbackArrives == Spec => []FeedbackReachesNextCycle
<1>1. Init => FedInv
  BY TypeInit DEF FedInv, Fed, Init
<1>2. FedInv => FeedbackReachesNextCycle
  BY DEF FedInv, Fed, FeedbackReachesNextCycle
<1> QED
  BY <1>1, FedStep, <1>2, PTL DEF Spec

------------------------------------------------------------------------------
(* Every clean cycle the controller remembers has its row, under the loop     *)
(* its manifest names.                                                        *)
CleanRow(r) == row[r].verdict \in Clean /\ row[r].loop # 0

Remembered ==
  /\ pc \in {"stage", "commit", "push", "find", "watch", "download", "ingest"} =>
       manifest[runs] = loop
  /\ pc = "feedback" /\ verdict \in Clean => CleanRow(runs)
  /\ \A c \in cycles : c.run <= runs /\ (pc \notin {"down", "cycle"} => c.run < runs)
  /\ \A c \in cycles : c.verdict \in Clean => CleanRow(c.run)

Honest ==
  /\ pc # "down" => result = "none"
  /\ DeadEndIsGenuine

EndInv == TypeInv /\ Remembered /\ Honest

LEMMA CleanCounted == TypeInv => (CleanCount > 0 <=> \E r \in RunId : CleanRow(r))
<1> SUFFICES ASSUME TypeInv PROVE CleanCount > 0 <=> \E r \in RunId : CleanRow(r)
    OBVIOUS
<1>1. LoopsWith(Clean) \subseteq 0..Loops
  <2>1. \A r \in RunId : row[r] \in GithubRow
    BY DEF TypeInv, TypeOK
  <2>2. \A e \in GithubRow : e.loop \in 0..Loops
    BY DEF GithubRow
  <2> QED
    BY <2>1, <2>2 DEF LoopsWith
<1>2. IsFiniteSet(LoopsWith(Clean))
  <2>1. 0 \in Int /\ Loops \in Int
    BY BoundsAssumption
  <2>2. IsFiniteSet(0..Loops)
    BY ONLY <2>1, FS_Interval
  <2> QED
    BY ONLY <1>1, <2>2, FS_Subset
<1>3. CleanCount \in Nat /\ (CleanCount = 0 <=> LoopsWith(Clean) = {})
  BY <1>2, FS_EmptySet, FS_CardinalityType DEF CleanCount
<1>4. LoopsWith(Clean) # {} <=> \E r \in RunId : CleanRow(r)
  BY DEF LoopsWith, CleanRow
<1> QED
  BY <1>3, <1>4

LEMMA RememberedStep == EndInv /\ [Next]_vars => Remembered'
<1> SUFFICES ASSUME EndInv, [Next]_vars PROVE Remembered'
    OBVIOUS
<1>t. /\ runs \in Nat /\ loop \in Nat
      /\ pc \notin {"down", "cycle"} => runs \in RunId /\ loop >= 1
      /\ \A c \in cycles : c.run \in RunId /\ c.run \in Nat
      /\ manifest \in [RunId -> 0..Loops] /\ row \in [RunId -> GithubRow]
  BY MaxRunsNat, BoundsAssumption
     DEF EndInv, TypeInv, TypeOK, Progress, RunId, CycleResult
<1> USE <1>t DEF EndInv, Remembered, CleanRow, Leave, Goto
<1>1. CASE Start \/ SyncRefused
  BY <1>1 DEF Start, SyncRefused, BeginInvocation, registry
<1>2. CASE BeginCycle
  BY <1>2 DEF BeginCycle, registry
<1>3. CASE AgentStep
  BY <1>3 DEF AgentStep, AgentRuns, registry, observed
<1>4. CASE BackendBlocks \/ HeadGuardBlocks \/ ContractBlocks \/ BoundaryBlocks
  BY <1>4 DEF BackendBlocks, HeadGuardBlocks, ContractBlocks, BoundaryBlocks, Blocked,
              observed
<1>5. CASE ValidateCycle \/ CountAttempt
  BY <1>5 DEF ValidateCycle, CountAttempt, observed, process
<1>6. CASE RecordManifest
  BY <1>6 DEF RecordManifest, LoopIndex, observed, process
<1>7. CASE StageResearchCommit \/ CommitCycle
  BY <1>7 DEF StageResearchCommit, CommitCycle, observed, process, registry
<1>8. CASE RetryTransient \/ GiveUp
  BY <1>8 DEF RetryTransient, GiveUp, observed, registry
<1>9. CASE Push \/ PushFails \/ FindRun \/ WatchRun \/ WatchTimeout
  BY <1>9 DEF Push, PushFails, FindRun, WatchRun, WatchTimeout, observed, process, registry
<1>10. CASE BundleIncomplete \/ BundleRejected
  BY <1>10 DEF BundleIncomplete, BundleRejected, observed, registry, Clean
<1>11. CASE IngestRun
  BY <1>11 DEF IngestRun, OwnBundle, observed, process
<1>15. CASE IngestManifest
  <2>1. gh = runs /\ runs \in RunId /\ manifest[gh] = loop /\ loop # 0
    BY <1>15 DEF IngestManifest, TypeInv, Progress
  <2>2. PICK new : /\ new = [verdict |-> row[gh].verdict, loop |-> manifest[gh]]
                   /\ row' = [row EXCEPT ![gh] = new]
    BY <1>15 DEF IngestManifest
  <2>3. row'[runs] = new /\ new.verdict = verdict' /\ new.loop = loop
    BY <1>15, <2>1, <2>2 DEF IngestManifest
  <2>4. \A c \in cycles : c.run # gh /\ row'[c.run] = row[c.run]
    BY <1>15, <2>1, <2>2 DEF IngestManifest
  <2> QED
    BY <1>15, <2>1, <2>3, <2>4 DEF IngestManifest, observed
<1>12. CASE FinishCycle
  BY <1>12 DEF FinishCycle, observed
<1>13. CASE Crash \/ \E r \in RunId : WorkflowEnds(r)
  BY <1>13 DEF Crash, WorkflowEnds, observed, process, registry
<1>14. CASE UNCHANGED vars
  BY <1>14 DEF vars, observed, process, registry
<1> QED
  BY <1>1, <1>2, <1>3, <1>4, <1>5, <1>6, <1>7, <1>8, <1>9, <1>10, <1>11, <1>12, <1>13, <1>14,
     <1>15 DEF Next, Controller

LEMMA HonestStep == EndInv /\ [Next]_vars => Honest'
<1> SUFFICES ASSUME EndInv, [Next]_vars PROVE Honest'
    OBVIOUS
<1> USE DEF EndInv, Honest, DeadEndIsGenuine, Leave, Goto
<1>r. row' = row => CleanCount' = CleanCount
  BY DEF CleanCount, LoopsWith
<1>1. CASE Start \/ SyncRefused \/ BeginCycle
  BY <1>1 DEF Start, SyncRefused, BeginInvocation, BeginCycle
<1>2. CASE FinishCycle
  <2>1. row' = row /\ CleanCount' = CleanCount
    BY <1>2, <1>r DEF FinishCycle
  <2>2. runs \in RunId /\ \A c \in cycles : c.run \in RunId
    BY <1>2, MaxRunsNat DEF FinishCycle, TypeInv, TypeOK, Progress, RunId, CycleResult
  <2>3. cycles' = cycles \cup {[loop |-> loop, run |-> runs, verdict |-> verdict]}
    BY <1>2 DEF FinishCycle
  <2>4. (\E c \in cycles' : c.verdict \in Clean) => CleanCount > 0
    BY <1>2, <2>2, <2>3, CleanCounted DEF FinishCycle, Remembered
  <2>5. HasCleanResult <=> CleanCount > 0
    BY <2>4 DEF HasCleanResult
  <2>6. verdict = "met" => CleanCount > 0
    BY <1>2, <2>2, CleanCounted DEF FinishCycle, Remembered, Clean
  <2>7. ~(CleanCount > 0) => CleanCount = 0
    <3>1. LoopsWith(Clean) = {}  \/ CleanCount > 0
      BY CleanCounted DEF LoopsWith, CleanRow
    <3> QED
      BY <3>1, FS_EmptySet DEF CleanCount
  <2> QED
    BY <1>2, <2>1, <2>5, <2>6, <2>7 DEF FinishCycle, observed
<1>3. CASE Crash \/ GiveUp \/ PushFails \/ BundleRejected \/ StageResearchCommit \/ FindRun
  BY <1>3 DEF Crash, GiveUp, PushFails, BundleRejected, StageResearchCommit, FindRun, observed
<1>4. CASE AgentStep \/ BackendBlocks \/ HeadGuardBlocks \/ ContractBlocks \/ BoundaryBlocks
           \/ ValidateCycle
  BY <1>4 DEF AgentStep, AgentRuns, BackendBlocks, HeadGuardBlocks, ContractBlocks,
              BoundaryBlocks, Blocked, ValidateCycle, observed
<1>5. CASE CountAttempt \/ RetryTransient \/ RecordManifest \/ CommitCycle \/ Push
  BY <1>5 DEF CountAttempt, RetryTransient, RecordManifest, CommitCycle, Push, observed
<1>6. CASE WatchRun \/ WatchTimeout \/ BundleIncomplete \/ IngestRun \/ IngestManifest
  BY <1>6 DEF WatchRun, WatchTimeout, BundleIncomplete, IngestRun, IngestManifest, observed
<1>7. CASE \E r \in RunId : WorkflowEnds(r)
  BY <1>7, <1>r DEF WorkflowEnds, observed, registry
<1>8. CASE UNCHANGED vars
  BY <1>8, <1>r DEF vars, observed, registry
<1> QED
  BY <1>1, <1>2, <1>3, <1>4, <1>5, <1>6, <1>7, <1>8 DEF Next, Controller

(* run_loops says "ok" only when the registry holds a clean result of the     *)
(* group, and reports a dead end only when it holds none, however many        *)
(* invocations, failures and crashes came before.                             *)
THEOREM DeadEndsAreGenuine == Spec => []DeadEndIsGenuine
<1>1. Init => EndInv
  BY TypeInit DEF Init, EndInv, Remembered, Honest, DeadEndIsGenuine
<1>2. EndInv /\ [Next]_vars => EndInv'
  BY TypeStep, RememberedStep, HonestStep DEF EndInv
<1>3. EndInv => DeadEndIsGenuine
  BY DEF EndInv, Honest
<1> QED
  BY <1>1, <1>2, <1>3, PTL DEF Spec
=============================================================================
