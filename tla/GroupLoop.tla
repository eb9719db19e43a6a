------------------------------ MODULE GroupLoop ------------------------------
(******************************************************************************)
(* One research group, over any number of invocations of run_loops: the       *)
(* controller process, the agent it lets loose on the checkout, the group's   *)
(* git branch and working tree, the GitHub Actions runs of its pushes, and    *)
(* the rows the registry keeps.  The process may die at any step; a later     *)
(* invocation resumes from what git and the registry still hold.              *)
(*                                                                            *)
(* A cycle is identified by the number of its run id (1, 2, ...).  A file's   *)
(* content is abstracted to the cycle that last touched it.                   *)
(******************************************************************************)
EXTENDS Naturals, FiniteSets

CONSTANTS
  Source,          \* workspace files the group may edit
  Bytecode,        \* *.pyc files git does not ignore: editable, never staged
  OffLimits,       \* tracked files of the workspace outside editable_paths
  Protected,       \* tracked reference or hidden files of the workspace
  Loops,           \* effective_loops of the group (a select collapse is apart)
  Retries,         \* _CYCLE_TRANSIENT_RETRIES
  Inherit,         \* the bootstrap mode is "inherit" (else "baseline")
  Linked,          \* the checkout is a linked worktree made by a parallel wave
  StopOnSuccess,   \* not --run-exact-loops
  AgentCommits,    \* the agent may disobey and commit its own edits
  DiscardCanFail,  \* git may refuse the discard before a retry
  Outcomes,        \* what evaluations may leave to download
  MaxInvocations,  \* bound: how often run_loops is started
  MaxAnchor        \* bound: the commits the lineage may resolve to are 0..MaxAnchor

ASSUME BoundsAssumption ==
  /\ Loops \in Nat \ {0} /\ Retries \in Nat \ {0}
  /\ MaxInvocations \in Nat \ {0} /\ MaxAnchor \in Nat
ASSUME FlagsAssumption ==
  {Inherit, Linked, StopOnSuccess, AgentCommits, DiscardCanFail} \subseteq BOOLEAN
ASSUME FilesAssumption ==
  /\ Source \cap Bytecode = {} /\ Source \cap OffLimits = {}
  /\ Source \cap Protected = {} /\ Bytecode \cap OffLimits = {}
  /\ Bytecode \cap Protected = {} /\ OffLimits \cap Protected = {}

Files == Source \cup Bytecode \cup OffLimits \cup Protected
MaxRuns == MaxInvocations * Loops * Retries
RunId == 1..MaxRuns

(* What an evaluation leaves to download.  The first three are complete       *)
(* bundles; "foreign" carries another correlation id, "malformed" is          *)
(* rejected by ingest, "incomplete" has no run_meta.json.                     *)
Clean == {"met", "below"}
Usable == Clean \cup {"failed"}
Verdict == Usable \cup {"foreign", "malformed", "incomplete"}

ASSUME OutcomesAssumption == Outcomes \subseteq Verdict

Commit == [by : {"none", "anchor", "orchestrator", "agent"}, run : Nat]
NoBranch == [by |-> "none", run |-> 0]
Anchor(a) == [by |-> "anchor", run |-> a]
OwnCommit(r) == [by |-> "orchestrator", run |-> r]
AgentCommit(r) == [by |-> "agent", run |-> r]


VARIABLES
  \* the controller process; lost when it dies
  pc, loop, attempt, preexisting, headBefore, agent, gh, verdict, cycles,
  \* the group's checkout and its branch: a commit is named by its author and
  \* the cycle it belongs to, content[r] are the edits of cycle r's commit
  head, branch, dirty, content, manifestFile,
  \* GitHub: what ever reached the remote branch; the workflow run of each push
  published, ci,
  \* the registry: local rows, the loop_index of cycle manifest rows, gh_ rows,
  \* and the intent packet (cycles counted; the cycles whose outcome and whose
  \* artifacts it carries)
  localRun, manifest, row, intent,
  \* observation: cycles and invocations begun, the cycles before this
  \* invocation, how the last invocation ended
  runs, invocations, before, result

process == <<loop, attempt, preexisting, headBefore, agent, gh, verdict>>
git == <<head, branch, dirty, content, manifestFile>>
github == <<published, ci>>
registry == <<localRun, manifest, row, intent>>
observed == <<runs, invocations, before, result>>
vars == <<pc, process, cycles, git, github, registry, observed>>

(* The shapes of what the controller and the registry keep.                   *)
AgentOutcome == [status : {"none", "finished", "error", "cancelled"}, plan : BOOLEAN,
                 class : {"none", "invalid_cycle", "infra_failure", "agent_moved_head"}]
CycleResult == [loop : 1..Loops, run : RunId, verdict : Usable \cup {"incomplete"}]
GithubRow == [verdict : Usable \cup {"none"}, loop : 0..Loops]
IntentPacket == [attempts : Nat, fed : Nat, ref : Nat]

NoAgent == [status |-> "none", plan |-> FALSE, class |-> "none"]
NoEdits == [f \in Files |-> 0]
NoRow == [verdict |-> "none", loop |-> 0]
NothingRun == [r \in RunId |-> "none"]

TypeOK ==
  /\ pc \in {"down", "cycle", "agent", "guards", "blocked", "intent", "manifest",
             "stage", "commit", "push", "find", "watch", "download", "ingest", "feedback"}
  /\ loop \in 0..Loops /\ attempt \in 0..Retries
  /\ preexisting \subseteq Files /\ headBefore \in Commit
  /\ agent \in AgentOutcome
  /\ gh \in 0..MaxRuns /\ verdict \in Usable \cup {"none", "incomplete"}
  /\ cycles \subseteq CycleResult
  /\ head \in Commit /\ branch \subseteq Commit
  /\ dirty \in [Files -> Nat] /\ content \in [RunId -> [Files -> Nat]]
  /\ manifestFile \in [RunId -> {"none", "untracked", "staged", "committed"}]
  /\ published \subseteq Commit
  /\ ci \in [RunId -> Verdict \cup {"none", "running"}]
  /\ localRun \in [RunId -> {"none", "finished", "error"}]
  /\ manifest \in [RunId -> 0..Loops]
  /\ row \in [RunId -> GithubRow]
  /\ intent \in IntentPacket
  /\ runs \in 0..MaxRuns /\ invocations \in 0..MaxInvocations /\ before \in 0..MaxRuns
  /\ result \in {"none", "ok", "failed", "exhausted", "raised", "crashed"}

Init ==
  /\ pc = "down" /\ loop = 0 /\ attempt = 0 /\ preexisting = {}
  /\ headBefore = NoBranch /\ agent = NoAgent /\ gh = 0 /\ verdict = "none" /\ cycles = {}
  /\ head = NoBranch /\ branch = {} /\ dirty = NoEdits
  /\ content = [r \in RunId |-> NoEdits] /\ manifestFile = NothingRun
  /\ published = {} /\ ci = NothingRun
  /\ localRun = NothingRun /\ manifest = [r \in RunId |-> 0]
  /\ row = [r \in RunId |-> NoRow] /\ intent = [attempts |-> 0, fed |-> 0, ref |-> 0]
  /\ runs = 0 /\ invocations = 0 /\ before = 0 /\ result = "none"

------------------------------------------------------------------------------
(* Registry queries.                                                          *)

LoopsWith(verdicts) ==
  {row[r].loop : r \in {x \in RunId : row[x].verdict \in verdicts}} \ {0}
CleanCount == Cardinality(LoopsWith(Clean))
CycleCount == Cardinality(LoopsWith(Usable))

GroupComplete ==
  \/ CleanCount >= Loops
  \/ CleanCount >= 1 /\ CycleCount >= Loops

------------------------------------------------------------------------------
(* Git helpers.                                                               *)

ChangedFiles == {f \in Files : dirty[f] # 0}
TreeChanged == ChangedFiles # {} \/ \E r \in RunId : manifestFile[r] \in {"untracked", "staged"}

(* reset --hard HEAD; clean -fd: what is not committed is gone, HEAD stays.   *)
KeepTree == UNCHANGED <<dirty, manifestFile>>   \* variant: nothing is discarded
CleanTree ==
  /\ dirty' = NoEdits
  /\ manifestFile' = [r \in RunId |-> IF manifestFile[r] = "committed"
                                      THEN "committed" ELSE "none"]

(* run_loops returns, or its process ends without returning.                  *)
Leave(how) ==
  /\ pc' = "down" /\ result' = how
  /\ loop' = 0 /\ attempt' = 0 /\ preexisting' = {} /\ headBefore' = NoBranch
  /\ agent' = NoAgent /\ gh' = 0 /\ verdict' = "none"
  /\ UNCHANGED <<runs, invocations, before>>

Goto(step) == pc' = step /\ UNCHANGED observed

------------------------------------------------------------------------------
(* The start of run_loops: the branch is created at the lineage anchor,       *)
(* synced to it (inherit) or just checked out (baseline).  A wave re-creates  *)
(* a linked worktree first, which drops what was not committed.               *)

Anchors == IF Inherit THEN 0..MaxAnchor ELSE {0}

BeginInvocation ==
  /\ pc = "down" /\ invocations < MaxInvocations /\ ~GroupComplete
  /\ invocations' = invocations + 1 /\ before' = runs
  /\ cycles' = {}
  /\ UNCHANGED <<preexisting, headBefore, agent, gh, verdict, content, github, registry, runs>>

(* checkout_or_create with sync_to_ref: an inherit branch is reset to the     *)
(* anchor it is not already at.                                               *)
NeverReset(a) == FALSE          \* variant: the branch is never synced
AlwaysReset(a) == head # Anchor(a)   \* variant: a baseline branch is synced too
Resets(a) == Inherit /\ head # Anchor(a)

Start ==
  /\ BeginInvocation
  /\ pc' = "cycle" /\ result' = "none" /\ loop' = 1 /\ attempt' = 1
  /\ IF Linked THEN CleanTree ELSE UNCHANGED <<dirty, manifestFile>>
  /\ \E a \in Anchors :
       \/ /\ head = NoBranch \/ (Resets(a) /\ (Linked \/ ~TreeChanged))
          /\ head' = Anchor(a) /\ branch' = {}
       \/ /\ head # NoBranch /\ ~Resets(a)
          /\ UNCHANGED <<head, branch>>

(* sync_to_ref refuses to reset over local changes, and run_loops raises.     *)
SyncRefused ==
  /\ BeginInvocation
  /\ ~Linked /\ head # NoBranch /\ TreeChanged
  /\ \E a \in Anchors : Resets(a)
  /\ result' = "raised"
  /\ UNCHANGED <<pc, loop, attempt, git>>

------------------------------------------------------------------------------
(* run_group: one agent cycle and its guards.                                 *)

BeginCycle ==
  /\ pc = "cycle" /\ runs < MaxRuns
  /\ runs' = runs + 1 /\ pc' = "agent"
  /\ preexisting' = ChangedFiles /\ headBefore' = head
  /\ UNCHANGED <<loop, attempt, agent, gh, verdict, cycles, git, github, registry,
                 invocations, before, result>>

(* The agent edits files, may or may not leave cycle_intent.json, and ends    *)
(* with an SDK status.  A disobedient one commits all it edited.              *)
AgentRuns(status, plan, touched, commits) ==
  /\ pc = "agent"
  /\ agent' = [status |-> status, plan |-> plan, class |-> "none"]
  /\ IF commits
     THEN /\ head' = AgentCommit(runs) /\ branch' = branch \cup {AgentCommit(runs)}
          /\ dirty' = NoEdits
     ELSE /\ dirty' = [f \in Files |-> IF f \in touched THEN runs ELSE dirty[f]]
          /\ UNCHANGED <<head, branch>>
  /\ Goto("guards")
  /\ UNCHANGED <<loop, attempt, preexisting, headBefore, gh, verdict, cycles, content,
                 manifestFile, github, registry>>

AgentStep ==
  \E status \in {"finished", "error", "cancelled"}, plan \in BOOLEAN,
     touched \in SUBSET Files, commits \in BOOLEAN :
    /\ commits => AgentCommits /\ touched # {}
    /\ AgentRuns(status, plan, touched, commits)

(* _finalize_blocked_run: an error row; the intent packet is left alone.      *)
Blocked(class) ==
  /\ pc = "guards"
  /\ localRun' = [localRun EXCEPT ![runs] = "error"]
  /\ agent' = [agent EXCEPT !.class = class]
  /\ Goto("blocked")
  /\ UNCHANGED <<loop, attempt, preexisting, headBefore, gh, verdict, cycles, git, github,
                 manifest, row, intent>>

BackendBlocks ==
  \/ agent.status = "cancelled" /\ Blocked("infra_failure")
  \/ agent.status = "error" /\ Blocked("invalid_cycle")

HeadMoved == head # headBefore
HeadGuardBlocks == agent.status = "finished" /\ HeadMoved /\ Blocked("agent_moved_head")

(* The planning contract fails on a missing plan, or on what it says.         *)
ContractBlocks ==
  agent.status = "finished" /\ ~HeadMoved /\ Blocked("invalid_cycle")

(* Only files that were clean before the cycle count as its changes.          *)
CycleChanges == ChangedFiles \ preexisting
WithinBoundary ==
  /\ CycleChanges \cap (OffLimits \cup Protected) = {}
  /\ CycleChanges \cap (Source \cup Bytecode) # {}

BoundaryBlocks ==
  /\ agent.status = "finished" /\ ~HeadMoved /\ agent.plan /\ ~WithinBoundary
  /\ Blocked("invalid_cycle")

ValidateCycle ==
  /\ pc = "guards"
  /\ agent.status = "finished" /\ ~HeadMoved /\ agent.plan /\ WithinBoundary
  /\ localRun' = [localRun EXCEPT ![runs] = "finished"]
  /\ Goto("intent")
  /\ UNCHANGED <<process, cycles, git, github, manifest, row, intent>>

CountAttempt ==
  /\ pc = "intent"
  /\ intent' = [intent EXCEPT !.attempts = @ + 1]
  /\ Goto("manifest")
  /\ UNCHANGED <<process, cycles, git, github, localRun, manifest, row>>

------------------------------------------------------------------------------
(* run_loops, after run_group returned blocked.                               *)

Transient ==
  agent.class = "invalid_cycle" /\ (agent.status = "error" \/ ~agent.plan)

(* variant: the attempts are not counted against the bound                    *)
RetryForever ==
  /\ pc = "blocked" /\ Transient
  /\ attempt' = attempt + 1 /\ agent' = NoAgent
  /\ CleanTree
  /\ Goto("cycle")
  /\ UNCHANGED <<loop, preexisting, headBefore, gh, verdict, cycles, head, branch, content,
                 github, registry>>

(* A discard that fails is suppressed.                                        *)
RetryTransient ==
  /\ pc = "blocked" /\ Transient /\ attempt < Retries
  /\ attempt' = attempt + 1 /\ agent' = NoAgent
  /\ \/ CleanTree
     \/ DiscardCanFail /\ UNCHANGED <<dirty, manifestFile>>
  /\ Goto("cycle")
  /\ UNCHANGED <<loop, preexisting, headBefore, gh, verdict, cycles, head, branch, content,
                 github, registry>>

(* variant: a blocked cycle falls through to its commit                       *)
CarryOn ==
  /\ pc = "blocked" /\ ~(Transient /\ attempt < Retries)
  /\ Goto("manifest")
  /\ UNCHANGED <<process, cycles, git, github, registry>>

GiveUp ==
  /\ pc = "blocked" /\ ~(Transient /\ attempt < Retries)
  /\ Leave("failed")
  /\ UNCHANGED <<cycles, git, github, registry>>

(* The manifest is written and recorded before anything is committed.         *)
AttemptIndex == attempt   \* variant: the retry counter is recorded instead
LoopIndex == loop

RecordManifest ==
  /\ pc = "manifest"
  /\ manifest' = [manifest EXCEPT ![runs] = LoopIndex]
  /\ manifestFile' = [manifestFile EXCEPT ![runs] = "untracked"]
  /\ Goto("stage")
  /\ UNCHANGED <<process, cycles, head, branch, dirty, content, github, localRun, row,
                 intent>>

Stageable == ChangedFiles \cap (Source \cup OffLimits)

StageResearchCommit ==
  /\ pc = "stage"
  /\ \/ \* assert_no_excluded_staged_paths raises
        /\ ChangedFiles \cap Protected # {}
        /\ Leave("raised") /\ UNCHANGED manifestFile
     \/ /\ ChangedFiles \cap Protected = {}
        /\ manifestFile' = [manifestFile EXCEPT ![runs] = "staged"]
        /\ IF Stageable = {}
           THEN Leave("failed")
           ELSE Goto("commit") /\ UNCHANGED process
  /\ UNCHANGED <<cycles, head, branch, dirty, content, github, registry>>

CommitCycle ==
  /\ pc = "commit"
  /\ content' = [content EXCEPT ![runs] = [f \in Files |-> IF f \in Stageable
                                                            THEN dirty[f] ELSE 0]]
  /\ dirty' = [f \in Files |-> IF f \in Stageable THEN 0 ELSE dirty[f]]
  /\ manifestFile' = [r \in RunId |-> IF manifestFile[r] = "staged" THEN "committed"
                                      ELSE manifestFile[r]]
  /\ head' = OwnCommit(runs) /\ branch' = branch \cup {OwnCommit(runs)}
  /\ Goto("push")
  /\ UNCHANGED <<process, cycles, github, registry>>

(* The forced push starts a workflow run for the new head; the workflow's     *)
(* concurrency group cancels the one still running for the branch.            *)
Push ==
  /\ pc = "push"
  /\ published' = published \cup branch
  /\ ci' = [r \in RunId |-> IF r = runs THEN "running"
                            ELSE IF ci[r] = "running" THEN "incomplete" ELSE ci[r]]
  /\ Goto("find")
  /\ UNCHANGED <<process, cycles, git, registry>>

PushFails ==
  /\ pc = "push"
  /\ Leave("raised")
  /\ UNCHANGED <<cycles, git, github, registry>>

(* The lookup keys on the head sha; it raises when its attempts run out.      *)
FindRun ==
  /\ pc = "find"
  /\ \/ \E g \in RunId :
          /\ ci[g] # "none" /\ head = OwnCommit(g)
          /\ gh' = g /\ Goto("watch")
          /\ UNCHANGED <<loop, attempt, preexisting, headBefore, agent, verdict>>
     \/ Leave("raised")
  /\ UNCHANGED <<cycles, git, github, registry>>

(* watch_run gives up after max_wait_sec; run_loops does not look at what it  *)
(* returned.                                                                  *)
WatchRun ==
  /\ pc = "watch" /\ ci[gh] # "running"
  /\ Goto("download")
  /\ UNCHANGED <<process, cycles, git, github, registry>>

WatchForever == FALSE     \* variant: the wait has no deadline

WatchTimeout ==
  /\ pc = "watch" /\ ci[gh] = "running"
  /\ Goto("download")
  /\ UNCHANGED <<process, cycles, git, github, registry>>

(* No usable bundle: none was uploaded, or it could not be downloaded.        *)
BundleIncomplete ==
  /\ pc = "download"
  /\ verdict' = "incomplete"
  /\ Goto("feedback")
  /\ UNCHANGED <<loop, attempt, preexisting, headBefore, agent, gh, cycles, git, github,
                 registry>>

(* The workflow reads the correlation id from the message of the commit it    *)
(* evaluates; a bundle of another cycle is refused, as is one ingest rejects. *)
OwnBundle == gh = runs /\ ci[gh] # "foreign"

BundleRejected ==
  /\ pc = "download"
  /\ \/ ci[gh] \in Verdict \ {"incomplete"} /\ ~OwnBundle
     \/ ci[gh] = "malformed" /\ OwnBundle
  /\ Leave("failed")
  /\ UNCHANGED <<cycles, git, github, registry>>

(* ingest commits the gh_ row first, then the cycle row that gives it its     *)
(* loop_index, read from the manifest in the commit.                          *)
IngestRun ==
  /\ pc = "download" /\ ci[gh] \in Usable /\ OwnBundle
  /\ row' = [row EXCEPT ![gh] = [verdict |-> ci[gh], loop |-> 0]]
  /\ Goto("ingest")
  /\ UNCHANGED <<process, cycles, git, github, localRun, manifest, intent>>

IngestManifest ==
  /\ pc = "ingest"
  /\ row' = [row EXCEPT ![gh] = [verdict |-> row[gh].verdict, loop |-> manifest[gh]]]
  /\ verdict' = row[gh].verdict
  /\ Goto("feedback")
  /\ UNCHANGED <<loop, attempt, preexisting, headBefore, agent, gh, cycles, git, github,
                 localRun, manifest, intent>>

FeedOnlyBundles ==        \* variant: a cycle without a bundle is not fed back
  intent' = IF verdict = "incomplete" THEN intent
            ELSE [intent EXCEPT !.fed = runs, !.ref = runs]
FeedIntent ==
  intent' = IF verdict = "incomplete" THEN [intent EXCEPT !.fed = runs]
            ELSE [intent EXCEPT !.fed = runs, !.ref = runs]

(* A clean cycle of this invocation, or any clean row of the group.           *)
CleanThisTime ==          \* variant: earlier invocations are forgotten
  \E c \in cycles' : c.verdict \in Clean
HasCleanResult ==
  \/ \E c \in cycles' : c.verdict \in Clean
  \/ CleanCount > 0

(* The outcome reaches the intent packet; then the next loop, or the end.     *)
FinishCycle ==
  /\ pc = "feedback"
  /\ FeedIntent
  /\ cycles' = cycles \cup {[loop |-> loop, run |-> runs, verdict |-> verdict]}
  /\ \/ /\ StopOnSuccess /\ verdict = "met"
        /\ Leave("ok")
     \/ /\ ~(StopOnSuccess /\ verdict = "met") /\ loop < Loops
        /\ loop' = loop + 1 /\ attempt' = 1 /\ agent' = NoAgent /\ gh' = 0 /\ verdict' = "none"
        /\ Goto("cycle") /\ UNCHANGED <<preexisting, headBefore>>
     \/ /\ ~(StopOnSuccess /\ verdict = "met") /\ loop = Loops
        /\ Leave(IF HasCleanResult THEN "ok" ELSE "exhausted")
  /\ UNCHANGED <<git, github, localRun, manifest, row>>

------------------------------------------------------------------------------
(* The world around the controller.                                           *)

Crash ==
  /\ pc # "down"
  /\ Leave("crashed")
  /\ UNCHANGED <<cycles, git, github, registry>>

WorkflowEnds(r) ==
  /\ ci[r] = "running"
  /\ \E v \in Outcomes : ci' = [ci EXCEPT ![r] = v]
  /\ UNCHANGED <<pc, process, cycles, git, published, registry, observed>>

Controller ==
  \/ Start \/ SyncRefused \/ BeginCycle \/ AgentStep
  \/ BackendBlocks \/ HeadGuardBlocks \/ ContractBlocks \/ BoundaryBlocks
  \/ ValidateCycle \/ CountAttempt \/ RetryTransient \/ GiveUp
  \/ RecordManifest \/ StageResearchCommit \/ CommitCycle \/ Push \/ PushFails
  \/ FindRun \/ WatchRun \/ WatchTimeout
  \/ BundleIncomplete \/ BundleRejected \/ IngestRun \/ IngestManifest
  \/ FinishCycle

Next == Controller \/ Crash \/ \E r \in RunId : WorkflowEnds(r)

Spec == Init /\ [][Next]_vars

(* A started invocation keeps executing.  Nothing is assumed of GitHub.       *)
FairSpec == Spec /\ WF_vars(pc # "down" /\ Controller)

------------------------------------------------------------------------------
(* The experiment ledger this implements.                                     *)

Final(r) == ci[r] \in Verdict
Stage(r) == IF Final(r) THEN "evaluated"
            ELSE IF OwnCommit(r) \in published THEN "published"
            ELSE CASE localRun[r] = "finished" -> "validated"
                   [] localRun[r] = "error" -> "blocked"
                   [] OTHER -> "new"

Ledger == INSTANCE ExperimentLedger WITH
  Experiment <- RunId,
  stage <- [r \in RunId |-> Stage(r)],
  verdict <- [r \in RunId |-> IF Final(r) THEN ci[r] ELSE "none"],
  recorded <- [r \in RunId |-> row[r].verdict]

(* Through retries, crashes, resumes, cancelled and timed-out workflow runs,  *)
(* no cycle is pushed unless its guards accepted it, none is evaluated        *)
(* unless it was pushed, and a gh_ row says exactly what the workflow run of  *)
(* that cycle's own commit concluded.                                         *)
KeepsLedger == Ledger!LedgerSpec

(* run_loops ends "ok" exactly when the group has a clean result downstream   *)
(* can inherit, and reports a dead end only when it has none, in this         *)
(* invocation or an earlier one.                                              *)
DeadEndIsGenuine ==
  /\ result = "ok" => CleanCount > 0
  /\ result = "exhausted" => CleanCount = 0

(* The agent of a later loop reads an intent packet that carries the outcome  *)
(* of the loop just before it, whatever retries came between.                 *)
FeedbackReachesNextCycle ==
  pc = "agent" /\ loop > 1 =>
    \E c \in cycles : c.loop = loop - 1 /\ c.run = intent.fed

(* A cycle's commit holds edits of that cycle alone, all of them to files it  *)
(* may edit: neither a retried attempt nor a blocked one leaks into it.       *)
CommitHoldsOwnEdits ==
  \A r \in RunId, f \in Files :
    content[r][f] # 0 => content[r][f] = r /\ f \in Source

(* At a push, every commit on the branch was made by this invocation: the     *)
(* branch has been rebuilt from the lineage anchor.                           *)
RebuiltFromAnchor ==
  pc = "find" => \A c \in branch : c.run > before

(* In a baseline group every recorded clean result stays on the branch, where *)
(* later cycles build on it and downstream groups find it: no resume, retry   *)
(* or failed cycle takes it away.                                             *)
CleanResultsStayOnBranch ==
  \A r \in RunId : row[r].verdict \in Clean => OwnCommit(r) \in branch

(* Along a branch the loop_index of a later cycle is higher, so the highest   *)
(* loop is the newest commit.                                                 *)
LoopOrdersBranch ==
  \A r, s \in RunId :
    OwnCommit(r) \in branch /\ OwnCommit(s) \in branch /\ r < s =>
      manifest[r] < manifest[s]

(* Every invocation ends, even if GitHub never finishes a workflow run.       *)
InvocationEnds == pc # "down" ~> pc = "down"

------------------------------------------------------------------------------
(* What comments and docstrings of the code claim, checked as they stand.     *)

(* Nothing the agent committed ever reaches the remote: the orchestrator is   *)
(* the sole committer.                                                        *)
SoleCommitter == \A c \in published : c.by = "orchestrator"
==============================================================================
