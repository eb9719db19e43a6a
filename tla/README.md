# Verification of HiAgentResearch

TLA+ models of the orchestration in `src/hiagentresearch`, TLC configurations that check them on
small instances, and TLAPS proofs of what matters most for every instance. Paths below are relative
to `src/hiagentresearch/src/` unless they say otherwise.

## The system

HiAgentResearch lets a coding agent improve an experiment in *groups* of *cycles*. One cycle: the
agent edits the group's checkout; guards check that it left HEAD alone, wrote a plan and stayed in
its files; the orchestrator commits and force-pushes the group's branch; a GitHub Actions workflow
evaluates the commit; its bundle is downloaded, checked against the cycle's correlation id, ingested
into a SQLite registry and fed back to the next cycle through the *intent packet*. Groups form
waves; a wave's groups run in sequence in one checkout, or in parallel as child processes in linked
git worktrees. Downstream groups start from a commit (*anchor*) chosen among what upstream groups
recorded.

| component | state it keeps | operations | talks to |
|---|---|---|---|
| loop controller, `runtime/loop_controller.py` `run_loops` | loop and attempt counters, cycles done | bootstrap, retry, manifest, stage, commit, push, find, watch, download, ingest, feed back, stop | everything below |
| agent cycle, `runtime/orchestrator.py` `run_group` | names of files changed and HEAD before the agent | agent, head guard, intent contract, edit boundary, validate or block | agent backend, git, registry |
| git, `git/service.py`, `git/worktree.py` | branches, HEAD, working tree, index, linked worktrees | checkout or create, sync, discard, stage, commit, push, ensure, remove | the remote |
| GitHub client and ingest, `github/actions.py`, `github/ingest.py` | none of its own | find, watch, download; write run row, then cycle row | GitHub, registry |
| registry, `registry/store.py` | runs, cycles, metrics, intent packets, session stamps | upserts; counts and anchors as queries | all |
| loops-all, `run_loops_all`, `_run_wave_parallel` | waves done, children, worktrees | skip complete groups, launch, wait, tolerate or abort, stamp the session | loop controller, worktrees, registry |
| lineage, `lineage/*.py` | none of its own | best, last, origin and loop anchors; inherit and merge bootstraps; promotion anchor | registry, configuration |
| configuration, `core/config.py` | the groups desugared from areas | validate, desugar, waves | loops-all, lineage |
| agent backend, `agents/agent_backends.py` | startup attempts, stream deadline | run one SDK session | Cursor SDK |
| baseline, `runtime/baseline.py`, `github/ingest.py` | frozen baseline row, start of the session | check, dispatch, find, watch, download, record | GitHub, registry |
| promotion, `runtime/promote.py`, `lineage/promotion.py` | the target branch | choose, guard, overlay, commit, push | git, registry |
| evaluation node, `eval/node.py`, `core/ci_result.py` | none | classify output into a bundle | workflow |
| dashboard, `dashboard/*.py` | none of its own | read a study back: points, stars, connectors, map of areas | registry, configuration, lineage |
| prompts, CLI, `mnist` | files written once | render, parse | registry |

What is hard here: the controller may die at any step and be started again on what git and the
registry still hold; it waits on a service that may be late, cancelled or silent; it retries an
agent that may have done part of its work, or things it was told not to do; branches are reset and
force-pushed; completion is inferred from rows rather than stored.
`PROJECT.json` lists the hazards one by one.

What makes the components correct:

* *one group*: nothing is pushed unguarded or recorded unevaluated, a row says what its own commit's
  run said, commits hold the cycle's edits only, the branch holds what it should, the outcome reaches
  the next agent, the final verdict is true, and an invocation ends;
* *loops-all*: a group runs only after what it builds on; at most one controller per group; a wave is
  abandoned only at a genuine dead end; resuming redoes nothing complete;
* *lineage*: a downstream group starts from a commit that was evaluated clean and is still reachable,
  the best or latest as asked; a merge never lists a participant twice nor its own ancestor;
* *configuration*: every desugared plan has acyclic waves and one owner per branch;
* *promotion, baseline*: what is promoted is what was evaluated; one frozen baseline, of the commit
  it names, older than nothing that is compared with it;
* *agent backend*: a prompt is only sent again on a tree that no agent has touched;
* *dashboard*: a commit is in one place whichever group shows it, with its own value, and the lines
  between groups are those of the configuration.

## Modules

| module | models |
|---|---|
| `ExperimentLedger` | abstract: experiments blocked or validated, then published, evaluated and recorded |
| `GroupLoop`, `MCGroupLoop` | one group over any number of invocations of `run_loops` |
| `LoopsAll`, `MCLoopsAll` | `run_loops_all` over a study, and the `run_loops` it starts |
| `Lineage`, `MCLineage` | where each group's branch starts, and the commits it adds |
| `ConfigDesugar`, `MCConfigDesugar` | areas of a configuration to groups and waves, and their validation |
| `Evaluation`, `MCEvaluation` | one evaluation, from a push or a dispatch to the verdict |
| `Promotion`, `MCPromotion` | `promote`: a commit of the study laid over a target branch |
| `Baseline`, `MCBaseline` | `ensure_baseline_snapshot` by several processes, and manifest ingests |
| `AgentBackend` | one call of the agent with its startup retries |
| `Dashboard` | what the dashboard draws, as operators over the state of `Lineage` |
| `GroupLoopProofs` | proofs about `GroupLoop`: types and refinement; branch, commits, feedback, verdict |
| `LoopsAllProofs` | proofs about `LoopsAll` |
| `LineageProofs`, `PromotionProofs`, `BaselineProofs`, `EvaluationProofs`, `ConfigDesugarProofs`, `DashboardProofs` | proofs about the module of that name |

Operators commented *variant* are how the code could go wrong; nothing else uses them.

### `GroupLoop`

`ExperimentLedger` has no git, GitHub or registry: a push may publish several validated experiments
and may abandon evaluations under way. `GroupLoop` implements it (`KeepsLedger`). Correspondence:

* The controller process is `pc`, `loop`, `attempt`, `preexisting`, `headBefore`, `agent`, `gh`,
  `verdict`, `cycles`; a crash (`Crash`) or a return (`Leave`) loses it. `pc = "down"` means that no
  controller runs.
* Git is `head`, `branch` (the commits above the anchor), `dirty` (for each file the cycle that last
  edited it, 0 when clean), `content` (the edits in each cycle's commit) and `manifestFile`. A commit
  is named by who made it and in which cycle.
* GitHub is `published` and `ci`, one workflow run per pushed cycle. `WorkflowEnds` may happen at any
  time or never; a push cancels what the branch's concurrency group still runs.
* The registry is `localRun`, `manifest`, `row` and `intent`.
* `runs`, `invocations`, `before` and `result` observe.

Each step of the code between two things another party could see is one action; the handler's early
returns are actions of their own (`HeadGuardBlocks`, `BundleRejected`, ...). `ingest` takes two
actions, because it commits the run row before the cycle row. Abstracted: file contents, the wording
of contracts and notes, logs, transitions and artifacts tables; `decision` and the metric-regression
note (they only steer text); the session filter (one session); returns of `run_loops` that
`run_group` cannot cause (no run id, unparsable payload); an agent that stages without committing;
git failing at a checkout or commit. `Start` is disabled for a complete group, as the loops-all
driver skips one; the `loops` command line does not check. A group of zero loops (select collapse)
is apart.

### `LoopsAll`

* The driver is `pc`, `parallel` (whether this invocation was given `--parallel`; each chooses anew),
  `wave` and `queue`, the groups of the wave not started yet. `Launch` is one turn
  of the launch loop of `_run_wave_parallel`, `JoinWave` and `AbortWave` what follows once all streams
  and exit codes are in; `Call` and `CallReturns` are the sequential driver. `Stop` is the `finally`
  clause, where git may fail on a worktree and skip the stamp; the sequential one removes none.
* `Refused`: git checks a branch out once, so a group whose worktree was left by a parallel driver that
  died cannot run in the shared checkout: its run raises, on every sequential resume, until a parallel
  one cleans up.
* `children` are the controllers that run, or whose exit the driver has not taken yet, each with the
  invocation that started it. After `Crash` the children of a parallel wave run on and the next
  invocation does not know them; sequential groups die with the driver.
* A child does what `GroupLoop` shows of `run_loops`: `EndLoop` adds at most a row, clean or not, and
  its last one exits well only with a clean row (`DeadEndsAreGenuine`); `GiveUp` is every other end.
  `Adopt` is a select collapse.
* The registry is reduced to the loops of each group with a row (`counted`), a clean row (`clean`) and
  the recorded collapses. All rows belong to one session.
* The order within a wave is left open: nothing in the code depends on it. The baseline evaluation is
  its success or failure. Left out: copies of failed artifacts, the dashboard build, printed output.

### `Lineage`

* `commits` are the groups' commits in the order they were made, each with the commits it descends
  from, the loop it was made in, the row CI's bundle left, and whether that has its cycle row (`whole`).
  What a commit descends from (`History`, `Depth`) is git's view and only properties use it; anchors and
  bootstraps read the registry, as the code does.
* `origin` is `earliest_cycle`; `boot` the `BranchBootstrap` of the last start; `head` the branch tip.
  A select collapse has `Budget` 0 and only an origin.
* `Begin` is the start of `run_loops`: it resolves the bootstrap, resets (`inherit`, merges) or keeps
  (`baseline`) the branch. `Loop` commits and is told what CI said; `GiveUp` leaves before that.
  `Resume` is a driver that ends or dies and starts again; when a wave may begin is `LoopsAll`'s rule.
* `ingest` commits the run row before the cycle row. A kill between the two, or a cycle manifest that
  cannot be parsed, leaves a run without a loop (`CutOff` says of which results) and ends the
  controller. Counts of loops skip such a run (`Cycled`), anchors take it for a first loop (`LoopOf`),
  and the last-commit rule puts it below all loops (`LoopRank`).
* Of the fold-ins of a merge `first` is the one listed first, which the dashboard needs to know.
* Abstracted: shas are identities and never abbreviated; one anchor metric; a failed row carries no
  metric (its metric could only matter to a group started at a failed commit, and no property speaks
  of those); the merge agent's work is a commit like another.

### `ConfigDesugar`

* A behaviour loads one configuration, chosen by `Init`: `stage` moves through the validators in the
  order pydantic runs them, `desugar_areas` (`DesugarAreas`, or `PassFlat` when no area has
  approaches), `assign_area_metadata`, `validate_references`; `Reject` is any of their `ValueError`s.
  `groups` and `waves` are what the configuration holds by then.
* Ids are triples of area, role and index instead of strings. `level` is the number of areas met going
  up, found without recursion on sets (`Ancestry`), so that a cycle is one that never reaches None.
* `Position` is the *last* wave a group is in, as in the code.
* `execution_order` is a wave list of singletons. Left out: ids given twice, branch names, policies,
  metrics and paths, mode `force` (desugared like `baseline`).
* What loads is what `LoopsAll` and `Lineage` take as constants: `RunsInOrder` is their
  `WavesAreOrdered` (`LoadedRunsInOrder` proves it), `RunsOnce` that each group is in one wave;
  `EdgesJoinResults` is what `AreaNode` of `Lineage` relies on.

### `Evaluation`

What `GroupLoop` takes as its constant `Outcomes`, `Evaluation` derives: three programs that share
only JSON files and exit codes must agree on what happened.

* The adapter (`.hiagentresearch/eval/run_phase1_eval.py`) is `RunTests`, `Train`, `Score` and
  `WriteReport`; `report` and `exit` are what it prints and how it ends. `Diagnostics` says what an
  adapter may report beside it: the MNIST one nothing, another one diagnostics that hold or do not.
* The node is `Normalize` and `NormalizeRaises`; the workflow's last steps are `Upload`. `JobFails` is
  the end of the job by anything else: its timeout, a push that cancels it, a lost runner.
* The reader is `run_loops` (`kind = "experiment"`) or `ensure_baseline_snapshot` (`"baseline"`). It
  watches, downloads and concludes; `DownloadFails` after a deadline or without an artifact.
* Tests are `"void"` when pytest ends well but nothing has passed: training and scoring then run, and
  the report is of a failure that carries metrics.
* Metrics are one value that says what the two judges find: the scorer compares the exact accuracy and
  latency with `accuracy.min` and `latency_ms.max`, the node every configured target with the rounded
  report. `"met"` and `"below"` are where they agree; `"marginal"` is met for the node only (rounded up
  to a bound), `"short"` for the scorer only (rounded down, or short of a target it is not given), and
  `"partial"` is short because the report lacks a target. Left out: the correlation id (`GroupLoop`),
  logs around the JSON.

### `Promotion`

* `anchors` is what the registry would answer `resolve_policy_anchor` for each group; `Record` lets the
  study go on (`Lineage` says how). `Promote` chooses a group, by name or by rank, and `Resolve` asks
  for its anchor again or takes the `--commit`.
* The checkout is `head`, `index` and `work`, with each file's content as whose it is. `target` and
  `remote` are the target branch here and there, each the sequence of its commits above
  `baseline_ref`; at first either may be missing, and a target that only the remote has is created
  anew here. `Carried` and `Switch` are git's rule for uncommitted changes at a checkout.
* `Guard`, `Checkout`, `Overlay`, `Stage`, `CommitPromotion` and `Push` are the calls of
  `promote_research_baseline` in their order; any may fail or be the last (`Crash`).
* Between promotions the operator edits, stages, commits, discards, leaves the target and fetches it;
  others push to the target at any time. While a promotion runs nobody else works in the checkout:
  nothing in the code makes sure of that.
* Left out: the dry run, which returns before it changes anything; files that the operator deletes or
  renames; a target named by a tag or a remote-tracking branch.

### `Baseline`

* Every process of `Caller` is an invocation of `ensure_baseline_snapshot` (from `loops-all` or a
  dashboard build), every one of `Ingest` the ingest of a manifest that carries a snapshot. `pc` and
  `job` are their locals; the steps are the calls of the function: `Check`, `ListKnown`,
  `DispatchWorkflow`, `FindRun`, `WatchRun` or `WatchTimeout`, `Download`, `Reread`, `StampSession`,
  `WriteRow`, `Confirm`. `Abort` is a kill, or git, gh or sqlite failing, before any of them.
* The registry is `row` (the run row `baseline:<ref>`), `metrics` and `session`. `StampSession` and
  `WriteRow` are two actions because the code commits twice. A metric's value is the commit it was
  measured on, a time the number of stamps before it.
* External: `ref` here and on the remote (`Move`), and `runs`, which a dispatch cancels
  (`cancel-in-progress`), which appear in the list some time later and end in any way, or never.
* `Init` is a new registry, one with a baseline, or one whose baseline has other metrics.
* `raced` observes whether two processes ever were between re-read and write. `FrozenOnceComplete` and
  `BaselineInSession` say nothing after that: nothing locks the two, and then the later row replaces
  the earlier.

### `AgentBackend`

One call of `run_cursor_agent_cycle`: the calls into the SDK in their order, and the one `except`
clause around them (`Raises`), which decides between another attempt and the record. A run that was
sent edits until it ends or its bridge is closed (`Edit`). The SDK is external: any of its calls may
raise, as retryable or not. `Messages` swallows what breaks the stream and, as the code does, keeps
that note into later attempts.

### `Dashboard`

The dashboard only reads, so the module has no state: it says, for every state of `Lineage`, what
`dashboard/build.py` would draw in it. A build may run at any time, also between a crash and a resume.

* `Winner` is the top commit of a group, `InheritAnchor` where it branched off (recorded by its first
  cycle, or resolved for the build; a recorded start without a step is looked up as a loop of the
  parent, `ParentLoop`), `Points` its points on the axis of loops (`TrajectoryX`; a run without a cycle
  row is drawn at 0), with the base and path that a collapse borrows from its source, `Stars` the
  starred ones.
* `LineageParent`, `Primary` and `Secondary` are the connectors, found by comparing commits
  (`PlannedSource`); `ResultGroup`, `ParentArea` and `Ancestors` the map of the areas. `FoldIns` drops
  what has no group and then the first that is left, as the code does: the base, or above the baseline,
  which has no group, the first fold-in.
* `MCLineage` extends it, so that `lineage_chain` checks both.
* Left out: the panel of chains, tabs, metrics but the anchor metric, the files written, builds from
  downloaded artifacts instead of the registry.

## Runs

Bounds. `GroupLoop`: `Loops = 2` is the least with a next loop, `Retries = 2` the least with a retry,
`MaxInvocations = 2` the least with a resume, one or two files so that one may be legal and another
not. `MaxRuns` is their product, the most cycles these can take. `LoopsAll`: two leaves, their
collapse and an area below it are the least with a tolerated leaf, a collapse and a dependant; two
loops for one leaf, so that it may outlast its sibling; two invocations. `Lineage`: six groups, so
that a final merge draws on two areas of which one inherits from the other through a collapse and a
root; one loop for each but `a1`, whose two let a resume run again a loop that was scored; three scores
(the baseline's, one better, one better still), a failure and a clean row without the metric, each for
the groups where later ones tell them apart: the first leaf may score either way or not at all, the
second leaf beats or equals it, the area below the collapse scores best or not at all, the root scores,
is clean without a score or fails (any group may give up), and the final merge, on which nothing
depends, scores once; the best commit of `a1`, of its first or its second loop, may lose its cycle row
(`CutOff`).
Every outcome for every group with one loop each was checked as well. `ConfigDesugar`: every
configuration of one to three areas, with any parents (unknown and cyclic ones too), up to two
approaches, merges with and without sources, five wave lists and three values of `combine_areas`: three
areas are the least with a chain, a fork and a cycle that an area outside it leads into.
`Evaluation`: one evaluation, since evaluations share nothing but the branch's concurrency group
(`GroupLoop`). `Promotion`: two files under workdir, of which one exists only in one of two candidate
commits, and one elsewhere; the target at first here, on the remote, on both or on neither; the
operator edits the file that may be untracked and the one elsewhere (`Edited`); two commits on a branch, the least on which a second promotion follows another's, and on
which two branches diverge. `Baseline`: two invocations and an ingest, the least with a rival
dispatch and a third writer; two commits and one move of the ref, so that what was resolved and what
is evaluated may differ; two dispatches, so that one cancels the other; one lookup and one metric,
which is required (the proofs cover the rest). `AgentBackend`: three attempts, the default.
Deadlock is not checked: when the invocations are used up, a configuration is loaded or refused, or a
verdict is reached, the system really stops.

| run | instance | shows |
|---|---|---|
| `worktree` | baseline bootstrap, linked worktree, one editable and one off-limits file, fair controller | types; verdict; feedback; commits hold own edits; clean results stay on the branch; `KeepsLedger` (refinement of `ExperimentLedger`); every invocation ends |
| `checkout` | inherit, shared checkout, exact loops, an agent that commits, discards that fail, an anchor that moves | the branch is rebuilt from its anchor; later cycles have higher loops |
| `all_study` | each invocation parallel or sequential, select collapse, stop on success, fair | no wave on a dead end; only orphans of a killed driver run beside a group they lend an anchor to; `loops-all` returns |
| `lineage_chain` | chain of areas and a final merge, one resume, an ingest cut off between its writes; a dashboard built at any moment | anchors keep the best of all they descend from; steps count commits; merge plans are distinct; a commit has one place and its own value; top commits are starred; connectors follow the areas; arrows come from the sources |
| `config_load` | all configurations of up to three areas | sound areas always load; a group runs once, after its sources; the last wave builds on everything; edges between areas join their results |
| `eval_job` | any diagnostics; jobs, waits and downloads may fail; fair reader | verdicts, rows and baseline say what was executed and what both judges found; the reader goes on |
| `promote` | minimised metric; one group by best, one by last commit | only the chosen commit's files are promoted; edits and commits survive; the automatic choice is the strongest |
| `baseline_snapshot` | two invocations, one manifest ingest, moving ref, kills | the baseline is of its commit, in its session, frozen; who returns has one |
| `committer`, `eval_mnist`, `lineage_foldins`, `agent_retry` | least instance each | a comment or document the code contradicts |

`BestOfHistory` and `StepIsDepth` speak of groups whose branch, like those it descends from, was only
ever started from one commit (`Steady`). A resume that restarts a group elsewhere keeps the first
origin (`earliest_cycle`), and a start at a commit without the metric loses it; there the code makes
no such promise. `BestOfHistory` also needs `best_commit` on the way (`BestPath`): `last_commit`
gives up score by design. `StepIsDepth` counts exactly, except above a commit whose cycle row is missing
although it is of a later loop than the first (`Counts`): there a step may be too small, never too large.
`OnePlacePerCommit` needs the registry to score the recorded origins and no group to start at a branch
whose place nobody knows (`StartsScored`; `anchors.py:139` and `resolve.py:280` below are the
exceptions), and speaks of commits with a cycle row. So does `TopCommitsAreStarred`, of a group's own
top commit while its row is kept, and of one that a collapse adopted even if its loop ran again.
`FoldInsAreDrawn` needs a plan and top commits of one invocation, and counts the arrows exactly, the one
included that is lost above the baseline; the chain reaches such a merge.
`OnlyOrphansMoveAnchors` does not claim that anchors are at rest: an orphan does run beside a group that
starts from it, in the run as in the code; it claims that nothing else does.
`ReturnMeansBaseline` allows the incomplete row that an invocation found at the start, and no other.
`CleanResultsStayOnBranch` and `KeepsLedger` run in one bootstrap and checkout only; their proofs hold
for all.

Fairness. `GroupLoop`: `WF_vars(pc # "down" /\ Controller)` only, that a running process keeps
executing. Nothing is assumed of GitHub or of a next invocation: every wait in the code has a deadline
or an attempt count, and `InvocationEnds` rests on those. `LoopsAll`: weak fairness of the driver and
of each child, a process of its own; a child that keeps executing ends because `InvocationEnds` says
so. None is assumed of `StartAll` or `Crash`. `Evaluation`: weak fairness of the reader alone, whose
waits have deadlines; none of the adapter, the node or the workflow. `Baseline` states no liveness: its
waits are those of `GroupLoop`, which `InvocationEnds` covers.

## Findings

* `committer`: an agent that commits and then ends with status `error` bypasses the head guard; the
  retry adopts the moved HEAD and the agent's commit is pushed.
* `lineage_foldins`: the walk up the lineage ends at a collapse, which inherits from nothing, so a
  merge may fold in a commit its base already contains.
* `eval_mnist`: the node refuses a report of a blocked execution without diagnostics, and the MNIST
  adapter never writes any; `write_parse_failure_artifacts` has no caller. So when tests or training
  fail nothing is uploaded, the cycle gets no row, and the next agent is told `infra_failure`.
* `agent_retry`: one `try` covers everything from the launch of the bridge to its close, so an error of
  `wait()` after the agent has edited sends the prompt again on those edits, or reports an agent that
  failed to start. That the SDK raises there is the model's assumption about it; `cursor_client.py:8`
  shares it.

Disagreements seen while modelling that have no run:

* `store.py:566`: "the run we just finished is the highest accepted loop" fails after a resume, which
  counts loops from 1 again: the highest may be an orphan of the invocation before (`LoopOrdersBranch`
  speaks of the commits on the branch only);
* `docs/lineage.md:9`: a driver that is killed in a parallel wave leaves children which the resumed
  driver neither waits for nor stops, so a group may run beside the parent it starts from
  (`OnlyOrphansMoveAnchors` says that this is the only way);
* `loop_controller.py:316`: "so the retry runs on a clean slate" fails when git refuses the discard,
  whose error is suppressed: the retry commits what the failed attempt left (`CommitHoldsOwnEdits`
  assumes that discards succeed; `checkout` runs where they may not, and does not check it);
* `github/ingest.py:67`: a run whose cycle row was never written is a clean commit without a loop. It is
  not counted (`store.py:600`), yet anchors take it for a first loop (`anchors.py:187`) where
  `anchors.py:16` has a step count "accepted agent loops since the original (L0) baseline", the chart
  draws it at 0 (`dashboard/trajectory.py:24`), and a collapse that adopts it may show it with another
  commit's value;
* `runtime/quality.py:12`, `.hiagentresearch/eval/score.py:129`: two programs judge the targets, on other
  targets and other roundings, so a loop may be told below although the scorer passed it; it is never
  told met if either found a miss (`VerdictIsEvaluations`);
* `loop_controller.py:837`: a launch that fails in a parallel wave stamps the session complete, and
  removes worktrees, while the groups launched before it run;
* `baseline.py:95`: the last check only asks whether there is a snapshot, so an older one that lacks
  a new target passes (`ReturnMeansBaseline` allows for that row alone, the one found at the start);
* `store.py:259`: two processes that both passed the re-read may leave a row older than the session that
  the other stamped, and reads scoped to the session then miss the baseline;
* `store.py:264`: replacing an older baseline row leaves its metrics that are no longer configured;
* `anchors.py:139`: a clean run without the anchor metric can be a `last_commit` anchor; the groups that
  start there find no metric for their origin and count their steps from the baseline;
* `resolve.py:280`: an heir by `last_commit` of a parent without a clean commit of its own, such as a
  select collapse, starts at the parent's branch and records no step; anchors count from 0 there, the
  dashboard from the loop in which the parent made the commit, if it did (`build.py:1300`), so it may
  show that commit in two places. `StartsScored` excludes such studies, and no run has one;
* `dashboard/build.py:473`: after a resume that ran a loop again only the newest row of the loop is
  kept, so the base of a collapse may show one commit with another's value, and a group whose own top
  commit is an older one loses its star. The run reaches this (`a1` has a second loop); the properties
  speak of commits whose row is kept;
* `dashboard/build.py:940`: a group whose cycles all failed has no top commit, but lends a merge the
  commit it started from; the arrow is then drawn from the group that made that commit, which need not
  be a source of the merge (`FoldInsAreDrawn` fails for such a study; the chain keeps clear of it);
* `dashboard/build.py:973`: "parts[0] is the base; the rest are fold-ins" does not hold of a merge based
  on the baseline, which has no group and is filtered out before: the first fold-in gets no arrow;
* `dashboard/build.py:947`: the comment on a merge's sources fails once a source's top commit has moved;
* `store.py:902`: a select collapse's cycle has no run row, so where it
  branched off is resolved anew after a resume instead of read back;
* `dashboard/build.py:1269`: "merges are NOT added here" does not hold of desugared merges, whose
  lineage mode is `inherit`;
* `agent_backends.py:168`: `stream_error` of an attempt that was retried stays in the record of a later
  attempt that had none;
* `promote.py:84`: nothing keeps a promotion and a sequential `loops-all` out of each other's checkout;
* `git/service.py:110`: of a staged rename `changed_files` names the new file only;
* `service.py:44`, `worktree.py:42`: a worktree left by a killed parallel driver makes every sequential
  resume of its group fail (`Refused`);
* `docs/github-strategy.md:7`: the workflow answers pushes to `research/**`, while desugared branches
  start with `hiagentresearch/` (`config.py:128`) unless `branch_prefix` is set;
* `prompts.py:44`: points the agent to `diagnostics.json`, which the workflow does not upload;
* `artifact_schema.py:65`: "every expected metric is present" counts metrics that are null;
* `config.py:124`: promotion picks among all groups but the final merge, not "across configured
  groups"; groups may have different anchor metrics, whose values are then compared;
* `promote.py:85`: files that the winner deleted stay on the target (`git checkout` adds and replaces);
* `promote.py:91`: the index is committed as it is, with what was staged outside workdir;
* `promote.py:94`: with `--commit` the message gives the metric of the commit it overrides;
* `loop_controller.py:390`: the comment on rebuilt branches does not hold of a baseline group, whose
  branch is kept on a resume (`baseline` relies on that);
* `store.py:626`: a committed cycle whose bundle never came is not counted as used budget;
* `store.py:184`: a session resumed after its stamp keeps `completed_at` and reads as complete;
* `store.py:600`: a group that stopped early on met targets is not complete by count, and runs again;
* `resolve.py:149`: a select collapse of an engineering area (`last_commit`) has no run of its own,
  yields no anchor, and is dropped from a merge silently;
* `loop_controller.py:831`: the sequential driver returns at the first group that is not ok, although
  the comment at line 905 says that a failed leaf is tolerated;
* `config.py:281`: `draw_from` of an area is dropped once any area fans out;
* `config.py:487`: a group named in two hand-written waves is accepted, only its last wave compared;
* `config.py:326`: nothing checks that derived branches are distinct;
* `config.py:131`: `max_parallel_groups` limits nothing;
* `loop_controller.py:430`: after an incomplete bundle `last_feedback_ref` still names the artifacts of
  an earlier cycle.

## Proofs

About `GroupLoop`, for all constants that satisfy `BoundsAssumption`, `FlagsAssumption`,
`FilesAssumption` and `OutcomesAssumption` (positive budgets, kinds of files disjoint):

* `TypeCorrect`: `Spec => []TypeOK`. `Progress` strengthens it: where the controller stands bounds
  the counters, and at `feedback` a verdict is known.
* `RunsKeepLedger`: `Spec => KeepsLedger`. The invariant `LedgerInv` says that a cycle at or past its
  validation is recorded as finished, that only finished cycles are on the branch or the remote, and
  that only the remote's are evaluated or recorded. Each step then maps to one ledger step
  (`Blocked`, `ValidateCycle`, `Push`, `WorkflowEnds`, `IngestRun`) or a stutter.
* `InheritRebuilds`, `InheritOrdersLoops` (assuming `Inherit`): a branch whose head is an anchor holds
  no commit, every commit above it is younger than the invocation, and each carries a lower loop than
  the one running.
* `BaselineKeepsResults` (assuming `~Inherit`): what was published stays on the branch.
* `WorktreeCommitsOwnEdits` (assuming `Linked` and `~DiscardCanFail`): outside a cycle only byte code
  is dirty, so the name-set difference of the boundary misses nothing. Both assumptions are needed.
* `FeedbackArrives`: the packet carries the loop just finished while the next one starts.
* `DeadEndsAreGenuine`: every clean cycle the controller remembers has a counted row.

About `LoopsAll`, for all studies, budgets and numbers of resumes that satisfy `StudyAssumption`,
`OptionsAssumption` and `WavesAreOrdered` (what `_validate_orchestration_order` enforces):

* `TypeCorrect`: `Spec => []TypeOK`.
* `NoWaveOnDeadEnd`: `Spec => []ResultsBeforeNextWave`, and `AnchorsMovedByOrphans`:
  `Spec => []OnlyOrphansMoveAnchors`. The invariant `Inv` adds two facts to the first and to types.
  `WaveInv`: the queue and this invocation's children belong to the current wave, and each of its
  groups has a result, is queued or has such a child. `ChildInv`: a child that exited well has a
  result, and all runs that one invocation started, those that outlived it included, are of one wave
  (`Together`). So when every child has exited and no failed group blocks, nothing in the wave lacks a
  result; and since sources are in earlier waves, a run and its source are of two invocations.

About `Promotion`, for all files, commits, groups and bounds that satisfy `PromotionAssumption` (files
under workdir and elsewhere disjoint, every group in the order, `None` nobody's value):

* `TypeCorrect`: `Spec => []TypeOK`. `ChoiceMade` strengthens it: a promotion past its choice has one.
* `PromotedAreChosen`: `Spec => []PromotedIsChosen`. A commit takes the whole index, so the invariant
  must say what is in it all along: `WorkdirKnown` has workdir as HEAD has it from the guard to the
  overlay, and with the chosen commit laid over HEAD's from then to the commit. The checkout in
  between keeps it, because git carries along only what is changed, and workdir is not. A commit on
  top of a branch leaves the ones below (`ChosenOnTop`).
* `EditsAreKept`: `Spec => EditsSurvive`. Git carries edits through the checkout, and by `WorkdirKnown`
  the overlay meets none.
* `NothingLost`: `Spec => NothingIsLost`. Commits are appended, and a push or a fetch moves a branch
  only to one it is a prefix of.

* `ChoiceStrongest`: `Spec => []ChoiceIsStrongest`. Between the two reads of the registry the anchor of
  the chosen group is only ever replaced by a better one (`StillStrongest`), and better is transitive.

About `Baseline`, for any processes, commits, metrics and attempts that satisfy `BaselineAssumption`:

* `TypeCorrect`: `Spec => []TypeOK`.
* `CommitCorrect`: `Spec => []BaselineIsOfItsCommit`. `Origin` follows a value: what a run measured is of
  its head, the run a process found has the head the process resolved, and what the process carries to
  the registry is of the commit it will name.
* `Frozen`: `Spec => FrozenOnceComplete`, and `SessionCorrect`: `Spec => []BaselineInSession`. `Writers`:
  until two processes race, the one between re-read and write found no complete baseline, and the time
  it gives the row is the session's, so a kill between the two leaves nothing that is filtered out.
* `ReturnCorrect`: `Spec => []ReturnMeansBaseline`.

About `Evaluation`, for every adapter, reliable or not, under `EvaluationAssumption`:

* `TypeCorrect`: `Spec => []TypeOK`; `VerdictCorrect`: `Spec => []VerdictIsEvaluations`. The invariant
  carries one fact from program to program: whether all commands ran well (`CommandsInOrder`) is what
  the report's exit code, flags and class say (`ReportIsExecution`), then what the bundle says, whose
  writing ends all change (`BundleIsExecution`), then what the registry says. A second fact goes beside
  it: that both judges found the targets met (`BothMet`), of whom one writes the report and the other
  reads it.

About `ConfigDesugar`, for all names, roles, wave lists and numbers of approaches:

* `TypeCorrect`: `Spec => []TypeOK`. The invariant is `Loading`: past its desugar a configuration whose
  areas fan out has exactly the derived groups and waves (`Derived`), any other those it named; the
  theorems below are about these, whatever the order in which the code has built them.
* `FannedOutRunsOnce`: `Spec => []RunsOnce`. Ids of different areas, roles and indices differ
  (`UniqueIds`), and the wave at each position is read off the loop that builds it (`DerivedPlaces`).
* `SoundAreasAreLoaded`: `Spec => []SoundAreasLoad`. Every source of a derived group is in an earlier
  wave than the group (`Rank`), which is what the last validator asks for (`SoundIsValid`).
* `EdgesStartAtResults`: `Spec => []EdgesJoinResults`; `StudyEndsInOne`: `Spec => []NothingIsLeftOut`,
  where the groups that the last one builds on are a set closed under `SourcesOf`, and such a set that
  holds the results of all last areas holds everything (`ClosedIsAll`).
* `LoadedRunsInOrder`: `Spec => []RunsInOrder`. The last validator leaves only what `ValidOrder` accepts
  (`ValidatedInvariant`), and a group that is named once is at the only position the code could have
  recorded for it (`PositionOfNamed`). This discharges the assumption `WavesAreOrdered` of `LoopsAll`
  for every configuration that loads with each group in one wave.

`Ancestry` and the loop that lays out the waves are recursive functions. What they satisfy step by step
comes from a least counterexample on a set of naturals (`Induction`, `Recursion`), not from the
library's induction theorems, whose operator parameter the provers cannot fill.

About `Lineage`, for every study, budget, score and number of resumes that satisfy `StudyAssumption`,
`MergeAssumption`, `ScoreAssumption` and `NothingAssumption` (finitely many groups, parents and sources
in an earlier wave as `config.py:494-515` has it, scores are naturals, `Base` and `None` nobody's value):

* `TypeCorrect`: `Spec => []TypeOK`. `Inv` strengthens it group by group: what a branch, a start, a
  plan or an anchor refers to exists (`BranchKept`), and a start is the baseline, a clean commit of
  its owner, or, for a last commit of a parent without a clean one, where the parent's branch starts
  (`StartKept`). `Grows` says what no step undoes: commits are only added, and keep their rows.
* `PlansAreDistinct`: `Spec => []PlanIsDistinct`, assuming `AreasAreJoined`: a group that others inherit
  from stands for the whole of its area. It is a condition on the study, which the chain's meets;
  `EdgesJoinResults` has no edge of a configuration with approaches start at a leaf of an area with a node.
* `StepsCountCommits`: `Spec => []StepIsDepth`. A loop is as many commits above its group's start as its
  number says, with only the group's own commits between (`Lines`), so a step that an anchor inherits
  stays the depth of what it names (`Depths`). Where a cycle row is missing the loop is taken for the
  first: the step is then short by what that loses (`Counts`), and exact again for whatever does not
  descend from it (`Placed`).
* `BestIsKept`: `Spec => []BestOfHistory`. On a path of best anchors nothing in the history of a
  branch's start beats what it starts from (`PathsTop`), and a best anchor is an extreme element of a
  finite set that holds the group's own commits (`Extremum`). `SteadyBefore` lets both use the state
  before: a path that no resume has disturbed was undisturbed earlier.

About `Dashboard`, which reads the states of `Lineage`, under the same assumptions and `NothingShown`:

* `OnePlace`: `Spec => []OnePlacePerCommit`, with no assumption on the study. Each commit has one
  `Place`, computed from its own row and what its group recorded; points, top commits and branch points
  are shown to be there one by one, since what a cycle has recorded is a place too (`PlacedInvariant`)
  and no step moves it. A start is the baseline or has an owner whose row gives the place
  (`StartOwned`); this is where the proof needs `StartsScored`, and the study of `resolve.py:280` above
  fails without it.
* `TopCommitsStarred`: `Spec => []TopCommitsAreStarred`. The points a group draws itself hold its kept
  rows; those of a collapse hold what it borrows, and the place decides that the starred one is among
  them.
* `FoldInsDrawnOnce`, `ArrowsAreRight`: `FoldInsDrawn(g)` holds, until a resume, of every merge none of
  whose sources is bare (`SourcesShow`). A source is bare when it has recorded a cycle but shows no top
  commit; then the plan folds in where it started and the dashboard has nothing to find it by
  (`build.py:940` above). The hypothesis is about the state, and the run has states on both sides of
  it. The invariant `FirstPlans` says that a merge that has started would be planned now as it was: its
  sources ran in earlier waves, so no step of another group changes their anchors (`AnchorStays`). Fold-ins
  are then found among the sources by their commits, each commit by one source, and none is the base's. The
  count is exact: as many arrows as fold-ins, one less when the merge is based on the baseline, whose
  missing group lets `build.py:973` drop the first fold-in in its place.

* `OverviewIsRight`: `OverviewFollowsAreas` holds while every collapse is `BasedOnLeaf`, assuming
  `FannedOut`. `FannedOut` is a condition on the study: an area is one leaf, or leaves of one parent and
  their collapse, and who inherits does so from what stands for an area. Desugaring makes areas so
  unless one is itself a merge or names a parent without inheriting from it; the chain's are. `BasedOnLeaf` is
  about the state: the collapse selects anew for each build or no resume has moved its sources' anchors,
  and its base's source shows something. It holds in every state of the chain's run, so the theorem
  covers all of that run. A result that has recorded a cycle has only recorded ones above it, which keep
  their clean commits (`Ready`). `Primary` and `Ancestors` repeat a step as often as there are groups;
  that this reaches everything above, and nothing else, is a counting argument on the waves
  (`PrimaryFacts`, `AncestorFacts`), and what links the two is that one hop of the connectors is a hop
  from an area to its parent, or to a leaf of the same area (`LeafHop`, `CollapseHop`).

Model-checked only:

* `InvocationEnds`, `LoopsAllReturns`, `ReaderDecides`: liveness under fairness, which the prover does
  not do;
* `FoldInsAreDrawn` where a source is bare: it holds of the chain there, and fails of other studies;
* the findings' runs.

## Not modelled

* Prompts, the command line, logs and the files written for people: text made from state.
* `mnist` but for how its evaluation ends: it is the experiment, not the system.
* Of the dashboard, what is listed under `Dashboard`; of the registry, winners, artifacts, transitions
  and the session filter (one study, one session); of GitHub, listing limits and the repository slug.
* Renames and deletions by the agent or the operator; an agent that stages without committing.
* A promotion in the checkout of a running sequential study: nothing in the code or its documents says
  what should hold of the two together.
* Two `loops-all` drivers alive at once: children that outlive a killed driver are in `LoopsAll`, a
  second living driver is not; no lock forbids it and no text allows it.

What could come next: `AgentBackend` composed with the `AgentStep` of `GroupLoop`; renames in
`GroupLoop`; what `OverviewIsRight` and `PlansAreDistinct` assume of a study as theorems about what
`ConfigDesugar` makes; connectors of areas that merge others.
