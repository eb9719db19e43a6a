------------------------------ MODULE Baseline ------------------------------
(******************************************************************************)
(* The frozen L0 baseline: one evaluation of the baseline ref, recorded       *)
(* once, that every first-level group is compared with.  loops-all and the    *)
(* dashboard build both call ensure_baseline_snapshot, each a process of      *)
(* its own over the same registry; an ingest may bring the snapshot a         *)
(* cycle's manifest carries.  Nothing locks check, evaluation and record      *)
(* together.                                                                  *)
(*                                                                            *)
(* External: the git ref and its copy on the remote, and GitHub Actions:      *)
(* a dispatch evaluates the remote's head and cancels the run in progress     *)
(* on the ref, a run becomes visible to "gh run list" some time after.        *)
(*                                                                            *)
(* A metric's value is abstracted to the commit it was measured on, the       *)
(* time to the number of stamps written so far.                               *)
(******************************************************************************)
EXTENDS Integers, Sequences, FiniteSets

CONSTANTS
    Caller,     \* invocations of ensure_baseline_snapshot
    Ingest,     \* ingests of a manifest with a baseline snapshot
    Commit,     \* commits the baseline ref may be at
    Metric,     \* metric names
    Required,   \* the configured targets
    Attempts,   \* run_lookup_attempts
    MaxRuns,    \* bound: workflow runs dispatched
    MaxMoves,   \* bound: moves of the ref, here or on the remote
    None        \* no commit, no run

ASSUME BaselineAssumption ==
    /\ Caller \cap Ingest = {}
    /\ Required \subseteq Metric
    /\ Attempts \in Nat \ {0}
    /\ MaxRuns \in Nat
    /\ MaxMoves \in Nat
    /\ None \notin Commit
    /\ None \notin Nat

Proc == Caller \cup Ingest

VARIABLES
    ref,        \* what the baseline ref resolves to: [local, remote -> Commit]
    moves,      \* how often it has moved
    runs,       \* the workflow runs of the ref, oldest first
    row,        \* the run row baseline:<ref>: its commit and created_at
    metrics,    \* its metric rows: the commit each value was measured on
    session,    \* started_at of the orchestration session
    clock,      \* the last time stamp written
    pc,         \* where each process is
    job,        \* the locals of each process
    raced       \* history: two processes were between re-read and write

remote == <<ref, moves, runs>>
registry == <<row, metrics, session, clock>>
vars == <<remote, registry, pc, job, raced>>

Measured == [Metric -> Commit \cup {None}]
Nothing == [n \in Metric |-> None]

HasRequired(values) == \A n \in Required : values[n] # None
NoRow == [commit |-> None, created |-> 0]
HasBaseline == row # NoRow
BaselineComplete == HasBaseline /\ HasRequired(metrics)

NoJob == [head |-> None, known |-> {}, tries |-> 0, run |-> None,
          commit |-> None, values |-> Nothing, started |-> 0]

-----------------------------------------------------------------------------
(* A registry that is new, that holds a baseline, or whose baseline was       *)
(* recorded under a configuration with other targets.                         *)
Init ==
    /\ ref \in [{"local", "remote"} -> Commit]
    /\ moves = 0
    /\ runs = << >>
    /\ \/ row = NoRow /\ metrics = Nothing
       \/ \E c \in Commit : \E names \in SUBSET Metric :
            /\ row = [commit |-> c, created |-> 1]
            /\ metrics = [n \in Metric |-> IF n \in names THEN c ELSE None]
    /\ session = row.created
    /\ clock = 1
    /\ pc = [p \in Proc |-> "idle"]
    /\ job = [p \in Proc |-> NoJob]
    /\ raced = FALSE

-----------------------------------------------------------------------------
(* External: the ref and the workflow runs.                                   *)

Move(side, c) ==
    /\ moves < MaxMoves
    /\ ref[side] # c
    /\ ref' = [ref EXCEPT ![side] = c]
    /\ moves' = moves + 1
    /\ UNCHANGED <<runs, registry, pc, job, raced>>

Cancelled(queue) ==
    [i \in DOMAIN queue |->
        IF queue[i].state = "running" THEN [queue[i] EXCEPT !.state = "cancelled"]
                                      ELSE queue[i]]

NewRun == [head |-> ref["remote"], state |-> "running", seen |-> FALSE,
           values |-> Nothing]

Queued(queue) == Append(Cancelled(queue), NewRun)

Appear(i) ==
    /\ ~runs[i].seen
    /\ runs' = [runs EXCEPT ![i].seen = TRUE]
    /\ UNCHANGED <<ref, moves, registry, pc, job, raced>>

(* The job fails, or uploads a bundle: a failure class, or the metrics its    *)
(* evaluation measured.                                                       *)
Finish(i) ==
    /\ runs[i].state = "running"
    /\ \/ \E state \in {"failed", "unclean"} :
            runs' = [runs EXCEPT ![i].state = state]
       \/ \E names \in SUBSET Metric :
            runs' = [runs EXCEPT
                       ![i].state = "clean",
                       ![i].values = [n \in Metric |->
                          IF n \in names THEN runs[i].head ELSE None]]
    /\ UNCHANGED <<ref, moves, registry, pc, job, raced>>

-----------------------------------------------------------------------------
Ended == {"returned", "raised"}

Goto(p, label) == pc' = [pc EXCEPT ![p] = label]

(* The locals of a process that ends are gone; those no later step reads      *)
(* are dropped as well.                                                       *)
Keep(p, label) ==
    job' = IF label \in Ended THEN [job EXCEPT ![p] = NoJob] ELSE job

Goes(p, label) == Goto(p, label) /\ Keep(p, label)

Check(p) ==
    /\ pc[p] = "idle"
    /\ Goes(p, IF BaselineComplete THEN "returned" ELSE "list")
    /\ UNCHANGED <<remote, registry, raced>>

(* resolve_ref, then the runs of the workflow that are not ours.              *)
ListKnown(p) ==
    /\ pc[p] = "list"
    /\ job' = [job EXCEPT
                 ![p].head = ref["local"],
                 ![p].known = {i \in DOMAIN runs : runs[i].seen}]
    /\ Goto(p, "dispatch")
    /\ UNCHANGED <<remote, registry, raced>>

(* A dispatch whose answer was lost counts as transient and is sent again,    *)
(* another error is raised.                                                   *)
DispatchWorkflow(p) ==
    /\ pc[p] = "dispatch"
    /\ \/ /\ \/ runs' = Queued(runs)
             \/ runs' = Queued(Queued(runs))
          /\ Len(runs') <= MaxRuns
          /\ Goes(p, "find")
       \/ runs' = runs /\ Goes(p, "raised")
    /\ UNCHANGED <<ref, moves, registry, raced>>

AnyNewRun(p) ==                 \* variant: whatever commit it evaluates
    {i \in DOMAIN runs \ job[p].known : runs[i].seen}

Candidates(p) ==
    {i \in DOMAIN runs \ job[p].known : runs[i].seen /\ runs[i].head = job[p].head}

Newest(run, candidates) == \A other \in candidates : other <= run

FindRun(p) ==
    /\ pc[p] = "find"
    /\ \E i \in Candidates(p) :
         /\ Newest(i, Candidates(p))
         /\ job' = [job EXCEPT ![p] = [NoJob EXCEPT !.head = job[p].head, !.run = i]]
    /\ Goto(p, "watch")
    /\ UNCHANGED <<remote, registry, raced>>

(* Variant: the lookup never gives up.                                        *)
LookForever(p) ==
    /\ pc[p] = "find"
    /\ Candidates(p) = {}
    /\ job' = [job EXCEPT ![p].tries = @ + 1]
    /\ UNCHANGED <<remote, registry, pc, raced>>

LookAgain(p) ==
    /\ pc[p] = "find"
    /\ Candidates(p) = {}
    /\ IF job[p].tries + 1 < Attempts
         THEN pc' = pc /\ job' = [job EXCEPT ![p].tries = @ + 1]
         ELSE Goes(p, "raised")
    /\ UNCHANGED <<remote, registry, raced>>

WatchRun(p) ==
    /\ pc[p] = "watch"
    /\ runs[job[p].run].state # "running"
    /\ Goes(p, IF runs[job[p].run].state \in {"clean", "unclean"}
                 THEN "download" ELSE "raised")
    /\ UNCHANGED <<remote, registry, raced>>

WatchTimeout(p) ==
    /\ pc[p] = "watch"
    /\ runs[job[p].run].state = "running"
    /\ Goes(p, "raised")
    /\ UNCHANGED <<remote, registry, raced>>

Download(p) ==
    /\ pc[p] = "download"
    /\ LET run == runs[job[p].run] IN
         IF run.state = "clean"
           THEN /\ job' = [job EXCEPT ![p] = [NoJob EXCEPT
                                !.commit = job[p].head, !.values = run.values]]
                /\ Goto(p, "reread")
           ELSE Goes(p, "raised")
    /\ UNCHANGED <<remote, registry, raced>>

(* An ingested manifest carries a snapshot read from some registry when       *)
(* its cycle was built; this registry is read once more before it is used.    *)
IngestManifest(p) ==
    /\ pc[p] = "idle"
    /\ \E c \in Commit : \E names \in SUBSET Metric :
         LET values == [n \in Metric |-> IF n \in names THEN c ELSE None] IN
         IF HasRequired(values) /\ ~BaselineComplete
           THEN /\ job' = [job EXCEPT ![p] =
                             [NoJob EXCEPT !.commit = c, !.values = values]]
                /\ Goto(p, "reread")
           ELSE Goes(p, "returned")
    /\ UNCHANGED <<remote, registry, raced>>

-----------------------------------------------------------------------------
(* record_baseline_snapshot_from_metrics and record_baseline_snapshot: the    *)
(* re-read, the session and the row are three transactions.                   *)

Recording(p) == pc[p] \in {"stamp", "write"}

WithoutReread(p) == HasRequired(job[p].values)          \* variant

Unrecorded(p) == HasRequired(job[p].values) /\ ~BaselineComplete

After(p) == IF p \in Caller THEN "confirm" ELSE "returned"

Reread(p) ==
    /\ pc[p] = "reread"
    /\ Goes(p, IF Unrecorded(p) THEN "stamp" ELSE After(p))
    /\ raced' = (raced \/ (Unrecorded(p) /\ \E q \in Proc : Recording(q)))
    /\ UNCHANGED <<remote, registry>>

StampSession(p) ==
    /\ pc[p] = "stamp"
    /\ clock' = clock + 1
    /\ session' = clock'
    /\ job' = [job EXCEPT ![p].started = clock']
    /\ Goto(p, "write")
    /\ UNCHANGED <<remote, row, metrics, raced>>

(* Variant: the session starts after the row.                                 *)
StampAfterRow(p) ==
    /\ pc[p] = "write"
    /\ row' = [commit |-> job[p].commit, created |-> job[p].started]
    /\ metrics' = job[p].values
    /\ clock' = clock + 1
    /\ session' = clock'
    /\ Goes(p, After(p))
    /\ UNCHANGED <<remote, raced>>

(* The row is replaced; of the metrics, those measured this time.             *)
WriteRow(p) ==
    /\ pc[p] = "write"
    /\ row' = [commit |-> job[p].commit, created |-> job[p].started]
    /\ metrics' = [n \in Metric |->
                     IF job[p].values[n] # None THEN job[p].values[n] ELSE metrics[n]]
    /\ Goes(p, After(p))
    /\ UNCHANGED <<remote, session, clock, raced>>

(* Variant: what the evaluation left in the registry is not looked at.        *)
Trusting(p) ==
    /\ pc[p] = "confirm"
    /\ Goes(p, "returned")
    /\ UNCHANGED <<remote, registry, raced>>

Confirm(p) ==
    /\ pc[p] = "confirm"
    /\ Goes(p, IF HasBaseline THEN "returned" ELSE "raised")
    /\ UNCHANGED <<remote, registry, raced>>

(* A kill, or an error of git, gh or sqlite, between any two steps.           *)
Abort(p) ==
    /\ pc[p] \notin Ended \cup {"idle"}
    /\ Goes(p, "raised")
    /\ UNCHANGED <<remote, registry, raced>>

-----------------------------------------------------------------------------
Record(p) == Reread(p) \/ StampSession(p) \/ WriteRow(p)

Evaluate(p) ==
    \/ ListKnown(p)
    \/ DispatchWorkflow(p)
    \/ FindRun(p)
    \/ LookAgain(p)
    \/ WatchRun(p)
    \/ WatchTimeout(p)
    \/ Download(p)

Step(p) ==
    \/ p \in Caller /\ Check(p)
    \/ p \in Ingest /\ IngestManifest(p)
    \/ Evaluate(p)
    \/ Record(p)
    \/ Confirm(p)

World ==
    \/ \E side \in {"local", "remote"}, c \in Commit : Move(side, c)
    \/ \E i \in DOMAIN runs : Appear(i) \/ Finish(i)

Next == World \/ \E p \in Proc : Step(p) \/ Abort(p)

Spec == Init /\ [][Next]_vars

-----------------------------------------------------------------------------
Label == {"idle", "list", "dispatch", "find", "watch", "download", "reread",
          "stamp", "write", "confirm", "returned", "raised"}

Run == [head : Commit, seen : BOOLEAN, values : Measured,
        state : {"running", "clean", "unclean", "failed", "cancelled"}]

Job == [head : Commit \cup {None}, known : SUBSET Nat, tries : 0 .. Attempts,
        run : Nat \cup {None}, commit : Commit \cup {None}, values : Measured,
        started : Nat]

(* Types: every variable stays in its set and a process that watches has      *)
(* found a run (baseline.py, actions.py, store.py).                           *)
TypeOK ==
    /\ ref \in [{"local", "remote"} -> Commit]
    /\ moves \in 0 .. MaxMoves
    /\ runs \in Seq(Run)
    /\ row \in [commit : Commit \cup {None}, created : Nat]
    /\ metrics \in Measured
    /\ session \in Nat
    /\ clock \in Nat
    /\ pc \in [Proc -> Label]
    /\ job \in [Proc -> Job]
    /\ raced \in BOOLEAN
    /\ \A p \in Proc : pc[p] \in {"watch", "download"} => job[p].run \in DOMAIN runs

(* The recorded baseline of every configured metric was measured on the       *)
(* commit the row names, although the local ref, its remote copy, the runs    *)
(* of rival invocations and an older row's metrics all may differ             *)
(* (baseline.py:55-94, store.py:262-273).                                     *)
BaselineIsOfItsCommit ==
    \A n \in Required : metrics[n] \in {row.commit, None}

(* ensure_baseline_snapshot returns only over a baseline with every           *)
(* configured metric, or over a row of other targets it found and could       *)
(* not replace (baseline.py:95).                                              *)
ReturnMeansBaseline ==
    \A p \in Caller : pc[p] = "returned" =>
        BaselineComplete \/ (HasBaseline /\ row.created = 1)

(* The baseline is frozen: once complete, no other invocation or ingest       *)
(* changes it or moves the session's start, unless two processes got from     *)
(* the re-read to the write at once (ingest.py:179, store.py:252).            *)
FrozenOnceComplete ==
    [][BaselineComplete /\ ~raced => UNCHANGED <<row, metrics, session>>]_vars

(* The row lands on or after the session's cutoff and is never filtered       *)
(* out of session-scoped reads, as store.py:259 promises, as long as no       *)
(* two processes recorded at once.                                            *)
BaselineInSession ==
    BaselineComplete /\ ~raced => row.created >= session

=============================================================================
