--------------------------- MODULE BaselineProofs ---------------------------
(******************************************************************************)
(* Type correctness of Baseline, and its four promises, for any number of     *)
(* invocations, ingests, commits and metrics.                                 *)
(*                                                                            *)
(* Origin follows a value from the run that measured it to the metric row:    *)
(* a run's values are of its head, the run a process watches has the head     *)
(* it resolved, and what it carries is of the commit it will name.            *)
(*                                                                            *)
(* Writers counts the processes between re-read and write: as long as two     *)
(* never were, the one there is found no complete baseline, and the time      *)
(* it will give the row is the session's.                                     *)
(******************************************************************************)
EXTENDS Baseline, SequenceTheorems, TLAPS

(* A run queue of which only entries changed is a run queue.                  *)
LEMMA SameLength ==
    ASSUME NEW queue \in Seq(Run), NEW other,
           other = [i \in DOMAIN queue |-> other[i]],
           \A i \in DOMAIN queue : other[i] \in Run
    PROVE  other \in Seq(Run) /\ DOMAIN other = DOMAIN queue
<1>1. DOMAIN queue = 1 .. Len(queue) /\ Len(queue) \in Nat
  BY LenProperties
<1>2. other \in [1 .. Len(queue) -> Run]
  BY <1>1
<1> QED
  BY <1>1, <1>2, SeqDef

(* A dispatch keeps the runs there were, with their heads and values, and     *)
(* adds one that has measured nothing (the concurrency group of the           *)
(* workflow, actions.py:78).                                                  *)
Extends(queue, other) ==
    /\ other \in Seq(Run)
    /\ DOMAIN queue \subseteq DOMAIN other
    /\ \A i \in DOMAIN queue :
         other[i].head = queue[i].head /\ other[i].values = queue[i].values
    /\ \A i \in DOMAIN other \ DOMAIN queue : other[i].values = Nothing

LEMMA DispatchExtends ==
    ASSUME NEW queue \in Seq(Run), ref \in [{"local", "remote"} -> Commit]
    PROVE  Extends(queue, Queued(queue))
<1> DEFINE kept == Cancelled(queue)
<1>1. /\ kept \in Seq(Run) /\ DOMAIN kept = DOMAIN queue
      /\ \A i \in DOMAIN queue :
           kept[i].head = queue[i].head /\ kept[i].values = queue[i].values
  <2>1. \A i \in DOMAIN queue : queue[i] \in Run
    BY ElementOfSeq, LenProperties
  <2>2. \A i \in DOMAIN queue :
          /\ kept[i] \in Run
          /\ kept[i].head = queue[i].head /\ kept[i].values = queue[i].values
    BY <2>1 DEF Run, Cancelled
  <2>3. kept = [i \in DOMAIN queue |-> kept[i]]
    BY DEF Cancelled
  <2> HIDE DEF kept
  <2> QED
    BY <2>2, <2>3, SameLength
<1>2. NewRun \in Run /\ NewRun.values = Nothing
  BY DEF NewRun, Run, Measured, Nothing
<1>3. Queued(queue) = Append(kept, NewRun)
  BY DEF Queued
<1> HIDE DEF kept
<1>4. /\ Append(kept, NewRun) \in Seq(Run)
      /\ Len(Append(kept, NewRun)) = Len(kept) + 1
      /\ \A i \in 1 .. Len(kept) : Append(kept, NewRun)[i] = kept[i]
      /\ Append(kept, NewRun)[Len(kept) + 1] = NewRun
  BY <1>1, <1>2, AppendProperties
<1>5. /\ DOMAIN kept = 1 .. Len(kept) /\ Len(kept) \in Nat
      /\ DOMAIN Append(kept, NewRun) = 1 .. Len(kept) + 1
  BY <1>1, <1>4, LenProperties
<1> QED
  BY <1>1, <1>2, <1>3, <1>4, <1>5 DEF Extends

LEMMA ExtendsTwice ==
    ASSUME NEW a, NEW b, NEW c, Extends(a, b), Extends(b, c)
    PROVE  Extends(a, c)
  BY DEF Extends

-----------------------------------------------------------------------------
Types ==
    /\ ref \in [{"local", "remote"} -> Commit]
    /\ moves \in 0 .. MaxMoves
    /\ runs \in Seq(Run)
    /\ row \in [commit : Commit \cup {None}, created : Nat]
    /\ metrics \in Measured
    /\ session \in Nat
    /\ clock \in Nat
    /\ pc \in [Proc -> Label]
    /\ job \in [Proc -> Job]
    /\ raced \in BOOLEAN

Watching == \A p \in Proc :
    pc[p] \in {"watch", "download"} =>
        job[p].run \in DOMAIN runs /\ runs[job[p].run].head = job[p].head

Of(values, commit) == \A n \in Metric : values[n] \in {commit, None}

Carries == \A p \in Proc :
    /\ pc[p] \in {"reread", "stamp", "write"} => Of(job[p].values, job[p].commit)
    /\ Recording(p) => HasRequired(job[p].values)

Origin ==
    /\ \A i \in DOMAIN runs : Of(runs[i].values, runs[i].head)
    /\ Watching
    /\ Carries
    /\ BaselineIsOfItsCommit

IInv == Types /\ Origin

-----------------------------------------------------------------------------
LEMMA NothingIsMeasured == Nothing \in Measured /\ \A c : Of(Nothing, c)
  BY DEF Nothing, Measured, Of

LEMMA NoJobIsJob == NoJob \in Job
  BY NothingIsMeasured, BaselineAssumption DEF NoJob, Job

LEMMA Initially == Init => IInv
<1> SUFFICES ASSUME Init PROVE IInv
  OBVIOUS
<1>1. row \in [commit : Commit \cup {None}, created : Nat] /\ metrics \in Measured
  <2>1. CASE row = NoRow /\ metrics = Nothing
    BY <2>1, NothingIsMeasured DEF NoRow
  <2>2. CASE ~(row = NoRow /\ metrics = Nothing)
    BY <2>2 DEF Init, Measured
  <2> QED
    BY <2>1, <2>2
<1>2. BaselineIsOfItsCommit
  <2>1. CASE row = NoRow /\ metrics = Nothing
    BY <2>1, BaselineAssumption DEF NoRow, Nothing, BaselineIsOfItsCommit
  <2>2. CASE ~(row = NoRow /\ metrics = Nothing)
    BY <2>2, BaselineAssumption DEF Init, BaselineIsOfItsCommit
  <2> QED
    BY <2>1, <2>2
<1>3. runs \in Seq(Run) /\ DOMAIN runs = {}
  BY DEF Init
<1>4. pc \in [Proc -> Label] /\ job \in [Proc -> Job] /\ \A p \in Proc : pc[p] = "idle"
  BY NoJobIsJob DEF Init, Label
<1>5. Types
  <2>1. /\ ref \in [{"local", "remote"} -> Commit] /\ moves = 0
        /\ session = row.created /\ clock = 1 /\ raced = FALSE
    BY DEF Init
  <2>2. session \in Nat /\ moves \in 0 .. MaxMoves
    BY <1>1, <2>1, BaselineAssumption
  <2> QED
    BY <1>1, <1>3, <1>4, <2>1, <2>2 DEF Types
<1>6. Watching /\ Carries
  BY <1>4 DEF Watching, Carries, Recording
<1> QED
  BY <1>2, <1>3, <1>5, <1>6 DEF IInv, Origin

(* What a process that stays or ends leaves of its locals.                    *)
LEMMA Leaving ==
    ASSUME Types, NEW p \in Proc, NEW label \in Label, Goes(p, label)
    PROVE  /\ pc' \in [Proc -> Label] /\ job' \in [Proc -> Job]
           /\ pc'[p] = label
           /\ label \notin Ended => job'[p] = job[p]
           /\ \A q \in Proc \ {p} : pc'[q] = pc[q] /\ job'[q] = job[q]
  BY NoJobIsJob DEF Types, Goes, Goto, Keep

LEMMA WorldStep == IInv /\ World => IInv'
<1> SUFFICES ASSUME IInv, World PROVE IInv'
  OBVIOUS
<1> USE DEF IInv
<1>1. CASE \E side \in {"local", "remote"}, c \in Commit : Move(side, c)
  <2>1. PICK side \in {"local", "remote"}, c \in Commit : Move(side, c)
    BY <1>1
  <2>2. Types'
    BY <2>1, BaselineAssumption DEF Move, Types, registry
  <2>3. Origin'
    BY <2>1 DEF Move, registry, Origin, Watching, Carries, Recording, Of, HasRequired,
       BaselineIsOfItsCommit
  <2> QED
    BY <2>2, <2>3
<1>2. CASE \E i \in DOMAIN runs : Appear(i) \/ Finish(i)
  <2>1. PICK i \in DOMAIN runs : Appear(i) \/ Finish(i)
    BY <1>2
  <2>2. /\ \A j \in DOMAIN runs : runs[j] \in Run
        /\ UNCHANGED <<ref, moves, row, metrics, session, clock, pc, job, raced>>
    <3>1. runs \in Seq(Run)
      BY DEF Types
    <3>2. \A j \in DOMAIN runs : runs[j] \in Run
      BY <3>1, ElementOfSeq, LenProperties
    <3> QED
      BY <2>1, <3>2 DEF Appear, Finish, registry
  <2>3. /\ runs' = [j \in DOMAIN runs |-> runs'[j]]
        /\ \A j \in DOMAIN runs :
             /\ runs'[j] \in Run
             /\ runs'[j].head = runs[j].head
             /\ Of(runs'[j].values, runs[j].head)
    <3>1. CASE Appear(i)
      BY <3>1, <2>2 DEF Appear, Run, Origin
    <3>2. CASE Finish(i)
      <4>1. CASE \E state \in {"failed", "unclean"} :
                   runs' = [runs EXCEPT ![i].state = state]
        <5>1. PICK state \in {"failed", "unclean"} :
                runs' = [runs EXCEPT ![i].state = state]
          BY <4>1
        <5> QED
          BY <5>1, <2>2 DEF Run, Origin
      <4>2. CASE ~(\E state \in {"failed", "unclean"} :
                   runs' = [runs EXCEPT ![i].state = state])
        <5>1. PICK names \in SUBSET Metric :
                runs' = [runs EXCEPT
                       ![i].state = "clean",
                       ![i].values = [n \in Metric |->
                          IF n \in names THEN runs[i].head ELSE None]]
          BY <3>2, <4>2 DEF Finish
        <5> DEFINE values == [n \in Metric |-> IF n \in names THEN runs[i].head ELSE None]
        <5>2. values \in Measured /\ Of(values, runs[i].head)
          BY <2>2 DEF Run, Measured, Of
        <5> HIDE DEF values
        <5> QED
          BY <5>1, <5>2, <2>2 DEF Run, Origin, values
      <4> QED
        BY <4>1, <4>2
    <3> QED
      BY <2>1, <3>1, <3>2
  <2>4. runs' \in Seq(Run) /\ DOMAIN runs' = DOMAIN runs
    BY <2>3, SameLength DEF Types
  <2>5. Types'
    BY <2>2, <2>4 DEF Types
  <2>6. Origin'
    BY <2>2, <2>3, <2>4 DEF Origin, Watching, Carries, Recording, Of, HasRequired,
       BaselineIsOfItsCommit
  <2> QED
    BY <2>5, <2>6
<1> QED
  BY <1>1, <1>2 DEF World

-----------------------------------------------------------------------------
(* The conjuncts of Watching and Carries that speak of one process.           *)
Own(p) ==
    /\ pc[p] \in {"watch", "download"} =>
         job[p].run \in DOMAIN runs /\ runs[job[p].run].head = job[p].head
    /\ pc[p] \in {"reread", "stamp", "write"} => Of(job[p].values, job[p].commit)
    /\ Recording(p) => HasRequired(job[p].values)

LEMMA OwnParts == Watching /\ Carries <=> \A p \in Proc : Own(p)
  BY DEF Watching, Carries, Own

(* The others keep their conjuncts when the queue only grows.                 *)
LEMMA Assemble ==
    ASSUME IInv, NEW p \in Proc, Types', Extends(runs, runs'),
           \A q \in Proc \ {p} : pc'[q] = pc[q] /\ job'[q] = job[q],
           Own(p)', BaselineIsOfItsCommit'
    PROVE  IInv'
<1>1. \A q \in Proc : Own(q)
  BY OwnParts DEF IInv, Origin
<1>2. \A q \in Proc \ {p} : Own(q)'
  BY <1>1 DEF Own, Extends, Recording
<1>3. \A q \in Proc : Own(q)'
  BY <1>2
<1>4. Watching' /\ Carries'
  BY <1>3 DEF Watching, Carries, Own
<1>5. \A i \in DOMAIN runs' : Of(runs'[i].values, runs'[i].head)
  BY NothingIsMeasured DEF IInv, Origin, Extends
<1> QED
  BY <1>4, <1>5 DEF IInv, Origin

LEMMA Unmoved ==
    ASSUME Types, UNCHANGED remote
    PROVE  /\ Extends(runs, runs')
           /\ ref' \in [{"local", "remote"} -> Commit]
           /\ moves' \in 0 .. MaxMoves /\ runs' \in Seq(Run)
  BY DEF Types, Extends, remote

LEMMA SameRegistry ==
    ASSUME IInv, UNCHANGED registry
    PROVE  /\ row' \in [commit : Commit \cup {None}, created : Nat]
           /\ metrics' \in Measured /\ session' \in Nat /\ clock' \in Nat
           /\ BaselineIsOfItsCommit'
  BY DEF IInv, Types, Origin, registry, BaselineIsOfItsCommit

(* Steps that only decide where to go next.                                   *)
LEMMA Deciding ==
    ASSUME IInv, NEW p \in Proc, NEW label \in Label, Goes(p, label),
           UNCHANGED remote, UNCHANGED registry, raced' \in BOOLEAN,
           label \in {"watch", "download"} => pc[p] = "watch",
           label \in {"reread", "stamp", "write"} => pc[p] = "reread",
           label \in {"stamp", "write"} => HasRequired(job[p].values)
    PROVE  IInv'
<1>1. Types
  BY DEF IInv
<1>2. /\ pc' \in [Proc -> Label] /\ job' \in [Proc -> Job] /\ pc'[p] = label
      /\ label \notin Ended => job'[p] = job[p]
      /\ \A q \in Proc \ {p} : pc'[q] = pc[q] /\ job'[q] = job[q]
  BY <1>1, Leaving
<1>3. Types'
  BY <1>1, <1>2, Unmoved, SameRegistry DEF Types
<1>4. Own(p)
  BY OwnParts DEF IInv, Origin
<1>5. Own(p)'
  BY <1>2, <1>4 DEF Own, Recording, remote, HasRequired, Of, Ended
<1> QED
  BY <1>1, <1>2, <1>3, <1>5, Unmoved, SameRegistry, Assemble

LEMMA Decisions ==
    ASSUME IInv, NEW p \in Proc,
           \/ Check(p) \/ WatchRun(p) \/ WatchTimeout(p)
           \/ Reread(p) \/ Confirm(p) \/ Abort(p)
    PROVE  IInv'
<1>1. raced \in BOOLEAN
  BY DEF IInv, Types
<1>2. CASE Check(p)
  BY <1>1, <1>2, Deciding DEF Check, Label
<1>3. CASE WatchRun(p)
  BY <1>1, <1>3, Deciding DEF WatchRun, Label
<1>4. CASE WatchTimeout(p)
  BY <1>1, <1>4, Deciding DEF WatchTimeout, Label
<1>5. CASE Reread(p)
  <2>1. raced' \in BOOLEAN
    BY <1>1, <1>5 DEF Reread
  <2>2. CASE Unrecorded(p)
    <3>1. Goes(p, "stamp") /\ HasRequired(job[p].values)
      BY <1>5, <2>2 DEF Reread, Unrecorded
    <3> QED
      BY <1>5, <2>1, <3>1, Deciding DEF Reread, Label
  <2>3. CASE ~Unrecorded(p)
    <3>1. Goes(p, After(p)) /\ After(p) \in {"confirm", "returned"}
      BY <1>5, <2>3 DEF Reread, After
    <3> QED
      BY <1>5, <2>1, <3>1, Deciding DEF Reread, Label
  <2> QED
    BY <2>2, <2>3
<1>6. CASE Confirm(p)
  BY <1>1, <1>6, Deciding DEF Confirm, Label
<1>7. CASE Abort(p)
  BY <1>1, <1>7, Deciding DEF Abort, Label
<1> QED
  BY <1>2, <1>3, <1>4, <1>5, <1>6, <1>7

(* Steps that go on and change the locals, the registry aside.                *)
LEMMA Working ==
    ASSUME IInv, NEW p \in Proc, NEW label \in Label, NEW mine \in Job,
           Goto(p, label), job' = [job EXCEPT ![p] = mine],
           UNCHANGED remote, UNCHANGED registry, UNCHANGED raced, Own(p)'
    PROVE  IInv'
<1>1. Types
  BY DEF IInv
<1>2. /\ pc' \in [Proc -> Label] /\ job' \in [Proc -> Job]
      /\ \A q \in Proc \ {p} : pc'[q] = pc[q] /\ job'[q] = job[q]
  BY <1>1 DEF Goto, Types
<1>3. Types'
  BY <1>1, <1>2, Unmoved, SameRegistry DEF Types
<1> QED
  BY <1>1, <1>2, <1>3, Unmoved, SameRegistry, Assemble

LEMMA Lookups ==
    ASSUME IInv, NEW p \in Proc,
           ListKnown(p) \/ FindRun(p) \/ LookAgain(p)
    PROVE  IInv'
<1>1. /\ Types /\ job \in [Proc -> Job] /\ job[p] \in Job /\ pc \in [Proc -> Label]
      /\ DOMAIN runs \subseteq Nat
  BY LenProperties DEF IInv, Types
<1>2. CASE ListKnown(p)
  <2> DEFINE mine == [job[p] EXCEPT
                        !.head = ref["local"],
                        !.known = {i \in DOMAIN runs : runs[i].seen}]
  <2>1. ref["local"] \in Commit
    BY <1>1 DEF Types
  <2>2. mine \in Job
    BY <1>1, <2>1 DEF Job
  <2>3. job' = [job EXCEPT ![p] = mine]
    BY <1>1, <1>2 DEF ListKnown
  <2>4. Goto(p, "dispatch") /\ UNCHANGED <<remote, registry, raced>>
    BY <1>2 DEF ListKnown
  <2> HIDE DEF mine
  <2>5. Own(p)'
    BY <1>1, <2>4 DEF Own, Goto, Recording
  <2> QED
    BY <2>2, <2>3, <2>4, <2>5, Working DEF Label
<1>3. CASE FindRun(p)
  <2>1. PICK i \in Candidates(p) :
          job' = [job EXCEPT ![p] = [NoJob EXCEPT !.head = job[p].head, !.run = i]]
    BY <1>3 DEF FindRun
  <2>2. i \in DOMAIN runs /\ runs[i].head = job[p].head
    BY DEF Candidates
  <2> DEFINE mine == [NoJob EXCEPT !.head = job[p].head, !.run = i]
  <2>3. mine \in Job /\ mine.run = i /\ mine.head = job[p].head
    BY <1>1, <2>2, NoJobIsJob DEF Job, NoJob
  <2>4. job' = [job EXCEPT ![p] = mine]
    BY <2>1
  <2>5. Goto(p, "watch") /\ UNCHANGED <<remote, registry, raced>>
    BY <1>3 DEF FindRun
  <2> HIDE DEF mine
  <2>6. Own(p)'
    BY <1>1, <2>2, <2>3, <2>4, <2>5 DEF Own, Goto, Recording, remote
  <2> QED
    BY <2>3, <2>4, <2>5, <2>6, Working DEF Label
<1>4. CASE LookAgain(p)
  <2>1. CASE job[p].tries + 1 < Attempts
    <3> DEFINE mine == [job[p] EXCEPT !.tries = @ + 1]
    <3>1. mine \in Job
      BY <1>1, <2>1, BaselineAssumption DEF Job
    <3>2. /\ job' = [job EXCEPT ![p] = mine]
          /\ pc[p] = "find" /\ pc' = pc
          /\ UNCHANGED <<remote, registry, raced>>
      BY <1>1, <1>4, <2>1 DEF LookAgain
    <3> HIDE DEF mine
    <3>3. Goto(p, "find")
      BY <1>1, <3>2 DEF Goto
    <3>4. Own(p)'
      BY <1>1, <3>2 DEF Own, Recording
    <3> QED
      BY <3>1, <3>2, <3>3, <3>4, Working DEF Label
  <2>2. CASE ~(job[p].tries + 1 < Attempts)
    <3>1. /\ Goes(p, "raised") /\ UNCHANGED <<remote, registry, raced>>
          /\ raced \in BOOLEAN
      BY <1>1, <1>4, <2>2 DEF LookAgain, Types
    <3> QED
      BY <3>1, Deciding DEF Label
  <2> QED
    BY <2>1, <2>2
<1> QED
  BY <1>2, <1>3, <1>4

(* A clean run's values are of its head, which is the head asked for; a       *)
(* manifest names the commit of its values.                                   *)
LEMMA Payloads ==
    ASSUME IInv, NEW p \in Proc, Download(p) \/ IngestManifest(p)
    PROVE  IInv'
<1>1. /\ Types /\ job \in [Proc -> Job] /\ job[p] \in Job /\ pc \in [Proc -> Label]
      /\ raced \in BOOLEAN
  BY DEF IInv, Types
<1>2. SUFFICES ASSUME NEW commit \in Commit \cup {None}, NEW values \in Measured,
                      Of(values, commit),
                      job' = [job EXCEPT ![p] =
                                [NoJob EXCEPT !.commit = commit, !.values = values]],
                      Goto(p, "reread"), UNCHANGED <<remote, registry, raced>>
               PROVE  IInv'
  <2>1. CASE Download(p)
    <3>1. job[p].run \in DOMAIN runs /\ runs[job[p].run].head = job[p].head
      BY <2>1 DEF Download, IInv, Origin, Watching
    <3>2. runs[job[p].run] \in Run
      BY <1>1, <3>1, ElementOfSeq, LenProperties DEF Types
    <3>3. CASE runs[job[p].run].state = "clean"
      <4>1. Of(runs[job[p].run].values, job[p].head)
        BY <3>1 DEF IInv, Origin
      <4> QED
        BY <1>1, <1>2, <2>1, <3>2, <3>3, <4>1 DEF Download, Run, Job
    <3>4. CASE runs[job[p].run].state # "clean"
      BY <1>1, <2>1, <3>4, Deciding DEF Download, Label
    <3> QED
      BY <3>3, <3>4
  <2>2. CASE IngestManifest(p)
    <3>1. PICK c \in Commit, names \in SUBSET Metric :
            LET values == [n \in Metric |-> IF n \in names THEN c ELSE None] IN
            IF HasRequired(values) /\ ~BaselineComplete
              THEN /\ job' = [job EXCEPT ![p] =
                                [NoJob EXCEPT !.commit = c, !.values = values]]
                   /\ Goto(p, "reread")
              ELSE Goes(p, "returned")
      BY <2>2 DEF IngestManifest
    <3> DEFINE values == [n \in Metric |-> IF n \in names THEN c ELSE None]
    <3>2. values \in Measured /\ Of(values, c)
      BY DEF Measured, Of
    <3>3. UNCHANGED <<remote, registry, raced>>
      BY <2>2 DEF IngestManifest
    <3>4. CASE HasRequired(values) /\ ~BaselineComplete
      <4>1. /\ job' = [job EXCEPT ![p] = [NoJob EXCEPT !.commit = c, !.values = values]]
            /\ Goto(p, "reread")
        BY <3>1, <3>4
      <4> HIDE DEF values
      <4> QED
        BY <1>2, <3>2, <3>3, <4>1
    <3>5. CASE ~(HasRequired(values) /\ ~BaselineComplete)
      <4>1. Goes(p, "returned")
        BY <3>1, <3>5
      <4> QED
        BY <1>1, <3>3, <4>1, Deciding DEF Label
    <3> QED
      BY <3>4, <3>5
  <2> QED
    BY <2>1, <2>2
<1> DEFINE mine == [NoJob EXCEPT !.commit = commit, !.values = values]
<1>3. mine \in Job /\ mine.commit = commit /\ mine.values = values
  BY NoJobIsJob DEF Job, NoJob
<1>4. job' = [job EXCEPT ![p] = mine]
  BY <1>2
<1> HIDE DEF mine
<1>5. Own(p)'
  BY <1>1, <1>2, <1>3, <1>4 DEF Own, Goto, Recording
<1> QED
  BY <1>2, <1>3, <1>4, <1>5, Working DEF Label

LEMMA Dispatching ==
    ASSUME IInv, NEW p \in Proc, DispatchWorkflow(p)
    PROVE  IInv'
<1>1. /\ Types /\ runs \in Seq(Run) /\ ref \in [{"local", "remote"} -> Commit]
      /\ raced \in BOOLEAN /\ Own(p)
  BY OwnParts DEF IInv, Types, Origin
<1>2. CASE runs' = runs /\ Goes(p, "raised")
  <2>1. UNCHANGED <<remote, registry, raced>>
    BY <1>2 DEF DispatchWorkflow, remote
  <2> QED
    BY <1>1, <1>2, <2>1, Deciding DEF Label
<1>3. CASE ~(runs' = runs /\ Goes(p, "raised"))
  <2>1. /\ runs' = Queued(runs) \/ runs' = Queued(Queued(runs))
        /\ Goes(p, "find") /\ pc[p] = "dispatch"
        /\ UNCHANGED <<ref, moves, registry, raced>>
    BY <1>3 DEF DispatchWorkflow
  <2>2. Extends(runs, Queued(runs)) /\ Queued(runs) \in Seq(Run)
    BY <1>1, DispatchExtends DEF Extends
  <2>3. Extends(Queued(runs), Queued(Queued(runs)))
    BY <1>1, <2>2, DispatchExtends
  <2>4. Extends(runs, runs')
    BY <2>1, <2>2, <2>3, ExtendsTwice
  <2>5. /\ pc' \in [Proc -> Label] /\ job' \in [Proc -> Job] /\ pc'[p] = "find"
        /\ \A q \in Proc \ {p} : pc'[q] = pc[q] /\ job'[q] = job[q]
    BY <1>1, <2>1, Leaving DEF Label
  <2>6. Types'
    BY <1>1, <2>1, <2>4, <2>5, SameRegistry DEF Types, Extends
  <2>7. Own(p)'
    BY <2>5 DEF Own, Recording
  <2> QED
    BY <2>1, <2>4, <2>5, <2>6, <2>7, SameRegistry, Assemble
<1> QED
  BY <1>2, <1>3

LEMMA Stamping ==
    ASSUME IInv, NEW p \in Proc, StampSession(p)
    PROVE  IInv'
<1>1. /\ Types /\ Own(p) /\ clock \in Nat /\ job \in [Proc -> Job] /\ job[p] \in Job
      /\ pc \in [Proc -> Label]
  BY OwnParts DEF IInv, Types, Origin
<1> DEFINE mine == [job[p] EXCEPT !.started = clock + 1]
<1>2. /\ mine \in Job /\ mine.values = job[p].values /\ mine.commit = job[p].commit
  BY <1>1 DEF Job
<1>3. /\ job' = [job EXCEPT ![p] = mine]
      /\ pc[p] = "stamp" /\ Goto(p, "write") /\ UNCHANGED remote
      /\ clock' = clock + 1 /\ session' = clock + 1 /\ UNCHANGED <<row, metrics, raced>>
  BY <1>1 DEF StampSession
<1> HIDE DEF mine
<1>4. /\ pc' \in [Proc -> Label] /\ job' \in [Proc -> Job]
      /\ pc'[p] = "write" /\ job'[p] = mine
      /\ \A q \in Proc \ {p} : pc'[q] = pc[q] /\ job'[q] = job[q]
  BY <1>1, <1>2, <1>3 DEF Goto, Label
<1>5. Types'
  BY <1>1, <1>3, <1>4, Unmoved DEF Types
<1>6. Own(p)'
  BY <1>1, <1>2, <1>3, <1>4 DEF Own, Recording, HasRequired, Of
<1>7. BaselineIsOfItsCommit'
  BY <1>3 DEF IInv, Origin, BaselineIsOfItsCommit
<1> QED
  BY <1>1, <1>3, <1>4, <1>5, <1>6, <1>7, Unmoved, Assemble

(* The values carried have every required metric, so none of the row they     *)
(* replace is left among them.                                                *)
LEMMA Writing ==
    ASSUME IInv, NEW p \in Proc, WriteRow(p)
    PROVE  IInv'
<1>1. /\ Types /\ Own(p) /\ job[p] \in Job /\ metrics \in Measured
  BY OwnParts DEF IInv, Types, Origin
<1>2. /\ pc[p] = "write" /\ Goes(p, After(p)) /\ After(p) \in {"confirm", "returned"}
      /\ UNCHANGED <<remote, session, clock, raced>>
      /\ row' = [commit |-> job[p].commit, created |-> job[p].started]
      /\ metrics' = [n \in Metric |->
                     IF job[p].values[n] # None THEN job[p].values[n] ELSE metrics[n]]
  BY DEF WriteRow, After
<1>3. /\ pc' \in [Proc -> Label] /\ job' \in [Proc -> Job] /\ pc'[p] = After(p)
      /\ \A q \in Proc \ {p} : pc'[q] = pc[q] /\ job'[q] = job[q]
  BY <1>1, <1>2, Leaving DEF Label
<1>4. /\ row' \in [commit : Commit \cup {None}, created : Nat] /\ metrics' \in Measured
  BY <1>1, <1>2 DEF Job, Measured
<1>5. Types'
  BY <1>1, <1>2, <1>3, <1>4, Unmoved DEF Types
<1>6. Own(p)'
  BY <1>2, <1>3 DEF Own, Recording
<1>7. BaselineIsOfItsCommit'
  <2>1. HasRequired(job[p].values) /\ Of(job[p].values, job[p].commit)
    BY <1>1, <1>2 DEF Own, Recording
  <2>2. \A n \in Required : metrics'[n] \in {row'.commit, None}
    BY <1>2, <2>1, BaselineAssumption DEF HasRequired, Of
  <2> QED
    BY <2>2 DEF BaselineIsOfItsCommit
<1> QED
  BY <1>1, <1>2, <1>3, <1>5, <1>6, <1>7, Unmoved, Assemble

LEMMA IInvStep == IInv /\ [Next]_vars => IInv'
<1> SUFFICES ASSUME IInv, [Next]_vars PROVE IInv'
  OBVIOUS
<1>1. CASE UNCHANGED vars
  BY <1>1 DEF vars, remote, registry, IInv, Types, Origin, Watching, Carries, Recording,
     Of, HasRequired, BaselineIsOfItsCommit
<1>2. CASE World
  BY <1>2, WorldStep
<1>3. CASE \E p \in Proc : Step(p) \/ Abort(p)
  <2>1. PICK p \in Proc : Step(p) \/ Abort(p)
    BY <1>3
  <2> QED
    BY <2>1, Decisions, Lookups, Payloads, Dispatching, Stamping, Writing
       DEF Step, Evaluate, Record
<1> QED
  BY <1>1, <1>2, <1>3 DEF Next

LEMMA Invariance == Spec => []IInv
  BY Initially, IInvStep, PTL DEF Spec

(* Every variable stays in its type, for any number of processes, runs,       *)
(* commits and metrics.                                                       *)
THEOREM TypeCorrect == Spec => []TypeOK
<1>1. IInv => TypeOK
  BY DEF IInv, Types, Origin, Watching, TypeOK
<1> QED
  BY <1>1, Invariance, PTL

(* The baseline of a required metric was measured on the commit it names,     *)
(* whatever the ref, its remote copy and rival dispatches do                  *)
(* (baseline.py:55-94).                                                       *)
THEOREM CommitCorrect == Spec => []BaselineIsOfItsCommit
<1>1. IInv => BaselineIsOfItsCommit
  BY DEF IInv, Origin
<1> QED
  BY <1>1, Invariance, PTL

-----------------------------------------------------------------------------
Writers == ~raced =>
    /\ \A p, q \in Proc : Recording(p) /\ Recording(q) => p = q
    /\ \A p \in Proc : Recording(p) => ~BaselineComplete
    /\ \A p \in Proc : pc[p] = "write" => job[p].started = session
    /\ BaselineComplete => row.created >= session

Recorded ==
    /\ HasBaseline => HasRequired(metrics) \/ row.created = 1
    /\ clock # 0
    /\ \A p \in Proc : pc[p] = "write" => job[p].started # 0
    /\ \A p \in Caller : pc[p] = "returned" => HasBaseline

Sound == Writers /\ Recorded

LEMMA SoundInitially == Init => Sound
<1> SUFFICES ASSUME Init PROVE Sound
  OBVIOUS
<1>1. /\ clock = 1 /\ session = row.created /\ row.created \in Nat
      /\ \A p \in Proc : pc[p] = "idle"
      /\ HasBaseline => row.created = 1
  BY DEF Init, HasBaseline, NoRow
<1> QED
  BY <1>1 DEF Sound, Writers, Recorded, Recording, Proc

(* A step that leaves the registry and lets nobody record.                    *)
LEMMA Quiet ==
    ASSUME Sound, UNCHANGED registry, UNCHANGED raced,
           \A q \in Proc : pc'[q] \in {"stamp", "write"} =>
              pc'[q] = pc[q] /\ job'[q] = job[q],
           \A q \in Caller : pc'[q] = "returned" => pc[q] = "returned" \/ HasBaseline
    PROVE  Sound'
<1>1. /\ BaselineComplete' = BaselineComplete /\ HasBaseline' = HasBaseline
      /\ HasRequired(metrics)' = HasRequired(metrics)
  BY DEF registry, BaselineComplete, HasBaseline, HasRequired
<1>2. Writers'
  BY <1>1 DEF Sound, Writers, Recording, registry
<1>3. Recorded'
  BY <1>1 DEF Sound, Recorded, registry
<1> QED
  BY <1>2, <1>3 DEF Sound

LEMMA Rereading ==
    ASSUME IInv, Sound, NEW p \in Proc, Reread(p)
    PROVE  Sound'
<1>1. /\ Types /\ UNCHANGED registry
      /\ pc[p] = "reread" /\ raced \in BOOLEAN
      /\ raced' = (raced \/ (Unrecorded(p) /\ \E q \in Proc : Recording(q)))
  BY DEF Reread, IInv, Types
<1>2. CASE ~Unrecorded(p)
  <2>1. Goes(p, After(p)) /\ After(p) \in Label /\ raced' = raced
    BY <1>1, <1>2 DEF Reread, After, Label
  <2>2. /\ pc'[p] = After(p)
        /\ \A q \in Proc \ {p} : pc'[q] = pc[q] /\ job'[q] = job[q]
    BY <1>1, <2>1, Leaving
  <2> QED
    BY <1>1, <2>1, <2>2, Quiet DEF After, Proc
<1>3. CASE Unrecorded(p)
  <2>1. Goes(p, "stamp") /\ ~BaselineComplete
    BY <1>3 DEF Reread, Unrecorded
  <2>2. /\ pc'[p] = "stamp"
        /\ \A q \in Proc \ {p} : pc'[q] = pc[q] /\ job'[q] = job[q]
    BY <1>1, <2>1, Leaving DEF Label
  <2>3. /\ BaselineComplete' = BaselineComplete /\ HasBaseline' = HasBaseline
        /\ HasRequired(metrics)' = HasRequired(metrics)
    BY <1>1 DEF registry, BaselineComplete, HasBaseline, HasRequired
  <2>4. ~raced' => ~raced /\ \A q \in Proc : ~Recording(q)
    BY <1>1, <1>3
  <2>5. ~raced' => \A q \in Proc : Recording(q)' => q = p
    BY <2>2, <2>4 DEF Recording
  <2>6. Writers'
    BY <1>1, <2>1, <2>2, <2>3, <2>5 DEF Writers, Recording
  <2>7. Recorded'
    BY <1>1, <2>2, <2>3 DEF Sound, Recorded, registry, Proc
  <2> QED
    BY <2>6, <2>7 DEF Sound
<1> QED
  BY <1>2, <1>3

LEMMA SoundStep == IInv /\ Sound /\ [Next]_vars => Sound'
<1> SUFFICES ASSUME IInv, Sound, [Next]_vars PROVE Sound'
  OBVIOUS
<1>t. Types /\ pc \in [Proc -> Label] /\ job \in [Proc -> Job] /\ clock \in Nat
  BY DEF IInv, Types
<1>1. CASE UNCHANGED vars
  BY <1>1, Quiet DEF vars
<1>2. CASE World
  BY <1>2, Quiet DEF World, Move, Appear, Finish
<1>3. CASE \E p \in Proc : Step(p) \/ Abort(p)
  <2>1. PICK p \in Proc : Step(p) \/ Abort(p)
    BY <1>3
  <2>2. CASE \/ Check(p) \/ WatchRun(p) \/ WatchTimeout(p) \/ Confirm(p) \/ Abort(p)
    <3>1. PICK label \in Label \ {"stamp", "write"} :
            Goes(p, label) /\ (label = "returned" => HasBaseline)
      BY <2>2 DEF Check, WatchRun, WatchTimeout, Confirm, Abort, Label, BaselineComplete
    <3>2. /\ pc'[p] = label
          /\ \A q \in Proc \ {p} : pc'[q] = pc[q] /\ job'[q] = job[q]
      BY <1>t, <3>1, Leaving
    <3>3. UNCHANGED registry /\ UNCHANGED raced
      BY <2>2 DEF Check, WatchRun, WatchTimeout, Confirm, Abort
    <3> QED
      BY <3>1, <3>2, <3>3, Quiet DEF Proc
  <2>3. CASE ListKnown(p) \/ FindRun(p) \/ LookAgain(p) \/ Download(p) \/ DispatchWorkflow(p)
    <3>1. /\ pc'[p] \notin {"stamp", "write", "returned"}
          /\ \A q \in Proc \ {p} : pc'[q] = pc[q] /\ job'[q] = job[q]
      BY <1>t, <2>3 DEF ListKnown, FindRun, LookAgain, Download, DispatchWorkflow, Goes,
         Goto, Keep
    <3>2. UNCHANGED registry /\ UNCHANGED raced
      BY <2>3 DEF ListKnown, FindRun, LookAgain, Download, DispatchWorkflow
    <3> QED
      BY <3>1, <3>2, Quiet DEF Proc
  <2>4. CASE p \in Ingest /\ IngestManifest(p)
    <3>1. /\ pc'[p] \notin {"stamp", "write"} /\ p \notin Caller
          /\ \A q \in Proc \ {p} : pc'[q] = pc[q] /\ job'[q] = job[q]
      BY <1>t, <2>4, BaselineAssumption DEF IngestManifest, Goes, Goto, Keep
    <3>2. UNCHANGED registry /\ UNCHANGED raced
      BY <2>4 DEF IngestManifest
    <3> QED
      BY <3>1, <3>2, Quiet DEF Proc
  <2>5. CASE Reread(p)
    BY <2>5, Rereading
  <2>6. CASE StampSession(p)
    <3>1. /\ pc[p] = "stamp" /\ pc'[p] = "write" /\ job'[p].started = clock + 1
          /\ session' = clock + 1 /\ clock' = clock + 1
          /\ UNCHANGED <<row, metrics, raced>>
          /\ \A q \in Proc \ {p} : pc'[q] = pc[q] /\ job'[q] = job[q]
      BY <1>t, <2>6 DEF StampSession, Goto, Job
    <3>2. /\ BaselineComplete' = BaselineComplete /\ HasBaseline' = HasBaseline
          /\ HasRequired(metrics)' = HasRequired(metrics)
      BY <3>1 DEF BaselineComplete, HasBaseline, HasRequired
    <3>3. Recording(p) /\ \A q \in Proc : Recording(q)' => Recording(q)
      BY <3>1 DEF Recording
    <3>4. Writers'
      BY <3>1, <3>2, <3>3 DEF Sound, Writers, Recording
    <3>5. Recorded'
      BY <1>t, <3>1, <3>2 DEF Sound, Recorded, Proc
    <3> QED
      BY <3>4, <3>5 DEF Sound
  <2>7. CASE WriteRow(p)
    <3>1. /\ pc[p] = "write" /\ Goes(p, After(p)) /\ After(p) \in {"confirm", "returned"}
          /\ UNCHANGED <<session, clock, raced>>
          /\ row' = [commit |-> job[p].commit, created |-> job[p].started]
          /\ metrics' = [n \in Metric |->
                     IF job[p].values[n] # None THEN job[p].values[n] ELSE metrics[n]]
      BY <2>7 DEF WriteRow, After
    <3>2. /\ pc'[p] = After(p)
          /\ \A q \in Proc \ {p} : pc'[q] = pc[q] /\ job'[q] = job[q]
      BY <1>t, <3>1, Leaving DEF Label
    <3>3. HasRequired(job[p].values)
      BY <3>1 DEF IInv, Origin, Carries, Recording
    <3>4. HasRequired(metrics') /\ HasBaseline' /\ BaselineComplete'
      BY <3>1, <3>3, BaselineAssumption DEF HasRequired, HasBaseline, BaselineComplete, NoRow,
         Sound, Recorded
    <3>5. job[p].started \in Nat /\ (~raced => row'.created = session)
      BY <1>t, <3>1 DEF Job, Sound, Writers
    <3>6. ~raced => \A q \in Proc : ~Recording(q)'
      BY <3>1, <3>2 DEF Sound, Writers, Recording
    <3>7. Writers'
      BY <1>t, <3>1, <3>4, <3>5, <3>6 DEF Writers, Recording
    <3>8. Recorded'
      BY <3>1, <3>2, <3>4 DEF Sound, Recorded, Proc, HasRequired
    <3> QED
      BY <3>7, <3>8 DEF Sound
  <2> QED
    BY <2>1, <2>2, <2>3, <2>4, <2>5, <2>6, <2>7 DEF Step, Evaluate, Record
<1> QED
  BY <1>1, <1>2, <1>3 DEF Next

LEMMA Soundness == Spec => [](IInv /\ Sound)
<1>1. IInv /\ Sound /\ [Next]_vars => IInv' /\ Sound'
  BY IInvStep, SoundStep
<1>2. Init => IInv /\ Sound
  BY Initially, SoundInitially
<1> QED
  BY <1>1, <1>2, PTL DEF Spec

(* An invocation returns over a complete baseline, or over the row of         *)
(* other targets it found (baseline.py:95).                                   *)
THEOREM ReturnCorrect == Spec => []ReturnMeansBaseline
<1>1. Sound => ReturnMeansBaseline
  BY DEF Sound, Recorded, ReturnMeansBaseline, BaselineComplete
<1> QED
  BY <1>1, Soundness, PTL

(* As long as no two processes recorded at once, the baseline is within       *)
(* the session (store.py:259).                                                *)
THEOREM SessionCorrect == Spec => []BaselineInSession
<1>1. Sound => BaselineInSession
  BY DEF Sound, Writers, BaselineInSession
<1> QED
  BY <1>1, Soundness, PTL

(* And a complete baseline is frozen (ingest.py:179).                         *)
THEOREM Frozen == Spec => FrozenOnceComplete
<1>1. Sound /\ [Next]_vars =>
        [BaselineComplete /\ ~raced => UNCHANGED <<row, metrics, session>>]_vars
  <2> SUFFICES ASSUME Sound, Next, BaselineComplete, ~raced
               PROVE  UNCHANGED <<row, metrics, session>>
    OBVIOUS
  <2>1. CASE World
    BY <2>1 DEF World, Move, Appear, Finish, registry
  <2>2. CASE \E p \in Proc : Step(p) \/ Abort(p)
    <3>1. PICK p \in Proc : Step(p) \/ Abort(p)
      BY <2>2
    <3>2. ~StampSession(p) /\ ~WriteRow(p)
      BY DEF Sound, Writers, Recording, StampSession, WriteRow
    <3> QED
      BY <3>1, <3>2 DEF Step, Evaluate, Record, Check, ListKnown, DispatchWorkflow, FindRun,
         LookAgain, WatchRun, WatchTimeout, Download, IngestManifest, Reread, Confirm, Abort,
         registry
  <2> QED
    BY <2>1, <2>2 DEF Next
<1> QED
  BY <1>1, Soundness, PTL DEF Spec, FrozenOnceComplete

=============================================================================
