------------------------------- MODULE LoopsAll -------------------------------
(******************************************************************************)
(* loops-all over a whole study: the driver that goes through the execution   *)
(* waves, the run_loops it starts for each pending group (a child process in  *)
(* a worktree of its own when the waves are parallel, a call when they are    *)
(* not), what both write to the registry, and the session stamp.  The driver  *)
(* may die at any step and be started again; its child processes outlive it.  *)
(*                                                                            *)
(* A run of run_loops is what GroupLoop shows the rest of the program: loops  *)
(* that add rows, and an exit that is good only with a clean row.             *)
(******************************************************************************)
EXTENDS Naturals, Sequences, FiniteSets

CONSTANTS
  Group,           \* the research groups of the (desugared) configuration
  Waves,           \* execution_waves, the order within a wave left open
  Sources,         \* the groups each group inherits from or draws from
  Leaf,            \* the groups whose role is "leaf"
  Area,            \* the area of each group
  Budget,          \* effective_loops of each group; 0 is a select collapse
  StopOnSuccess,   \* not --run-exact-loops
  MaxInvocations   \* bound: how often loops-all is started

ASSUME StudyAssumption ==
  /\ Waves \in Seq(SUBSET Group) /\ Leaf \subseteq Group
  /\ Sources \in [Group -> SUBSET Group] /\ Budget \in [Group -> Nat]
  /\ DOMAIN Area = Group
ASSUME OptionsAssumption ==
  StopOnSuccess \in BOOLEAN /\ MaxInvocations \in Nat \ {0}

(* _validate_orchestration_order: sources are in earlier waves.               *)
ASSUME WavesAreOrdered ==
  \A v, w \in DOMAIN Waves : \A g \in Waves[w], s \in Waves[v] :
    s \in Sources[g] => v < w

VARIABLES
  \* the driver: where it is, whether it was started with --parallel, the
  \* wave, the groups of it not yet started
  pc, parallel, wave, queue,
  \* the runs of run_loops, also those whose driver is gone; the worktrees
  children, worktrees,
  \* the registry: loops of each group with a clean row, with any row; the
  \* select collapses recorded; the orchestration session
  clean, counted, adopted, session,
  \* observation: invocations begun, how the last ended
  invocations, result

driver == <<pc, parallel, wave, queue>>
registry == <<clean, counted, adopted>>
vars == <<driver, children, worktrees, registry, session, invocations, result>>

Child == [group : Group, by : 1..MaxInvocations, loop : Nat \ {0},
          status : {"running", "ok", "failed", "raised"}]

TypeOK ==
  /\ pc \in {"down", "wave", "launch", "join", "inline"}
  /\ parallel \in BOOLEAN /\ wave \in 1..(Len(Waves) + 1) /\ queue \subseteq Group
  /\ children \subseteq Child /\ worktrees \subseteq Group
  /\ clean \in [Group -> SUBSET Nat] /\ counted \in [Group -> SUBSET Nat]
  /\ adopted \subseteq Group /\ session \in {"none", "live", "complete"}
  /\ invocations \in 0..MaxInvocations
  /\ result \in {"none", "ok", "failed", "raised", "crashed"}

Init ==
  /\ pc = "down" /\ parallel = FALSE /\ wave = 1 /\ queue = {} /\ children = {} /\ worktrees = {}
  /\ clean = [g \in Group |-> {}] /\ counted = [g \in Group |-> {}]
  /\ adopted = {} /\ session = "none"
  /\ invocations = 0 /\ result = "none"

------------------------------------------------------------------------------
(* What the registry says of a group.                                         *)

CompleteByCount(g) == Cardinality(counted[g]) >= Budget[g]   \* variant: clean or not
GroupComplete(g) ==
  IF Budget[g] = 0 THEN g \in adopted
  ELSE \/ Cardinality(clean[g]) >= Budget[g]
       \/ clean[g] # {} /\ Cardinality(counted[g]) >= Budget[g]

Pending == {g \in Waves[wave] : ~GroupComplete(g)}

(* A failed leaf is tolerated while its area keeps a clean one.               *)
BlocksDownstream(g) ==
  /\ clean[g] = {}
  /\ ~(g \in Leaf /\ \E s \in Leaf : Area[s] = Area[g] /\ clean[s] # {})

Running == {c \in children : c.status = "running"}
Own == {c \in children : c.by = invocations}

------------------------------------------------------------------------------
(* The driver.                                                                *)

(* The baseline snapshot, made once, opens the session.  A study started one  *)
(* way may be resumed the other.                                              *)
StartAll ==
  /\ pc = "down" /\ invocations < MaxInvocations
  /\ invocations' = invocations + 1
  /\ pc' = "wave" /\ parallel' \in BOOLEAN /\ wave' = 1 /\ queue' = {} /\ result' = "none"
  /\ session' = IF session = "none" THEN "live" ELSE session
  /\ UNCHANGED <<children, worktrees, registry>>

(* No baseline could be had, or the checkout of baseline_ref failed: the      *)
(* exception leaves before the try block.                                     *)
StartFails ==
  /\ pc = "down" /\ invocations < MaxInvocations
  /\ invocations' = invocations + 1 /\ result' = "raised"
  /\ parallel' \in BOOLEAN
  /\ \/ UNCHANGED session
     \/ parallel' /\ session = "none" /\ session' = "live"
  /\ UNCHANGED <<pc, wave, queue, children, worktrees, registry>>

(* loops-all returns or raises through its finally clause: the worktrees go,  *)
(* the session is stamped.  git may fail on the first, and skip the second.   *)
Stop(how) ==
  /\ pc' = "down" /\ queue' = {}
  /\ children' = Running
  /\ \/ /\ worktrees' = IF parallel THEN {} ELSE worktrees
        /\ session' = "complete" /\ result' = how
     \/ /\ parallel /\ worktrees # {}
        /\ worktrees' \in SUBSET worktrees /\ UNCHANGED session
        /\ result' = "raised"
  /\ UNCHANGED <<parallel, wave, registry, invocations>>

SameWave == wave                    \* variant: the wave is taken up again
EveryOtherWave == wave + 2          \* variant: counted twice
NextWave == wave + 1

SkipWave ==
  /\ pc = "wave" /\ wave <= Len(Waves) /\ Pending = {}
  /\ wave' = wave + 1
  /\ UNCHANGED <<pc, parallel, queue, children, worktrees, registry, session, invocations, result>>

BeginWave ==
  /\ pc = "wave" /\ wave <= Len(Waves) /\ Pending # {}
  /\ pc' = IF parallel THEN "launch" ELSE "inline"
  /\ queue' = Pending
  /\ UNCHANGED <<parallel, wave, children, worktrees, registry, session, invocations, result>>

Finish == pc = "wave" /\ wave > Len(Waves) /\ Stop("ok")

NewChild(g) == [group |-> g, by |-> invocations, loop |-> 1, status |-> "running"]

(* _run_wave_parallel: a fresh worktree and a child process for each group.   *)
Launch(g) ==
  /\ pc = "launch" /\ g \in queue
  /\ worktrees' = worktrees \cup {g}
  /\ children' = children \cup {NewChild(g)}
  /\ queue' = queue \ {g}
  /\ pc' = IF queue = {g} THEN "join" ELSE "launch"
  /\ UNCHANGED <<parallel, wave, registry, session, invocations, result>>

(* No anchor resolves, git refuses a worktree, or the process cannot start.   *)
LaunchFails == pc = "launch" /\ Stop("raised")

SomeExited == Own \ Running # {}    \* variant: the wave ends with its first child
AllExited == Own \cap Running = {}

CrashedGroups == {c.group : c \in {x \in Own : x.status = "raised"}}   \* variant
FailedGroups == {c.group : c \in {x \in Own : x.status # "ok"}}

(* Every stream has ended and every exit code is known.                       *)
JoinWave ==
  /\ pc = "join" /\ AllExited
  /\ \A g \in FailedGroups : ~BlocksDownstream(g)
  /\ pc' = "wave" /\ wave' = NextWave
  /\ children' = children \ (Own \ Running)
  /\ UNCHANGED <<parallel, queue, worktrees, registry, session, invocations, result>>

AbortWave ==
  /\ pc = "join" /\ AllExited
  /\ \E g \in FailedGroups : BlocksDownstream(g)
  /\ Stop("failed")

(* The sequential driver calls run_loops for one group after the other, and   *)
(* stops at the first that is not ok.                                         *)
Call(g) ==
  /\ pc = "inline" /\ Own = {} /\ g \in queue
  /\ children' = children \cup {NewChild(g)}
  /\ queue' = queue \ {g}
  /\ UNCHANGED <<pc, parallel, wave, worktrees, registry, session, invocations, result>>

CallReturns(c) ==
  /\ pc = "inline" /\ c.status # "running"
  /\ IF c.status = "ok"
     THEN /\ children' = children \ {c}
          /\ IF queue = {} THEN pc' = "wave" /\ wave' = wave + 1 ELSE UNCHANGED <<pc, wave>>
          /\ UNCHANGED <<parallel, queue, worktrees, registry, session, invocations, result>>
     ELSE Stop(c.status)

(* The process is killed: no finally clause, and child processes run on.      *)
Crash ==
  /\ pc # "down"
  /\ pc' = "down" /\ queue' = {} /\ result' = "crashed"
  /\ children' = IF parallel THEN Running ELSE {}
  /\ UNCHANGED <<parallel, wave, worktrees, registry, session, invocations>>

Driver ==
  \/ SkipWave \/ BeginWave \/ Finish \/ LaunchFails \/ JoinWave \/ AbortWave
  \/ \E g \in Group : Launch(g) \/ Call(g)
  \/ \E c \in Own : CallReturns(c)

------------------------------------------------------------------------------
(* run_loops, as the driver and the registry see it.                          *)

(* The exit is kept for the driver that waits for it.                         *)
Exit(c, how) ==
  /\ children' = (children \ {c}) \cup
                   (IF pc # "down" /\ c.by = invocations
                    THEN {[c EXCEPT !.status = how]} ELSE {})
  /\ UNCHANGED <<driver, worktrees, session, invocations, result>>

NextLoop(c) ==
  /\ children' = (children \ {c}) \cup {[c EXCEPT !.loop = @ + 1]}
  /\ UNCHANGED <<driver, worktrees, session, invocations, result>>

(* git checks a branch out once: called in the shared checkout, a group whose *)
(* worktree was left behind by a driver that died cannot have its branch.     *)
Refused(c) == c.by = invocations /\ ~parallel /\ c.group \in worktrees

(* A loop ends in a clean evaluation, a failed one, or none at all.           *)
EndLoop(c, outcome) ==
  /\ c \in Running /\ Budget[c.group] > 0 /\ ~Refused(c)
  /\ clean' = [clean EXCEPT ![c.group] = @ \cup IF outcome \in {"met", "below"}
                                                THEN {c.loop} ELSE {}]
  /\ counted' = [counted EXCEPT ![c.group] = @ \cup IF outcome = "incomplete"
                                                    THEN {} ELSE {c.loop}]
  /\ \/ StopOnSuccess /\ outcome = "met" /\ Exit(c, "ok")
     \/ /\ ~(StopOnSuccess /\ outcome = "met")
        /\ IF c.loop < Budget[c.group] THEN NextLoop(c)
           ELSE Exit(c, IF clean'[c.group] # {} THEN "ok" ELSE "failed")
  /\ UNCHANGED adopted

(* A blocked cycle or a refused bundle ends the run; so does an exception.    *)
GiveUp(c) ==
  /\ c \in Running
  /\ \E how \in {"failed", "raised"} : (Refused(c) => how = "raised") /\ Exit(c, how)
  /\ UNCHANGED registry

(* A select collapse runs no loop: it records what it adopts.                 *)
Adopt(c) ==
  /\ c \in Running /\ Budget[c.group] = 0 /\ ~Refused(c)
  /\ adopted' = adopted \cup {c.group}
  /\ Exit(c, "ok")
  /\ UNCHANGED <<clean, counted>>

RunStep(c) ==
  GiveUp(c) \/ Adopt(c) \/ \E o \in {"met", "below", "failed", "incomplete"} : EndLoop(c, o)

Next == StartAll \/ StartFails \/ Driver \/ Crash \/ \E c \in children : RunStep(c)

Spec == Init /\ [][Next]_vars

(* The driver keeps executing, and so does each run_loops: GroupLoop shows    *)
(* that one that does ends.                                                   *)
FairSpec ==
  /\ Spec /\ WF_vars(Driver)
  /\ \A g \in Group, i \in 1..MaxInvocations :
       WF_vars(\E c \in children : c.group = g /\ c.by = i /\ RunStep(c))

------------------------------------------------------------------------------
(* A group an area can go on without.                                         *)
HasResult(g) == g \in adopted \/ ~BlocksDownstream(g)

(* No wave is started, and no study reported complete, on a dead end: every   *)
(* group of the waves before has a result to inherit, or is a leaf whose      *)
(* area has one, whatever failed, was skipped or resumed.                     *)
ResultsBeforeNextWave ==
  pc # "down" \/ result = "ok" =>
    \A v \in 1..(wave - 1) : \A g \in Waves[v] : HasResult(g)

(* A group runs beside one it inherits from only if one of the two outlived   *)
(* the driver that started it: no invocation, whatever it skips, tolerates or *)
(* resumes, ever starts both, so only such an orphan can move an anchor       *)
(* between the driver's reading and the child's.  (lineage.md rules out the   *)
(* orphan too; the code does not.)                                            *)
OnlyOrphansMoveAnchors ==
  \A c, d \in Running : d.group \in Sources[c.group] => c.by # d.by

(* loops-all returns, although any group may fail at any point.               *)
LoopsAllReturns == pc # "down" ~> pc = "down"
==============================================================================
