---------------------------- MODULE LoopsAllProofs ----------------------------
(******************************************************************************)
(* For every study, every budget and any number of resumes: a wave starts     *)
(* only when every group before it has a result, and no invocation has a      *)
(* group run beside one it inherits from, its orphans included.               *)
(******************************************************************************)
EXTENDS LoopsAll, TLAPS, FiniteSetTheorems

(* The wave under way is made of its queue, its running or finished children  *)
(* and groups that have a result; the children of this invocation belong to   *)
(* it, and a sequential driver has one at a time.                             *)
WaveInv ==
  /\ pc \in {"launch", "join", "inline"} =>
       /\ wave <= Len(Waves)
       /\ queue \subseteq Waves[wave]
       /\ \A c \in Own : c.group \in Waves[wave]
       /\ \A g \in Waves[wave] :
            HasResult(g) \/ g \in queue \/ \E c \in Own : c.group = g
  /\ pc = "join" => queue = {}
  /\ pc = "wave" => Own = {} /\ queue = {}
  /\ pc = "inline" => \A c, d \in Own : c = d

(* The runs of one invocation are of one wave, its orphans included.          *)
Together(c, d) == \E w \in DOMAIN Waves : {c.group, d.group} \subseteq Waves[w]

(* A run that ended well left a result; no run is of an invocation to come.   *)
ChildInv ==
  /\ \A c \in children : c.status = "ok" => HasResult(c.group)
  /\ \A c \in children : c.by <= invocations
  /\ \A c, d \in children : c.by = d.by => Together(c, d)
  /\ pc # "down" => invocations > 0

Inv == TypeOK /\ ResultsBeforeNextWave /\ WaveInv /\ ChildInv

------------------------------------------------------------------------------
(* Facts about the registry.                                                  *)

(* Rows are only added, so a result is never lost.                            *)
LEMMA ResultsStay ==
  ASSUME adopted \subseteq adopted', \A g \in Group : clean[g] \subseteq clean'[g],
         Leaf \subseteq Group, NEW g \in Group, HasResult(g)
  PROVE  HasResult(g)'
BY DEF HasResult, BlocksDownstream

(* What a resume skips has a result.                                          *)
LEMMA CompleteHasResult ==
  ASSUME NEW g \in Group, GroupComplete(g), StudyAssumption PROVE HasResult(g)
<1>1. CASE Budget[g] = 0
  BY <1>1 DEF GroupComplete, HasResult
<1>2. CASE Budget[g] # 0
  <2>1. clean[g] # {}
    <3>1. SUFFICES ASSUME clean[g] = {} PROVE FALSE
      OBVIOUS
    <3>2. Cardinality(clean[g]) = 0
      BY <3>1, FS_EmptySet
    <3>3. Budget[g] \in Nat
      BY StudyAssumption
    <3> QED
      BY <1>2, <3>1, <3>2, <3>3 DEF GroupComplete
  <2> QED
    BY <2>1 DEF HasResult, BlocksDownstream
<1> QED
  BY <1>1, <1>2

LEMMA WaveTypes == \A w \in 1..Len(Waves) : Waves[w] \subseteq Group
BY StudyAssumption

------------------------------------------------------------------------------
(* Types.                                                                     *)

LEMMA InitTypes == Init => TypeOK
<1> SUFFICES ASSUME Init PROVE TypeOK
  OBVIOUS
<1>1. parallel \in BOOLEAN
  BY DEF Init
<1>2. 1 \in 1..(Len(Waves) + 1) /\ 0 \in 0..MaxInvocations
  BY StudyAssumption, OptionsAssumption
<1> QED
  BY <1>1, <1>2 DEF Init, TypeOK

LEMMA ChildTypes ==
  ASSUME TypeOK
  PROVE  /\ \A g \in Group : invocations > 0 => NewChild(g) \in Child
         /\ \A c \in Child, how \in {"ok", "failed", "raised"} : [c EXCEPT !.status = how] \in Child
         /\ \A c \in Child : [c EXCEPT !.loop = @ + 1] \in Child
BY OptionsAssumption DEF TypeOK, Child, NewChild

------------------------------------------------------------------------------
(* A step of a run: rows are added, and the run is replaced by x or, when     *)
(* nobody waits for it, gone.                                                 *)
Replaces(c, x) ==
  /\ x \in Child /\ x.group = c.group /\ x.by = c.by
  /\ x.status = "ok" => HasResult(c.group)'
  /\ \/ children' = (children \ {c}) \cup {x}
     \/ children' = children \ {c} /\ (pc = "down" \/ c.by # invocations)

LEMMA ExitReplaces ==
  ASSUME TypeOK, NEW c \in children, NEW how \in {"ok", "failed", "raised"}, Exit(c, how),
         how = "ok" => HasResult(c.group)'
  PROVE  /\ \E x \in Child : Replaces(c, x)
         /\ UNCHANGED <<driver, worktrees, session, invocations, result>>
<1>1. PICK x \in Child : x = [c EXCEPT !.status = how]
  BY ChildTypes DEF TypeOK
<1>2. c \in Child /\ x.group = c.group /\ x.by = c.by /\ x.status = how
  BY <1>1 DEF TypeOK, Child
<1>3. Replaces(c, x)
  <2>1. CASE pc # "down" /\ c.by = invocations
    BY <2>1, <1>1, <1>2 DEF Replaces, Exit
  <2>2. CASE ~(pc # "down" /\ c.by = invocations)
    BY <2>2, <1>1, <1>2 DEF Replaces, Exit
  <2> QED
    BY <2>1, <2>2
<1> QED
  BY <1>3 DEF Exit

LEMMA RunStepFacts ==
  ASSUME TypeOK, StudyAssumption, NEW c \in children, RunStep(c)
  PROVE  /\ \E x \in Child : Replaces(c, x)
         /\ UNCHANGED <<driver, worktrees, session, invocations, result>>
         /\ adopted \subseteq adopted' /\ adopted' \subseteq Group
         /\ \A g \in Group : clean[g] \subseteq clean'[g]
         /\ clean' \in [Group -> SUBSET Nat] /\ counted' \in [Group -> SUBSET Nat]
<1>c. c \in Child /\ c.group \in Group /\ c.loop \in Nat
  BY DEF TypeOK, Child
<1>1. CASE GiveUp(c)
  <2>1. PICK how \in {"failed", "raised"} : Exit(c, how)
    BY <1>1 DEF GiveUp
  <2>2. UNCHANGED registry
    BY <1>1 DEF GiveUp
  <2> QED
    BY <2>1, <2>2, ExitReplaces DEF registry, TypeOK
<1>2. CASE Adopt(c)
  <2>1. adopted' = adopted \cup {c.group} /\ Exit(c, "ok") /\ UNCHANGED <<clean, counted>>
    BY <1>2 DEF Adopt
  <2>2. HasResult(c.group)'
    BY <2>1 DEF HasResult
  <2> QED
    BY <2>1, <2>2, <1>c, ExitReplaces DEF TypeOK
<1>3. ASSUME NEW o \in {"met", "below", "failed", "incomplete"}, EndLoop(c, o)
      PROVE  /\ \E x \in Child : Replaces(c, x)
                 /\ UNCHANGED <<driver, worktrees, session, invocations, result>>
             /\ adopted \subseteq adopted' /\ adopted' \subseteq Group
             /\ \A g \in Group : clean[g] \subseteq clean'[g]
             /\ clean' \in [Group -> SUBSET Nat] /\ counted' \in [Group -> SUBSET Nat]
  <2>1. /\ clean' = [clean EXCEPT ![c.group] = @ \cup IF o \in {"met", "below"}
                                                      THEN {c.loop} ELSE {}]
        /\ counted' = [counted EXCEPT ![c.group] = @ \cup IF o = "incomplete"
                                                          THEN {} ELSE {c.loop}]
        /\ UNCHANGED adopted
    BY <1>3 DEF EndLoop
  <2>2. /\ \A g \in Group : clean[g] \subseteq clean'[g]
        /\ clean' \in [Group -> SUBSET Nat] /\ counted' \in [Group -> SUBSET Nat]
    BY <2>1, <1>c DEF TypeOK
  <2>3. clean'[c.group] # {} => HasResult(c.group)'
    BY DEF HasResult, BlocksDownstream
  <2>4. /\ \E x \in Child : Replaces(c, x)
        /\ UNCHANGED <<driver, worktrees, session, invocations, result>>
    <3>1. CASE StopOnSuccess /\ o = "met" /\ Exit(c, "ok")
      <4>1. clean'[c.group] # {}
        BY <3>1, <2>1, <1>c DEF TypeOK
      <4> QED
        BY <3>1, <4>1, <2>3, ExitReplaces
    <3>2. CASE NextLoop(c)
      <4>1. PICK x \in Child : x = [c EXCEPT !.loop = @ + 1]
        BY <1>c, ChildTypes
      <4>2. x.group = c.group /\ x.by = c.by /\ x.status = c.status
        BY <4>1, <1>c DEF Child
      <4>3. c.status # "ok"
        BY <1>3 DEF EndLoop, Running
      <4>4. Replaces(c, x)
        BY <3>2, <4>1, <4>2, <4>3 DEF Replaces, NextLoop
      <4> QED
        BY <3>2, <4>4 DEF NextLoop, TypeOK
    <3>3. CASE Exit(c, IF clean'[c.group] # {} THEN "ok" ELSE "failed")
      <4>1. CASE clean'[c.group] # {}
        BY <3>3, <4>1, <2>3, ExitReplaces
      <4>2. CASE clean'[c.group] = {}
        BY <3>3, <4>2, ExitReplaces
      <4> QED
        BY <4>1, <4>2
    <3> QED
      BY <1>3, <3>1, <3>2, <3>3 DEF EndLoop
  <2> QED
    BY <2>1, <2>2, <2>4 DEF TypeOK
<1> QED
  BY <1>1, <1>2, <1>3 DEF RunStep

LEMMA RunStepKeepsInv ==
  ASSUME Inv, StudyAssumption, NEW c \in children, RunStep(c) PROVE Inv'
<1>t. TypeOK
  BY DEF Inv
<1>1. PICK x \in Child : Replaces(c, x)
  BY <1>t, RunStepFacts
<1>2. /\ UNCHANGED <<driver, worktrees, session, invocations, result>>
      /\ adopted \subseteq adopted' /\ adopted' \subseteq Group
      /\ \A g \in Group : clean[g] \subseteq clean'[g]
      /\ clean' \in [Group -> SUBSET Nat] /\ counted' \in [Group -> SUBSET Nat]
  BY <1>t, RunStepFacts
<1>3. UNCHANGED <<pc, parallel, wave, queue>>
  BY <1>2 DEF driver
<1>4. \A g \in Group : HasResult(g) => HasResult(g)'
  BY <1>2, ResultsStay, StudyAssumption
<1>5. children' \subseteq children \cup {x} /\ x.group = c.group /\ x.by = c.by
  BY <1>1 DEF Replaces
<1>6. TypeOK'
  BY <1>t, <1>2, <1>3, <1>5 DEF TypeOK
<1>7. ResultsBeforeNextWave'
  <2>1. \A v \in 1..(wave - 1) : v \in 1..Len(Waves)
    BY <1>t, StudyAssumption DEF TypeOK
  <2> QED
    BY <2>1, <1>2, <1>3, <1>4, WaveTypes DEF Inv, ResultsBeforeNextWave
<1>8. ChildInv'
  <2>1. \A d \in children' : d.status = "ok" => HasResult(d.group)'
    BY <1>t, <1>1, <1>4, <1>5 DEF Inv, ChildInv, Replaces, TypeOK, Child
  <2>2. \A d \in children' : \E e \in children : d.group = e.group /\ d.by = e.by
    BY <1>5
  <2>3. ASSUME NEW d \in children', NEW e \in children', d.by = e.by
        PROVE  Together(d, e)'
    <3>1. PICK p \in children : d.group = p.group /\ d.by = p.by
      BY <2>2
    <3>2. PICK q \in children : e.group = q.group /\ e.by = q.by
      BY <2>2
    <3>3. Together(p, q)
      BY <2>3, <3>1, <3>2 DEF Inv, ChildInv
    <3> QED
      BY <3>1, <3>2, <3>3 DEF Together
  <2> QED
    BY <2>1, <2>2, <2>3, <1>2, <1>3 DEF Inv, ChildInv
<1>9. WaveInv'
  <2>1. \A d \in Own' : d \in Own \/ (d = x /\ c \in Own)
    BY <1>2, <1>5 DEF Own
  <2>2. ASSUME NEW e \in Own, pc # "down" PROVE \E d \in Own' : d.group = e.group
    BY <2>2, <1>1, <1>2, <1>5 DEF Own, Replaces
  <2>3. pc \in {"launch", "join", "inline"} =>
           \A g \in Waves[wave] :
              HasResult(g)' \/ g \in queue \/ \E d \in Own' : d.group = g
    <3>1. wave \in Nat /\ wave >= 1 /\ Len(Waves) \in Nat
      BY <1>t, StudyAssumption DEF TypeOK
    <3>2. wave <= Len(Waves) => Waves[wave] \subseteq Group
      BY <3>1, WaveTypes
    <3> QED
      BY <2>2, <1>4, <3>2 DEF Inv, WaveInv
  <2>4. pc \in {"launch", "join", "inline"} => \A d \in Own' : d.group \in Waves[wave]
    BY <2>1, <1>5 DEF Inv, WaveInv
  <2>5. pc = "wave" => Own' = {}
    BY <2>1 DEF Inv, WaveInv
  <2>6. pc = "inline" => \A d, e \in Own' : d = e
    BY <2>1, <1>1 DEF Inv, WaveInv, Own, Replaces
  <2> QED
    BY <2>3, <2>4, <2>5, <2>6, <1>3 DEF Inv, WaveInv
<1> QED
  BY <1>6, <1>7, <1>8, <1>9 DEF Inv

------------------------------------------------------------------------------
(* A step of the driver leaves the registry alone.                            *)
LEMMA ResultsUnchanged ==
  ASSUME UNCHANGED registry PROVE \A g : HasResult(g)' <=> HasResult(g)
BY DEF registry, HasResult, BlocksDownstream

LEMMA StopKeepsInv ==
  ASSUME Inv, StudyAssumption, NEW how \in {"ok", "failed", "raised"}, Stop(how),
         how = "ok" => \A v \in 1..(wave - 1) : \A g \in Waves[v] : HasResult(g)
  PROVE  Inv'
<1>1. UNCHANGED registry /\ pc' = "down" /\ UNCHANGED <<parallel, wave, invocations>>
      /\ queue' = {} /\ children' \subseteq children /\ result' \in {how, "raised"}
  BY DEF Stop, Running
<1>2. TypeOK'
  BY <1>1 DEF Inv, TypeOK, Stop, registry
<1> QED
  BY <1>1, <1>2, ResultsUnchanged
     DEF Inv, ResultsBeforeNextWave, WaveInv, ChildInv, Own

LEMMA DriverKeepsInv == ASSUME Inv, StudyAssumption, OptionsAssumption, Driver PROVE Inv'
<1>t. /\ TypeOK /\ ResultsBeforeNextWave /\ WaveInv /\ ChildInv
      /\ pc # "down" => \A v \in 1..(wave - 1) : \A g \in Waves[v] : HasResult(g)
  BY DEF Inv, ResultsBeforeNextWave
<1>w. /\ wave \in Nat /\ Len(Waves) \in Nat /\ wave <= Len(Waves) + 1 /\ wave >= 1
      /\ \A v \in 1..wave : v \in 1..(wave - 1) \/ v = wave
  BY <1>t, StudyAssumption DEF TypeOK
<1>1. CASE SkipWave
  <2>1. /\ UNCHANGED <<pc, parallel, queue, children, registry, invocations, result>> /\ wave' = wave + 1
        /\ pc = "wave" /\ wave <= Len(Waves)
    BY <1>1 DEF SkipWave
  <2>2. \A g \in Waves[wave] : HasResult(g)
    BY <1>1, <1>w, CompleteHasResult, WaveTypes DEF SkipWave, Pending
  <2>3. TypeOK'
    BY <1>1, <1>t, <1>w DEF SkipWave, TypeOK, registry
  <2>4. ResultsBeforeNextWave'
    BY <2>1, <2>2, <1>t, <1>w, ResultsUnchanged DEF ResultsBeforeNextWave
  <2> QED
    BY <2>1, <2>3, <2>4, <1>t, ResultsUnchanged DEF Inv, WaveInv, ChildInv, Own
<1>2. CASE BeginWave
  <2>1. /\ UNCHANGED <<parallel, wave, children, registry, invocations, result>>
        /\ pc = "wave" /\ pc' \in {"launch", "inline"} /\ wave <= Len(Waves) /\ queue' = Pending
    BY <1>2 DEF BeginWave
  <2>2. \A g \in Waves[wave] : HasResult(g) \/ g \in Pending
    BY <2>1, <1>w, CompleteHasResult, WaveTypes DEF Pending
  <2>3. TypeOK'
    BY <1>2, <2>1, <1>t, <1>w, WaveTypes DEF BeginWave, TypeOK, registry, Pending
  <2>4. ResultsBeforeNextWave'
    BY <2>1, <1>t, ResultsUnchanged DEF ResultsBeforeNextWave
  <2>5. WaveInv'
    BY <2>1, <2>2, <1>t, ResultsUnchanged DEF WaveInv, Own, Pending
  <2> QED
    BY <2>1, <2>3, <2>4, <2>5, <1>t, ResultsUnchanged DEF Inv, ChildInv
<1>3. CASE Finish
  BY <1>3, <1>t, StopKeepsInv DEF Finish
<1>4. CASE LaunchFails
  BY <1>4, <1>t, StopKeepsInv DEF LaunchFails
<1>5. CASE AbortWave
  BY <1>5, <1>t, StopKeepsInv DEF AbortWave
<1>6. CASE JoinWave
  <2>1. /\ UNCHANGED <<parallel, queue, registry, invocations, result>> /\ wave' = wave + 1
        /\ pc = "join" /\ pc' = "wave" /\ children' = children \ Own
        /\ wave <= Len(Waves) /\ queue = {}
    BY <1>6, <1>t DEF JoinWave, NextWave, AllExited, WaveInv
  <2>2. ASSUME NEW g \in Waves[wave] PROVE HasResult(g)
    <3>1. CASE HasResult(g)
      BY <3>1
    <3>2. ASSUME NEW c \in Own, c.group = g PROVE HasResult(g)
      BY <3>2, <1>6, <1>t DEF JoinWave, FailedGroups, ChildInv, HasResult, Own
    <3> QED
      BY <3>1, <3>2, <2>1, <1>t DEF WaveInv
  <2>3. TypeOK'
    BY <1>6, <2>1, <1>t, <1>w DEF JoinWave, TypeOK, registry
  <2>4. ResultsBeforeNextWave'
    BY <2>1, <2>2, <1>t, <1>w, ResultsUnchanged DEF ResultsBeforeNextWave
  <2>5. Own' = {}
    BY <2>1 DEF Own
  <2> QED
    BY <2>1, <2>3, <2>4, <2>5, <1>t, ResultsUnchanged DEF Inv, WaveInv, ChildInv
<1>7. ASSUME NEW g \in Group, Launch(g) \/ Call(g) PROVE Inv'
  <2>1. /\ UNCHANGED <<parallel, wave, registry, invocations, result>>
        /\ pc \in {"launch", "inline"} /\ pc' \in {pc, "join"} /\ g \in queue
        /\ children' = children \cup {NewChild(g)} /\ queue' = queue \ {g}
        /\ pc' = "join" => queue' = {}
        /\ pc' = "inline" => pc = "inline" /\ Own = {}
        /\ pc = "inline" => pc' = "inline"
        /\ session' = session /\ worktrees' \subseteq worktrees \cup {g}
    BY <1>7 DEF Launch, Call
  <2>2. invocations > 0 /\ invocations \in Nat
    BY <2>1, <1>t DEF TypeOK, ChildInv
  <2>3. NewChild(g) \in Child
    BY <2>2, <1>t, ChildTypes
  <2>4. NewChild(g).group = g /\ NewChild(g).by = invocations /\ NewChild(g).status = "running"
    BY DEF NewChild
  <2>5. TypeOK'
    BY <2>1, <2>3, <1>t DEF TypeOK, registry
  <2>6. Own' = Own \cup {NewChild(g)}
    BY <2>1, <2>4 DEF Own
  <2>7. WaveInv'
    BY <2>1, <2>4, <2>6, <1>t, ResultsUnchanged DEF WaveInv
  <2>8. ASSUME NEW c \in children', NEW d \in children', c.by = d.by PROVE Together(c, d)
    <3>1. CASE c \in children /\ d \in children
      BY <2>8, <3>1, <1>t DEF ChildInv
    <3>2. CASE c \in Own' /\ d \in Own'
      <4>1. c.group \in Waves[wave] /\ d.group \in Waves[wave] /\ wave \in DOMAIN Waves
        BY <2>1, <2>4, <2>6, <3>2, <1>t, <1>w DEF WaveInv
      <4> QED
        BY <4>1 DEF Together
    <3> QED
      BY <2>1, <2>4, <2>8, <3>1, <3>2 DEF Own
  <2>9. ChildInv'
    <3>1. \A c \in children' : c.status = "ok" => HasResult(c.group)'
      BY <2>1, <2>4, <1>t, ResultsUnchanged DEF ChildInv
    <3>2. \A c, d \in children' : c.by = d.by => Together(c, d)'
      BY <2>8 DEF Together
    <3> QED
      BY <2>1, <2>2, <2>4, <3>1, <3>2, <1>t DEF ChildInv
  <2> QED
    BY <2>1, <2>5, <2>7, <2>9, <1>t, ResultsUnchanged DEF Inv, ResultsBeforeNextWave
<1>8. ASSUME NEW c \in Own, CallReturns(c) PROVE Inv'
  <2>1. CASE c.status = "ok"
    <3>1. /\ UNCHANGED <<parallel, queue, worktrees, registry, session, invocations, result>>
          /\ children' = children \ {c} /\ pc = "inline"
          /\ \/ queue = {} /\ pc' = "wave" /\ wave' = wave + 1
             \/ queue # {} /\ UNCHANGED <<pc, wave>>
      BY <1>8, <2>1 DEF CallReturns
    <3>2. Own = {c} /\ Own' = {} /\ HasResult(c.group)
      BY <3>1, <2>1, <1>t DEF WaveInv, ChildInv, Own
    <3>3. /\ wave <= Len(Waves)
          /\ \A g \in Waves[wave] : HasResult(g) \/ g \in queue
      BY <3>1, <3>2, <1>t DEF WaveInv
    <3>4. TypeOK'
      BY <3>1, <3>3, <1>t, <1>w DEF TypeOK, registry
    <3>5. ResultsBeforeNextWave'
      BY <3>1, <3>3, <1>t, <1>w, ResultsUnchanged DEF ResultsBeforeNextWave
    <3>6. WaveInv'
      BY <3>1, <3>2, <3>3, <1>t, ResultsUnchanged DEF WaveInv
    <3> QED
      BY <3>1, <3>4, <3>5, <3>6, <1>t, ResultsUnchanged DEF Inv, ChildInv
  <2>2. CASE c.status # "ok"
    <3>1. c.status \in {"failed", "raised"} /\ Stop(c.status)
      BY <1>8, <2>2, <1>t DEF CallReturns, Own, TypeOK, Child
    <3>2. PICK how \in {"failed", "raised"} : how = c.status
      BY <3>1
    <3> QED
      BY <3>1, <3>2, StopKeepsInv
  <2> QED
    BY <2>1, <2>2
<1> QED
  BY <1>1, <1>2, <1>3, <1>4, <1>5, <1>6, <1>7, <1>8 DEF Driver

LEMMA InvStep == Inv /\ [Next]_vars => Inv'
<1> SUFFICES ASSUME Inv, [Next]_vars PROVE Inv'
  OBVIOUS
<1> USE StudyAssumption, OptionsAssumption
<1>1. CASE StartAll
  <2>1. /\ invocations' = invocations + 1 /\ invocations < MaxInvocations
        /\ pc' = "wave" /\ parallel' \in BOOLEAN /\ wave' = 1 /\ queue' = {} /\ result' = "none"
        /\ session' \in {session, "live"}
        /\ UNCHANGED <<children, worktrees, registry>>
    BY <1>1 DEF StartAll
  <2>2. TypeOK'
    BY <2>1 DEF Inv, TypeOK, registry
  <2>3. Own' = {} /\ ChildInv'
    BY <2>1, ResultsUnchanged DEF Inv, ChildInv, Own, TypeOK, Child
  <2> QED
    BY <2>1, <2>2, <2>3 DEF Inv, ResultsBeforeNextWave, WaveInv
<1>2. CASE StartFails
  <2>1. /\ pc = "down" /\ invocations' = invocations + 1 /\ invocations < MaxInvocations
        /\ UNCHANGED <<pc, wave, queue, children, worktrees, registry>>
        /\ parallel' \in BOOLEAN /\ result' = "raised" /\ session' \in {session, "live"}
    BY <1>2 DEF StartFails, driver
  <2>2. TypeOK'
    BY <2>1 DEF Inv, TypeOK, registry
  <2>3. ChildInv'
    BY <2>1, ResultsUnchanged DEF Inv, ChildInv, TypeOK, Child
  <2> QED
    BY <2>1, <2>2, <2>3 DEF Inv, ResultsBeforeNextWave, WaveInv
<1>3. CASE Driver
  BY <1>3, DriverKeepsInv
<1>4. CASE Crash
  <2>1. /\ pc' = "down" /\ queue' = {} /\ result' = "crashed" /\ children' \subseteq children
        /\ UNCHANGED <<parallel, wave, worktrees, registry, session, invocations>>
    BY <1>4 DEF Crash, Running
  <2>2. TypeOK'
    BY <2>1 DEF Inv, TypeOK, registry
  <2> QED
    BY <2>1, <2>2, ResultsUnchanged DEF Inv, ResultsBeforeNextWave, WaveInv, ChildInv
<1>5. CASE \E c \in children : RunStep(c)
  BY <1>5, RunStepKeepsInv
<1>6. CASE UNCHANGED vars
  <2>1. UNCHANGED registry
    BY <1>6 DEF vars
  <2> QED
    BY <1>6, <2>1, ResultsUnchanged
       DEF vars, driver, registry, Inv, TypeOK, ResultsBeforeNextWave, WaveInv, ChildInv, Own
<1> QED
  BY <1>1, <1>2, <1>3, <1>4, <1>5, <1>6 DEF Next

LEMMA InitInv == Init => Inv
BY InitTypes, StudyAssumption
   DEF Init, Inv, ResultsBeforeNextWave, WaveInv, ChildInv, Own

LEMMA Invariance == Spec => []Inv
BY InitInv, InvStep, PTL DEF Spec

(* Every variable of the driver, its children and the registry keeps its      *)
(* type, however each invocation is started.                                  *)
THEOREM TypeCorrect == Spec => []TypeOK
<1>1. Inv => TypeOK
  BY DEF Inv
<1> QED
  BY <1>1, Invariance, PTL

(* No resume, crash or tolerated failure takes a study past a dead end.       *)
THEOREM NoWaveOnDeadEnd == Spec => []ResultsBeforeNextWave
<1>1. Inv => ResultsBeforeNextWave
  BY DEF Inv
<1> QED
  BY <1>1, Invariance, PTL

(* Two runs of one invocation are of one wave, for ever: a group beside one   *)
(* it inherits from means an orphan of an earlier invocation.                 *)
THEOREM AnchorsMovedByOrphans == Spec => []OnlyOrphansMoveAnchors
<1>1. Inv => OnlyOrphansMoveAnchors
  <2>1. SUFFICES ASSUME Inv, NEW c \in children, NEW d \in children, c.by = d.by,
                        d.group \in Sources[c.group]
                 PROVE  FALSE
    BY DEF OnlyOrphansMoveAnchors, Running
  <2>2. PICK w \in DOMAIN Waves : {c.group, d.group} \subseteq Waves[w]
    BY <2>1 DEF Inv, ChildInv, Together
  <2>3. w < w
    BY <2>1, <2>2, WavesAreOrdered
  <2>4. w \in Nat
    BY <2>2, StudyAssumption
  <2> QED
    BY <2>3, <2>4
<1> QED
  BY <1>1, Invariance, PTL
==============================================================================
