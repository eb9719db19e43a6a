------------------------------- MODULE Promotion -------------------------------
(******************************************************************************)
(* `hiagentresearch promote`: choose a commit that the study recorded, lay    *)
(* its workdir over a target branch in the operator's own checkout, commit    *)
(* and push without force.  The study goes on recording, others push to the   *)
(* target, the operator works in the checkout between promotions, and a       *)
(* promotion may die at any step and be run again.                            *)
(*                                                                            *)
(* A branch is the sequence of its commits above baseline_ref.  The target    *)
(* may exist at first only here or only on the remote; checkout_or_create     *)
(* asks for a local branch alone.  A dry run, which returns before it changes *)
(* anything, is left out.                                                     *)
(******************************************************************************)
EXTENDS Naturals, Sequences, SequencesExt

CONSTANTS
  Work, Other,   \* the files under workdir, and elsewhere
  Old,           \* the files of baseline_ref
  Candidate,     \* the commits of the study
  Tree,          \* ... their files under workdir
  Score,         \* ... and their anchor metric
  Minimize,      \* lower is better
  Group, Order,  \* the groups without the final merge, and as configured
  TopPolicy,     \* lineage.top_commit_policy of each
  MaxCommits,    \* bound: commits on a branch
  Edited,        \* bound: the files the operator edits
  Mine, Theirs,  \* what the operator and what others write into a file
  None

File == Work \cup Other
Content == Candidate \cup {"old", Mine, Theirs, None}
Commit == [by : {"operator", "team", "promotion"}, of : Candidate \cup {None}, tree : [File -> Content]]

ASSUME PromotionAssumption ==
  /\ Work \cap Other = {} /\ Old \in [File -> {"old", None}]
  /\ Tree \in [Candidate -> [Work -> Content \ {Mine, Theirs}]] /\ Score \in [Candidate -> Nat]
  /\ Order \in Seq(Group) /\ Range(Order) = Group
  /\ TopPolicy \in [Group -> {"best_commit", "last_commit"}]
  /\ Minimize \in BOOLEAN /\ Edited \subseteq File /\ MaxCommits \in Nat
  /\ None \notin Group \cup Candidate \cup Seq(Commit)

VARIABLES
  anchors,       \* the registry: what the policy of each group selects
  pc,            \* the promotion
  group, commit, push,  \* what it was told or has chosen
  seen,          \* observation: the anchors an automatic choice was made from
  head,          \* the branch checked out: the target or another one
  index, work,   \* the operator's checkout
  target, remote \* the target branch here and on the remote, None if there is none

vars == <<anchors, pc, group, commit, push, seen, head, index, work, target, remote>>
choice == <<group, commit, push, seen>>
git == <<head, index, work, target, remote>>

TypeOK ==
  /\ anchors \in [Group -> Candidate \cup {None}]
  /\ pc \in {"idle", "resolve", "guard", "checkout", "overlay", "stage", "commit", "push"}
  /\ group \in Group \cup {None} /\ commit \in Candidate \cup {None} /\ push \in BOOLEAN
  /\ seen \in {None} \cup [Group -> Candidate \cup {None}]
  /\ head \in {"target", "other"} /\ {index, work} \subseteq [File -> Content]
  /\ {target, remote} \subseteq {None} \cup Seq(Commit)
  /\ pc \in {"overlay", "stage", "commit", "push"} => head = "target"
  /\ head = "target" => target # None

Init ==
  /\ anchors = [g \in Group |-> None]
  /\ pc = "idle" /\ group = None /\ commit = None /\ push = FALSE /\ seen = None
  /\ head = "other" /\ index = Old /\ work = Old
  /\ target \in {None, <<>>} /\ remote \in {None, <<>>}

Tip(branch) == IF branch \in {None, <<>>} THEN Old ELSE Last(branch).tree
HeadTree == IF head = "target" THEN Tip(target) ELSE Old
Changed == {f \in File : index[f] # HeadTree[f] \/ work[f] # index[f]}
Staged == {f \in File : index[f] # HeadTree[f]}

------------------------------------------------------------------------------
(* The study.  The best commit of a group only ever gets better.              *)

Better(c, d) == IF Minimize THEN Score[c] < Score[d] ELSE Score[c] > Score[d]

Record(g) ==
  /\ \E c \in Candidate :
       /\ TopPolicy[g] = "best_commit" /\ anchors[g] # None => Better(c, anchors[g])
       /\ anchors' = [anchors EXCEPT ![g] = c]
  /\ UNCHANGED <<pc, choice, git>>

------------------------------------------------------------------------------
(* The operator, between promotions, and the others who push to the target.   *)

Edit(f) ==
  /\ pc = "idle" /\ f \in Edited /\ work' = [work EXCEPT ![f] = Mine]
  /\ UNCHANGED <<anchors, pc, choice, head, index, target, remote>>

Add(f) ==
  /\ pc = "idle" /\ index' = [index EXCEPT ![f] = work[f]]
  /\ UNCHANGED <<anchors, pc, choice, head, work, target, remote>>

Append1(branch, by, c, tree) == Append(branch, [by |-> by, of |-> c, tree |-> tree])

OperatorCommits ==
  /\ pc = "idle" /\ head = "target" /\ Staged # {} /\ Len(target) < MaxCommits
  /\ target' = Append1(target, "operator", None, index)
  /\ UNCHANGED <<anchors, pc, choice, head, index, work, remote>>

DiscardAll ==
  /\ pc = "idle" /\ index' = HeadTree /\ work' = HeadTree
  /\ UNCHANGED <<anchors, pc, choice, head, target, remote>>

Leave ==
  /\ pc = "idle" /\ head = "target" /\ Changed = {}
  /\ head' = "other" /\ index' = Old /\ work' = Old
  /\ UNCHANGED <<anchors, pc, choice, target, remote>>

(* git fetch remote target:target.                                            *)
Fetch ==
  /\ pc = "idle" /\ head = "other" /\ remote # None
  /\ target # None => IsPrefix(target, remote)
  /\ target' = remote
  /\ UNCHANGED <<anchors, pc, choice, head, index, work, remote>>

TeamPushes ==
  /\ remote # None /\ Len(remote) < MaxCommits
  /\ remote' = Append1(remote, "team", None, [f \in File |-> IF f \in Work THEN Theirs ELSE Tip(remote)[f]])
  /\ UNCHANGED <<anchors, pc, choice, head, index, work, target>>

------------------------------------------------------------------------------
(* The promotion.  An error ends it, and so does its death.                   *)

Idle == pc' = "idle" /\ group' = None /\ commit' = None /\ push' = FALSE /\ seen' = None

Crash == pc # "idle" /\ Idle /\ UNCHANGED <<anchors, git>>

(* --group-id, orchestration.promote_from_group, or the strongest anchor.     *)
First(gs) == {g \in gs : \E i \in DOMAIN Order : Order[i] = g /\ \A j \in 1..(i - 1) : Order[j] \notin gs}

Scored == {g \in Group : anchors[g] # None}
StrongestByValue ==                     \* variant: the direction of the metric forgotten
  First({g \in Scored : \A h \in Scored : Score[anchors[g]] >= Score[anchors[h]]})
Strongest == First({g \in Scored : \A h \in Scored : ~Better(anchors[h], anchors[g])})

Promote ==
  /\ pc = "idle" /\ (target # None => Len(target) < MaxCommits)
  /\ pc' = "resolve" /\ push' \in BOOLEAN /\ commit' = None
  /\ \/ group' \in Group /\ seen' = None
     \/ group' \in Strongest /\ seen' = anchors
  /\ UNCHANGED <<anchors, git>>

(* The anchor of the group, read again.  --commit overrides it.               *)
Resolve ==
  /\ pc = "resolve"
  /\ \/ commit' = anchors[group] /\ commit' # None /\ pc' = "guard" /\ UNCHANGED <<group, push, seen>>
     \/ seen = None /\ commit' \in Candidate /\ pc' = "guard" /\ UNCHANGED <<group, push, seen>>
     \/ anchors[group] = None /\ Idle
  /\ UNCHANGED <<anchors, git>>

Go == pc' = "checkout" /\ group' = None /\ seen' = None /\ UNCHANGED <<commit, push>>
GuardStaged ==                          \* variant: only the index is asked
  /\ pc = "guard"
  /\ IF Staged \cap Work # {} THEN Idle ELSE Go
  /\ UNCHANGED <<anchors, git>>
GuardUnstaged ==                        \* variant: the index is not asked
  /\ pc = "guard"
  /\ IF {f \in Work : work[f] # index[f]} # {} THEN Idle ELSE Go
  /\ UNCHANGED <<anchors, git>>
Guard ==
  /\ pc = "guard"
  /\ IF Changed \cap Work # {} THEN Idle ELSE Go
  /\ UNCHANGED <<anchors, git>>

(* git checkout carries what is changed along, or refuses to.                 *)
Carried(tree) == \A f \in Changed : HeadTree[f] = tree[f] \/ index[f] = tree[f]
Switch(tree) ==
  /\ index' = [f \in File |-> IF f \in Changed THEN index[f] ELSE tree[f]]
  /\ work' = [f \in File |-> IF f \in Changed THEN work[f] ELSE tree[f]]

(* checkout_or_create, without sync_to_ref.                                   *)
CheckoutStays ==                        \* variant: created, not switched to
  /\ pc = "checkout" /\ Carried(Tip(target)) /\ pc' = "overlay"
  /\ target' = IF target = None THEN <<>> ELSE target
  /\ UNCHANGED <<anchors, choice, head, index, work, remote>>
Checkout ==
  /\ pc = "checkout"
  /\ IF Carried(Tip(target))
     THEN /\ head' = "target" /\ pc' = "overlay" /\ Switch(Tip(target))
          /\ target' = IF target = None THEN <<>> ELSE target
          /\ UNCHANGED choice
     ELSE Idle /\ UNCHANGED <<head, index, work, target>>
  /\ UNCHANGED <<anchors, remote>>

(* git checkout commit -- workdir writes the files that the commit has.       *)
Laid(c, tree) == [f \in File |-> IF f \in Work /\ Tree[c][f] # None THEN Tree[c][f] ELSE tree[f]]
Overlay ==
  /\ pc = "overlay" /\ pc' = "stage"
  /\ index' = Laid(commit, index) /\ work' = Laid(commit, work)
  /\ UNCHANGED <<anchors, choice, head, target, remote>>

Stage ==
  /\ pc = "stage" /\ pc' = "commit"
  /\ index' = [f \in File |-> IF f \in Work THEN work[f] ELSE index[f]]
  /\ UNCHANGED <<anchors, choice, head, work, target, remote>>

(* The whole index is committed if anything under workdir is staged.          *)
CommitPromotion ==
  /\ pc = "commit"
  /\ target' = IF Staged \cap Work # {} THEN Append1(target, "promotion", commit, index) ELSE target
  /\ IF push THEN pc' = "push" /\ UNCHANGED choice ELSE Idle
  /\ UNCHANGED <<anchors, head, index, work, remote>>

PushForced ==                           \* variant: as research branches are pushed
  /\ pc = "push" /\ Idle /\ remote' = target
  /\ UNCHANGED <<anchors, head, index, work, target>>
Push ==
  /\ pc = "push" /\ Idle
  /\ remote' = IF remote = None \/ IsPrefix(remote, target) THEN target ELSE remote
  /\ UNCHANGED <<anchors, head, index, work, target>>

Study == \E g \in Group : Record(g)
Operator == (\E f \in File : Edit(f) \/ Add(f)) \/ OperatorCommits \/ DiscardAll \/ Leave \/ Fetch
Promotion == Promote \/ Resolve \/ Guard \/ Checkout \/ Overlay \/ Stage \/ CommitPromotion \/ Push
Next == Study \/ Operator \/ TeamPushes \/ Promotion \/ Crash

Spec == Init /\ [][Next]_vars

------------------------------------------------------------------------------
(* What a promotion puts into workdir comes from the commit it names, and     *)
(* where that commit has no file from the branch itself: nothing uncommitted, *)
(* and nothing that a promotion which died has left, gets in with it.         *)
Chosen(branch) ==
  branch # None =>
    \A i \in DOMAIN branch : branch[i].by = "promotion" =>
      \A f \in Work : branch[i].tree[f] = IF Tree[branch[i].of][f] # None THEN Tree[branch[i].of][f]
                                          ELSE Tip(SubSeq(branch, 1, i - 1))[f]
PromotedIsChosen == Chosen(target) /\ Chosen(remote)

(* A promotion never takes an edit of the operator's out of the checkout.     *)
EditsSurvive ==
  [][pc # "idle" => \A f \in Changed : work[f] = Mine => work'[f] = Mine]_vars

(* "protected targets (e.g. promotion onto a release branch) are never        *)
(* force-pushed": what others have pushed and what was committed here stays.  *)
Grows(old, new) == old # None => new # None /\ IsPrefix(old, new)
NothingIsLost == [][Grows(remote, remote') /\ Grows(target, target')]_vars

(* An automatic choice is at least as good as every anchor it was made from,  *)
(* unless the chosen group is one whose later commits may score worse.        *)
ChoiceIsStrongest ==
  seen # None /\ commit # None /\ TopPolicy[group] = "best_commit" =>
    \A g \in Group : seen[g] # None => ~Better(seen[g], commit)
==============================================================================
