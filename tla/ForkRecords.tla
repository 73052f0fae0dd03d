------------------------------ MODULE ForkRecords ------------------------------
(***************************************************************************)
(* The three checkouts of a build and two of the tools that record them:   *)
(* freeze_fork_delta.py keeps each fork's tracked delta as a patch in the  *)
(* project, report_fork_provenance.py derives an identity of each fork     *)
(* and compares a recorded one.  Both read git several times while the     *)
(* trees go on changing.                                                   *)
(*                                                                         *)
(* A checkout has one file that git tracks, in HEAD, in the index and in   *)
(* the working tree, and one that it does not.  A content is a number.     *)
(* What the project pins in source.lock is a function of its tracked       *)
(* content: content c pins commit c of either fork.                        *)
(***************************************************************************)
EXTENDS Naturals, Sequences

CONSTANTS ForkOrder,     \* the forks, in the order in which the tools read them
          MaxEdits       \* bound: changes by anybody but the tools

Forks == {ForkOrder[i] : i \in 1 .. Len(ForkOrder)}
Checkouts == {"project"} \cup Forks

ASSUME ForksAssumption == MaxEdits \in Nat /\ ForkOrder \in Seq(Forks) /\ "project" \notin Forks

VARIABLES tree,      \* [Checkouts -> commit, and the contents of HEAD, index, working tree and untracked file]
          frozen,    \* [Forks -> the patch in scripts/carla/patches]
          image,     \* the toolchain image that the caller declares
          freezer,   \* one run of `freeze`
          deriver,   \* one run of report_fork_provenance.py --output
          edits,
          changes    \* how often anything of the above has changed, by whomever

worldVars == <<tree, frozen, image, edits, changes>>

NoPatch == << >>
Absent == 0
Torn == <<"torn">>

\* Somebody has worked in every checkout, and may have staged it.
WorldInit ==
    /\ tree \in [Checkouts -> {[commit |-> 0, head |-> 0, index |-> index, work |-> work, extra |-> Absent] :
                                 work \in {0, 1}, index \in {0, 1}}]
    /\ \A c \in Checkouts : tree[c].index \in {tree[c].head, tree[c].work}
    /\ tree["project"].work = 0
    /\ frozen = [f \in Forks |-> NoPatch]
    /\ image = 0 /\ edits = 0 /\ changes = 0

--------------------------------------------------------------------------------
(* What git answers.                                                       *)

\* The patches are files of the project.
Patches(c) == IF c = "project" THEN frozen ELSE [f \in Forks |-> NoPatch]

\* git diff --binary HEAD: from HEAD to the working tree, staged or not.
TrackedDiff(c) == <<tree[c].head, tree[c].work, Patches(c)>>

\* git status --porcelain: which files differ, and where.
Status(c) == [staged    |-> tree[c].head # tree[c].index,
              unstaged  |-> tree[c].index # tree[c].work,
              untracked |-> tree[c].extra # Absent,
              patched   |-> {f \in Forks : Patches(c)[f] # NoPatch}]

\* describe_source counts its lines.
DirtyCounts(c) == <<Status(c).staged \/ Status(c).unstaged, Status(c).untracked>>

--------------------------------------------------------------------------------
(* freeze_fork_delta.py                                                    *)

FreezeInit == freezer = [k |-> 1, diff |-> NoPatch]

\* Mutant of ForkDelta: git diff without HEAD: what is staged is left out.
ForkDeltaFromIndex(f) == <<tree[f].index, tree[f].work, Patches(f)>>

ForkDelta(f) == TrackedDiff(f)

\* The delta of one fork is read,
FreezeReads ==
    /\ freezer.k <= Len(ForkOrder) /\ freezer.diff = NoPatch
    /\ freezer' = [freezer EXCEPT !.diff = ForkDelta(ForkOrder[freezer.k])]
    /\ UNCHANGED <<worldVars, deriver>>

\* and written over the old patch, or the write is cut off.
FreezeWrites ==
    /\ freezer.diff # NoPatch
    /\ \E patch \in {freezer.diff, Torn} :
        /\ frozen' = [frozen EXCEPT ![ForkOrder[freezer.k]] = patch]
        /\ freezer' = [k |-> IF patch = Torn THEN Len(ForkOrder) + 1 ELSE freezer.k + 1, diff |-> NoPatch]
    /\ changes' = changes + 1
    /\ UNCHANGED <<tree, image, edits, deriver>>

\* git refuses, a patch is no delta, or the file cannot be opened: the run ends there,
\* with the forks before this one frozen.
FreezeFails ==
    /\ freezer.k <= Len(ForkOrder)
    /\ freezer' = [k |-> Len(ForkOrder) + 1, diff |-> NoPatch]
    /\ UNCHANGED <<worldVars, deriver>>

\* verify: the patch against the delta of now; without a patch there is no verdict.
FreezeVerifies == \A f \in Forks : frozen[f] # NoPatch /\ frozen[f] = ForkDelta(f)

--------------------------------------------------------------------------------
(* report_fork_provenance.py                                               *)

\* describe_source, one git command after the other.
Fields == <<"tracked_diff", "dirty_files", "revision">>

Identity(f) == [tracked_diff |-> TrackedDiff(f), dirty_files |-> DirtyCounts(f), revision |-> tree[f].commit]

DeriveInit == deriver = [k |-> 1, source |-> [f \in Forks |-> << >>]]

Derived == deriver.k > Len(ForkOrder)

DeriveField ==
    LET f == ForkOrder[deriver.k]   read == Len(deriver.source[f]) + 1 IN
    /\ ~Derived
    /\ deriver' = [k      |-> IF read = Len(Fields) THEN deriver.k + 1 ELSE deriver.k,
                   source |-> [deriver.source EXCEPT ![f] = Append(@, Identity(f)[Fields[read]])]]
    /\ UNCHANGED <<worldVars, freezer>>

\* compare: every field that the record carries, against the trees of now.  An older
\* record has a revision and no more.
ProvenanceMatches(carried) ==
    /\ Derived
    /\ \A f \in Forks, i \in 1 .. Len(Fields) :
          Fields[i] \in carried => deriver.source[f][i] = Identity(f)[Fields[i]]

--------------------------------------------------------------------------------
(* Whoever works in the checkouts.                                         *)

New == edits + 2

Edited(c) == {[tree[c] EXCEPT !.work = New],                                     \* edit
              [tree[c] EXCEPT !.index = tree[c].work],                                 \* git add
              [tree[c] EXCEPT !.commit = edits + 1, !.head = tree[c].index],     \* git commit
              [tree[c] EXCEPT !.commit = edits + 1],                             \* a commit of other files
              [tree[c] EXCEPT !.index = tree[c].head, !.work = tree[c].head],    \* git checkout
              [tree[c] EXCEPT !.extra = New],
              [tree[c] EXCEPT !.extra = Absent]}

Edit ==
    /\ edits < MaxEdits /\ edits' = edits + 1 /\ changes' = changes + 1
    /\ \/ /\ \E c \in Checkouts : \E new \in Edited(c) \ {tree[c]} : tree' = [tree EXCEPT ![c] = new]
          /\ UNCHANGED image
       \/ image' = New /\ UNCHANGED tree
    /\ UNCHANGED <<frozen, freezer, deriver>>
================================================================================
