----------------------------- MODULE BuildManifest -----------------------------
(***************************************************************************)
(* capture_build_manifest.py: capture reads the three checkouts, one git   *)
(* command after the other, archives what it read and publishes a          *)
(* manifest; verify reads everything again.  The trees change meanwhile,   *)
(* and so do the archived copies.                                          *)
(*                                                                         *)
(* The artifact root is ignored by git, as the default one is.             *)
(***************************************************************************)
EXTENDS ForkRecords

RepoOrder == <<"project">> \o ForkOrder

VARIABLES capture,    \* one capture: what it has read so far
          manifest,   \* manifest.json, once it is published
          archive,    \* [Checkouts -> the patch and the untracked file beside it]
          verifier    \* a verify, and its verdict

vars == <<worldVars, freezer, deriver, capture, manifest, archive, verifier>>

NoManifest == [status |-> "none"]

\* The pins of source.lock against the heads that the manifest records.
SourceLockDrift(heads) == {f \in Forks : heads[f] # tree["project"].work}

\* Makefile, compose files, scripts/carla with its patches, source.lock and ledger.
KeyFiles == <<tree["project"].work, frozen>>

Unread == [head |-> 0, status |-> << >>, tracked_diff |-> << >>, listed |-> FALSE, untracked |-> Absent]

Nothing == [c \in Checkouts |-> Unread]
NoArchive == [patch |-> << >>, snapshot |-> Absent]

Init ==
    /\ WorldInit /\ FreezeInit /\ DeriveInit
    /\ capture = [pc |-> "start", k |-> 1, at |-> 0, image |-> 0, drift |-> {}, key_files |-> << >>,
                  repo |-> Nothing]
    /\ manifest = NoManifest
    /\ archive = [c \in Checkouts |-> NoArchive]
    /\ verifier = [pc |-> "start", k |-> 1, at |-> 0]

--------------------------------------------------------------------------------
(* capture                                                                 *)

Repo == RepoOrder[capture.k]

Captures(pc, new) ==
    /\ capture.pc = pc
    /\ capture' = new
    /\ UNCHANGED <<worldVars, freezer, deriver, manifest, verifier>>

\* One answer of git is kept.
Keeps(pc, field, value, next) ==
    /\ Captures(pc, [capture EXCEPT !.pc = next, !.repo[Repo][field] = value])
    /\ UNCHANGED archive

CaptureStarts ==
    /\ Captures("start", [capture EXCEPT !.pc = "head", !.at = changes, !.image = image])
    /\ UNCHANGED archive

ReadHead == Keeps("head", "head", tree[Repo].commit, "status")

ReadStatus == Keeps("status", "status", Status(Repo), "diff")

\* Mutant of ReadDiff: git diff without HEAD: what is staged is left out.
ReadDiffFromIndex ==
    LET diff == <<tree[Repo].index, tree[Repo].work, Patches(Repo)>> IN
    /\ Captures("diff", [capture EXCEPT !.pc = "list", !.repo[Repo].tracked_diff = diff])
    /\ archive' = [archive EXCEPT ![Repo].patch = diff]

\* git/<repo>.tracked.patch is written as it is read.
ReadDiff ==
    /\ Captures("diff", [capture EXCEPT !.pc = "list", !.repo[Repo].tracked_diff = TrackedDiff(Repo)])
    /\ archive' = [archive EXCEPT ![Repo].patch = TrackedDiff(Repo)]

ListUntracked == Keeps("list", "listed", tree[Repo].extra # Absent, "archive")

\* _archive_file: the copy of a file that was listed is of the file as it is by now; a file
\* that has gone, or that changes under the copying, is an error (CaptureFails).
Copied == IF capture.repo[Repo].listed THEN {tree[Repo].extra} \ {Absent} ELSE {Absent}

\* The copy and the record of it; then the next checkout's turn.
ArchiveFile == \E copy \in Copied :
    /\ Captures("archive",
          [capture EXCEPT !.pc = IF capture.k = Len(RepoOrder) THEN "drift" ELSE "head",
                          !.k = IF capture.k = Len(RepoOrder) THEN 1 ELSE capture.k + 1,
                          !.repo[Repo].untracked = copy])
    /\ archive' = [archive EXCEPT ![Repo].snapshot = copy]

RecordDrift ==
    /\ Captures("drift", [capture EXCEPT !.pc = "keys",
                             !.drift = SourceLockDrift([c \in Checkouts |-> capture.repo[c].head])])
    /\ UNCHANGED archive

\* _validate_change_ledger and _key_files.
RecordKeyFiles ==
    /\ Captures("keys", [capture EXCEPT !.pc = "publish", !.key_files = KeyFiles])
    /\ UNCHANGED archive

\* Any ManifestError or OSError: what there is is published as a FAIL, which nobody uses.
CaptureFails ==
    /\ capture.pc \notin {"publish", "done"}
    /\ manifest' = [status |-> "FAIL"]
    /\ capture' = [capture EXCEPT !.pc = "done", !.k = 1, !.repo = Nothing]
    /\ archive' = [c \in Checkouts |-> NoArchive]
    /\ UNCHANGED <<worldVars, freezer, deriver, verifier>>

\* The temporary directory is renamed to one of a new name.
Publish ==
    /\ capture.pc = "publish"
    /\ manifest' = [status |-> "PASS", repositories |-> capture.repo, drift |-> capture.drift,
                    key_files |-> capture.key_files, image |-> capture.image]
    /\ capture' = [capture EXCEPT !.pc = "done", !.repo = Nothing]
    /\ UNCHANGED <<worldVars, freezer, deriver, archive, verifier>>

--------------------------------------------------------------------------------
(* verify                                                                  *)

Recorded == manifest.repositories[RepoOrder[verifier.k]]
Checked == RepoOrder[verifier.k]
Archived == archive[RepoOrder[verifier.k]]

\* One _require after its reads.
Requires(pc, condition, new) ==
    /\ verifier.pc = pc
    /\ verifier' = IF condition THEN new ELSE [verifier EXCEPT !.pc = "FAIL"]
    /\ UNCHANGED <<worldVars, freezer, deriver, capture, manifest, archive>>

Then(pc) == [verifier EXCEPT !.pc = pc]

VerifyStarts ==
    /\ manifest # NoManifest
    /\ Requires("start", manifest.status = "PASS" /\ manifest.image = image,
                [verifier EXCEPT !.pc = "drift", !.at = changes])

VerifyDrift ==
    Requires("drift", manifest.drift = SourceLockDrift([c \in Checkouts |-> manifest.repositories[c].head]),
             Then("head"))

VerifyHead == Requires("head", Recorded.head = tree[Checked].commit, Then("status"))

VerifyStatus == Requires("status", Recorded.status = Status(Checked), Then("diff"))

\* Mutant of VerifyDiff: the archived patch is not read.
VerifyDiffByRecord ==
    Requires("diff", Recorded.tracked_diff = TrackedDiff(Checked), Then("untracked"))

\* The archived patch has the digest of the record and the bytes of the diff of now.
VerifyDiff ==
    Requires("diff", Archived.patch = Recorded.tracked_diff /\ Archived.patch = TrackedDiff(Checked),
             Then("untracked"))

\* Every untracked file of the record, live and archived.
VerifyUntracked ==
    Requires("untracked",
             Recorded.untracked # Absent =>
                 tree[Checked].extra = Recorded.untracked /\ Archived.snapshot = Recorded.untracked,
             Then("set"))

\* And no other.
VerifyUntrackedSet ==
    Requires("set", tree[Checked].extra = Recorded.untracked,
             IF verifier.k = Len(RepoOrder) THEN Then("keys")
             ELSE [verifier EXCEPT !.pc = "head", !.k = @ + 1])

VerifyKeyFiles == Requires("keys", manifest.key_files = KeyFiles, Then("PASS"))

\* Somebody verifies again.
VerifyAgain ==
    /\ verifier.pc \in {"PASS", "FAIL"} /\ manifest # NoManifest
    /\ verifier' = [pc |-> "start", k |-> 1, at |-> 0]
    /\ UNCHANGED <<worldVars, freezer, deriver, capture, manifest, archive>>

--------------------------------------------------------------------------------
\* An archived copy is changed.
Tamper ==
    /\ manifest.status = "PASS" /\ edits < MaxEdits
    /\ edits' = edits + 1 /\ changes' = changes + 1
    /\ \E c \in Checkouts :
          \/ archive' = [archive EXCEPT ![c].patch = Torn]
          \/ archive[c].snapshot # Absent /\ archive' = [archive EXCEPT ![c].snapshot = New]
    /\ UNCHANGED <<tree, frozen, image, freezer, deriver, capture, manifest, verifier>>

Capture ==
    \/ CaptureStarts \/ ReadHead \/ ReadStatus \/ ReadDiff \/ ListUntracked \/ ArchiveFile
    \/ RecordDrift \/ RecordKeyFiles \/ CaptureFails \/ Publish

Verify ==
    \/ VerifyStarts \/ VerifyDrift \/ VerifyHead \/ VerifyStatus \/ VerifyDiff
    \/ VerifyUntracked \/ VerifyUntrackedSet \/ VerifyKeyFiles \/ VerifyAgain

Next ==
    \/ Capture \/ Verify \/ Tamper
    \/ (FreezeReads \/ FreezeWrites \/ FreezeFails \/ DeriveField \/ Edit) /\ UNCHANGED <<capture, manifest, archive, verifier>>

Spec == Init /\ [][Next]_vars

--------------------------------------------------------------------------------
\* A verify that saw no change since it began passes only a manifest from which the
\* trees can be made again: their commits, with the archived patch and the archived
\* files, however torn the reads of capture were.
VerifiedReproduces ==
    verifier.pc = "PASS" /\ verifier.at = changes =>
        \A c \in Checkouts :
            /\ manifest.repositories[c].head = tree[c].commit
            /\ archive[c] = [patch |-> TrackedDiff(c), snapshot |-> tree[c].extra]

\* A manifest that was captured while nothing changed verifies until something does.
QuietCaptureVerifies ==
    manifest # NoManifest /\ capture.at = changes =>
        (verifier.pc = "FAIL" => manifest.status = "FAIL")

\* Three records that verify at one moment are of one tree: the digest of a fork's delta
\* is the same in the manifest, in the frozen patch and in the provenance.
OneTreeInAllRecords ==
    /\ verifier.pc = "PASS" /\ verifier.at = changes
    /\ FreezeVerifies
    /\ ProvenanceMatches({"tracked_diff", "dirty_files", "revision"})
    => \A f \in Forks :
          /\ manifest.repositories[f].tracked_diff = frozen[f]
          /\ deriver.source[f][1] = frozen[f]
          /\ deriver.source[f][3] = manifest.repositories[f].head
================================================================================
