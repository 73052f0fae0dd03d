-------------------------- MODULE BuildManifestProofs --------------------------
(***************************************************************************)
(* What a manifest that verifies is worth, for every number of forks, of   *)
(* edits and of verifies.                                                  *)
(*                                                                         *)
(* `changes` counts whatever changes under the tools.  A tool that has     *)
(* seen no change since it began has read, of every checkout it is done    *)
(* with, what is there now: ReadsHold says so of capture, ChecksHold of    *)
(* verify.  A change makes both vacuous, so only the steps of the tool     *)
(* itself have to be looked at.                                            *)
(***************************************************************************)
EXTENDS BuildManifest, TLAPS

Order == 1 .. Len(RepoOrder)

CaptureFields == {"pc", "k", "at", "image", "drift", "key_files", "repo"}
RecordFields  == {"head", "status", "tracked_diff", "listed", "untracked"}

Reading == {"head", "status", "diff", "list", "archive"}
Read    == {"drift", "keys", "publish"}
Checking == {"head", "status", "diff", "untracked", "set"}

\* What the variables are made of; contents stay opaque.
ShapeInv ==
    /\ edits \in Nat /\ changes \in Nat
    /\ DOMAIN capture = CaptureFields /\ DOMAIN capture.repo = Checkouts
    /\ \A c \in Checkouts : DOMAIN capture.repo[c] = RecordFields
    /\ capture.pc \in {"start", "done"} \cup Reading \cup Read
    /\ capture.pc = "start" => capture.k = 1
    /\ capture.k \in Order /\ capture.at \in Nat /\ capture.at <= changes
    /\ DOMAIN archive = Checkouts
    /\ \A c \in Checkouts : archive[c] = [patch |-> archive[c].patch, snapshot |-> archive[c].snapshot]
    /\ verifier = [pc |-> verifier.pc, k |-> verifier.k, at |-> verifier.at]
    /\ verifier.pc \in {"start", "drift", "keys", "PASS", "FAIL"} \cup Checking
    /\ verifier.pc \in {"start", "drift"} => verifier.k = 1
    /\ verifier.k \in Order /\ verifier.at \in Nat /\ verifier.at <= changes

\* A manifest is published once, when capture ends, and verified after that.
PublishInv ==
    /\ manifest = NoManifest \/ manifest.status \in {"PASS", "FAIL"}
    /\ manifest = NoManifest <=> capture.pc # "done"
    /\ manifest = NoManifest => verifier.pc = "start"
    /\ verifier.pc \notin {"start", "FAIL"} => manifest.status = "PASS"

\* No copy of a file that the record does not name.
CopiesInv ==
    /\ capture.pc # "done" => \A c \in Checkouts : capture.repo[c].untracked = archive[c].snapshot
    /\ manifest.status = "PASS" =>
          \A c \in Checkouts : manifest.repositories[c].untracked = Absent => archive[c].snapshot = Absent

\* How far capture has come with the i-th checkout.
Captured(i) == i < capture.k \/ capture.pc \in Read
Reached(i, pcs) == Captured(i) \/ (i = capture.k /\ capture.pc \in pcs)

ReadOf(i) ==
    LET c == RepoOrder[i]   r == capture.repo[RepoOrder[i]] IN
    /\ Reached(i, {"status", "diff", "list", "archive"}) => r.head = tree[c].commit
    /\ Reached(i, {"diff", "list", "archive"}) => r.status = Status(c)
    /\ Reached(i, {"list", "archive"}) => r.tracked_diff = TrackedDiff(c) /\ archive[c].patch = TrackedDiff(c)
    /\ i = capture.k /\ capture.pc = "archive" => r.listed = (tree[c].extra # Absent)
    /\ Captured(i) => r.untracked = tree[c].extra

ReadsHold ==
    /\ capture.image = image
    /\ \A i \in Order : ReadOf(i)
    /\ capture.pc \in {"keys", "publish"} =>
          capture.drift = SourceLockDrift([c \in Checkouts |-> capture.repo[c].head])
    /\ capture.pc = "publish" => capture.key_files = KeyFiles

\* A manifest of the trees as they are.
Current ==
    /\ manifest.image = image /\ manifest.key_files = KeyFiles
    /\ manifest.drift = SourceLockDrift([c \in Checkouts |-> manifest.repositories[c].head])
    /\ \A c \in Checkouts :
          LET r == manifest.repositories[c] IN
          /\ r.head = tree[c].commit /\ r.status = Status(c) /\ r.untracked = tree[c].extra
          /\ r.tracked_diff = TrackedDiff(c) /\ archive[c].patch = TrackedDiff(c)
          /\ archive[c].snapshot = tree[c].extra

\* How far verify has come with the i-th checkout.
Verified(i) == i < verifier.k \/ verifier.pc \in {"keys", "PASS"}
Passed(i, pcs) == Verified(i) \/ (i = verifier.k /\ verifier.pc \in pcs)

CheckOf(i) ==
    LET c == RepoOrder[i]   r == manifest.repositories[RepoOrder[i]] IN
    /\ Passed(i, {"status", "diff", "untracked", "set"}) => r.head = tree[c].commit
    /\ Passed(i, {"untracked", "set"}) => r.tracked_diff = TrackedDiff(c) /\ archive[c].patch = TrackedDiff(c)
    /\ i = verifier.k /\ verifier.pc = "set" /\ r.untracked # Absent => archive[c].snapshot = r.untracked
    /\ Verified(i) => archive[c].snapshot = tree[c].extra

ChecksHold == \A i \in Order : CheckOf(i)

QuietCapture  == capture.pc \in Reading \cup Read /\ capture.at = changes => ReadsHold
QuietManifest == manifest.status = "PASS" /\ capture.at = changes => Current /\ verifier.pc # "FAIL"
QuietVerify   == verifier.pc \notin {"start", "FAIL"} /\ verifier.at = changes => ChecksHold

Inv == ShapeInv /\ PublishInv /\ CopiesInv /\ QuietCapture /\ QuietManifest /\ QuietVerify

--------------------------------------------------------------------------------
\* The checkouts in their order.
LEMMA OrderFacts ==
  /\ Len(RepoOrder) \in Nat /\ Len(RepoOrder) >= 1 /\ 1 \in Order
  /\ \A i \in Order : RepoOrder[i] \in Checkouts
  /\ \A c \in Checkouts : \E i \in Order : RepoOrder[i] = c
<1>1. ForkOrder \in Seq(Forks) /\ Len(ForkOrder) \in Nat
  BY ForksAssumption
<1>2. /\ Len(RepoOrder) = 1 + Len(ForkOrder) /\ RepoOrder[1] = "project"
      /\ \A i \in 1 .. Len(ForkOrder) : RepoOrder[1 + i] = ForkOrder[i]
  <2>1. <<"project">> \in Seq(Checkouts) /\ ForkOrder \in Seq(Checkouts) /\ Len(<<"project">>) = 1
    BY <1>1 DEF Checkouts
  <2> QED
    BY <1>1, <2>1 DEF RepoOrder
<1>3. ASSUME NEW i \in Order PROVE RepoOrder[i] \in Checkouts
  <2>1. CASE i = 1
    BY <1>2, <2>1 DEF Checkouts
  <2>2. CASE i # 1
    <3>1. PICK j \in 1 .. Len(ForkOrder) : i = 1 + j
      BY <1>1, <1>2, <1>3, <2>2 DEF Order
    <3> QED
      BY <1>1, <1>2, <3>1 DEF Checkouts
  <2> QED
    BY <2>1, <2>2
<1>4. ASSUME NEW c \in Checkouts PROVE \E i \in Order : RepoOrder[i] = c
  <2>1. CASE c = "project"
    BY <1>1, <1>2, <2>1 DEF Order
  <2>2. CASE c \in Forks
    <3>1. PICK j \in 1 .. Len(ForkOrder) : c = ForkOrder[j]
      BY <2>2 DEF Forks
    <3>2. 1 + j \in Order
      BY <1>1, <1>2, <3>1 DEF Order
    <3> QED
      BY <1>2, <3>1, <3>2
  <2> QED
    BY <1>4, <2>1, <2>2 DEF Checkouts
<1> QED
  BY <1>1, <1>2, <1>3, <1>4 DEF Order

\* Nothing is read, published or verified yet.
LEMMA InitInv == Init => Inv
<1> SUFFICES ASSUME Init PROVE Inv
  OBVIOUS
<1>1. ShapeInv
  <2>1. DOMAIN capture = CaptureFields /\ DOMAIN capture.repo = Checkouts
        /\ \A c \in Checkouts : DOMAIN capture.repo[c] = RecordFields
    BY DEF Init, CaptureFields, RecordFields, Nothing, Unread
  <2>2. edits \in Nat /\ changes \in Nat /\ capture.at = 0 /\ verifier.at = 0
    BY DEF Init, WorldInit
  <2>3. DOMAIN archive = Checkouts
        /\ \A c \in Checkouts : archive[c] = [patch |-> archive[c].patch, snapshot |-> archive[c].snapshot]
    BY DEF Init, NoArchive
  <2> QED
    BY <2>1, <2>2, <2>3, OrderFacts DEF Init, ShapeInv
<1>2. capture.pc = "start" /\ manifest = NoManifest /\ verifier.pc = "start" /\ manifest.status = "none"
  BY DEF Init, NoManifest
<1>3. PublishInv
  BY <1>2 DEF PublishInv
<1>4. CopiesInv
  BY <1>2 DEF CopiesInv, Init, Nothing, Unread, NoArchive
<1>5. QuietCapture /\ QuietManifest /\ QuietVerify
  BY <1>2 DEF QuietCapture, QuietManifest, QuietVerify, Reading, Read
<1> QED
  BY <1>1, <1>3, <1>4, <1>5 DEF Inv

\* After a change nobody has seen no change.
LEMMA ChangeKeepsInv ==
  ASSUME Inv, edits' \in Nat, changes' = changes + 1, UNCHANGED <<capture, manifest, verifier>>,
         DOMAIN archive' = Checkouts,
         \A c \in Checkouts : /\ archive'[c] = [patch |-> archive'[c].patch, snapshot |-> archive'[c].snapshot]
                              /\ \/ archive'[c].snapshot = archive[c].snapshot
                                 \/ manifest.status = "PASS" /\ archive[c].snapshot # Absent
  PROVE  Inv'
<1>1. /\ changes \in Nat /\ capture.at \in Nat /\ capture.at <= changes
      /\ verifier.at \in Nat /\ verifier.at <= changes
  BY DEF Inv, ShapeInv
<1>2. /\ changes' \in Nat /\ capture.at <= changes' /\ verifier.at <= changes'
      /\ capture.at # changes' /\ verifier.at # changes'
  BY <1>1
<1>3. ShapeInv'
  BY <1>2 DEF Inv, ShapeInv
<1>4. PublishInv'
  BY DEF Inv, PublishInv
<1>5. CopiesInv'
  <2>1. manifest.status = "PASS" => capture.pc = "done"
    BY DEF Inv, PublishInv, NoManifest
  <2> QED
    BY <2>1 DEF Inv, CopiesInv
<1>6. QuietCapture' /\ QuietManifest' /\ QuietVerify'
  BY <1>2 DEF QuietCapture, QuietManifest, QuietVerify
<1> QED
  BY <1>3, <1>4, <1>5, <1>6 DEF Inv

--------------------------------------------------------------------------------
(* capture                                                                 *)

\* A step of capture that ends neither it nor the trees' rest.
LEMMA ReadingKeepsInv ==
  ASSUME Inv, capture.pc # "done", UNCHANGED <<worldVars, manifest, verifier>>,
         DOMAIN capture' = CaptureFields, DOMAIN capture'.repo = Checkouts,
         \A c \in Checkouts : DOMAIN capture'.repo[c] = RecordFields,
         capture'.pc \in Reading \cup Read, capture'.k \in Order, capture'.at \in Nat, capture'.at <= changes,
         DOMAIN archive' = Checkouts,
         \A c \in Checkouts : /\ archive'[c] = [patch |-> archive'[c].patch, snapshot |-> archive'[c].snapshot]
                              /\ capture'.repo[c].untracked = archive'[c].snapshot,
         capture'.at = changes => ReadsHold'
  PROVE  Inv'
<1>1. ShapeInv'
  <2>1. capture'.pc # "start" /\ capture'.pc \in {"start", "done"} \cup Reading \cup Read
    BY DEF Reading, Read
  <2>2. UNCHANGED <<edits, changes, verifier>>
    BY DEF worldVars
  <2> QED
    BY <2>1, <2>2 DEF Inv, ShapeInv
<1>2. capture'.pc # "done" /\ manifest = NoManifest /\ verifier.pc = "start" /\ manifest.status # "PASS"
  BY DEF Inv, PublishInv, Reading, Read, NoManifest
<1>3. PublishInv' /\ CopiesInv'
  BY <1>2 DEF PublishInv, CopiesInv
<1>4. QuietCapture' /\ QuietManifest' /\ QuietVerify'
  BY <1>2 DEF QuietCapture, QuietManifest, QuietVerify, worldVars
<1> QED
  BY <1>1, <1>3, <1>4 DEF Inv

\* What git answers depends on the trees and the patches only.
LEMMA SameAnswers ==
  ASSUME UNCHANGED worldVars
  PROVE  /\ \A c : TrackedDiff(c)' = TrackedDiff(c) /\ Status(c)' = Status(c)
         /\ \A heads : SourceLockDrift(heads)' = SourceLockDrift(heads)
         /\ KeyFiles' = KeyFiles
         /\ tree' = tree /\ image' = image /\ changes' = changes /\ edits' = edits
BY DEF worldVars, TrackedDiff, Status, Patches, KeyFiles, SourceLockDrift

\* One answer goes into the record of one checkout.
LEMMA KeepsField ==
  ASSUME Inv, NEW c \in Checkouts, NEW field \in RecordFields, NEW value, NEW next,
         capture' = [capture EXCEPT !.pc = next, !.repo[c][field] = value]
  PROVE  /\ DOMAIN capture' = CaptureFields /\ DOMAIN capture'.repo = Checkouts
         /\ \A d \in Checkouts : DOMAIN capture'.repo[d] = RecordFields
         /\ capture'.pc = next /\ capture'.k = capture.k /\ capture'.at = capture.at /\ capture'.image = capture.image
         /\ \A d \in Checkouts \ {c} : capture'.repo[d] = capture.repo[d]
         /\ capture'.repo[c][field] = value
         /\ \A x \in RecordFields \ {field} : capture'.repo[c][x] = capture.repo[c][x]
<1>1. /\ DOMAIN capture = CaptureFields /\ DOMAIN capture.repo = Checkouts
      /\ \A d \in Checkouts : DOMAIN capture.repo[d] = RecordFields
  BY DEF Inv, ShapeInv
<1> DEFINE record == [capture.repo[c] EXCEPT ![field] = value]
           repo   == [capture.repo EXCEPT ![c] = record]
<1>2. capture' = [capture EXCEPT !.pc = next, !.repo = repo]
  OBVIOUS
<1>3. /\ DOMAIN record = RecordFields /\ record[field] = value
      /\ \A x \in RecordFields \ {field} : record[x] = capture.repo[c][x]
  BY <1>1
<1> HIDE DEF record
<1>4. /\ DOMAIN repo = Checkouts /\ repo[c] = record
      /\ \A d \in Checkouts \ {c} : repo[d] = capture.repo[d]
  BY <1>1
<1> HIDE DEF repo
<1>5. /\ DOMAIN capture' = CaptureFields /\ capture'.pc = next /\ capture'.k = capture.k /\ capture'.repo = repo
      /\ capture'.at = capture.at /\ capture'.image = capture.image
  BY <1>1, <1>2 DEF CaptureFields
<1> QED
  BY <1>1, <1>3, <1>4, <1>5

\* The reads of one checkout, which leave the archive as it is.
LEMMA GitRead ==
  ASSUME Inv, ReadHead \/ ReadStatus \/ ListUntracked
  PROVE  Inv'
<1>1. PICK c \in Checkouts : c = Repo /\ c = RepoOrder[capture.k] /\ capture.k \in Order
  BY OrderFacts DEF Repo, Inv, ShapeInv
<1>2. PICK pc \in {"head", "status", "list"}, field \in {"head", "status", "listed"}, next \in {"status", "diff", "archive"},
           value \in {tree[c].commit, Status(c), tree[c].extra # Absent} :
         /\ \/ pc = "head" /\ field = "head" /\ next = "status" /\ value = tree[c].commit
            \/ pc = "status" /\ field = "status" /\ next = "diff" /\ value = Status(c)
            \/ pc = "list" /\ field = "listed" /\ next = "archive" /\ value = (tree[c].extra # Absent)
         /\ Keeps(pc, field, value, next)
  BY <1>1 DEF ReadHead, ReadStatus, ListUntracked
<1>3. /\ capture.pc = pc /\ capture' = [capture EXCEPT !.pc = next, !.repo[c][field] = value]
      /\ UNCHANGED <<worldVars, manifest, verifier, archive>>
  BY <1>2, <1>1 DEF Keeps, Captures
<1>4. field \in RecordFields
  BY <1>2 DEF RecordFields
<1>5. /\ DOMAIN capture' = CaptureFields /\ DOMAIN capture'.repo = Checkouts
      /\ \A d \in Checkouts : DOMAIN capture'.repo[d] = RecordFields
      /\ capture'.pc = next /\ capture'.k = capture.k /\ capture'.at = capture.at /\ capture'.image = capture.image
      /\ \A d \in Checkouts \ {c} : capture'.repo[d] = capture.repo[d]
      /\ capture'.repo[c][field] = value
      /\ \A x \in RecordFields \ {field} : capture'.repo[c][x] = capture.repo[c][x]
  BY <1>3, <1>4, KeepsField
<1>6. capture.pc # "done" /\ capture.pc \in Reading /\ capture'.pc \in Reading
  BY <1>2, <1>3, <1>5 DEF Reading
<1>7. ASSUME NEW d \in Checkouts
      PROVE  /\ archive'[d] = [patch |-> archive'[d].patch, snapshot |-> archive'[d].snapshot]
             /\ capture'.repo[d].untracked = archive'[d].snapshot
  BY <1>2, <1>3, <1>5, <1>6 DEF Inv, ShapeInv, CopiesInv, RecordFields
<1>8. ASSUME capture'.at = changes PROVE ReadsHold'
  <2>1. ReadsHold
    BY <1>5, <1>6, <1>8 DEF Inv, QuietCapture
  <2>2. ASSUME NEW i \in Order PROVE ReadOf(i)'
    <3>1. ReadOf(i) /\ ReadOf(capture.k)
      BY <1>1, <2>1 DEF ReadsHold
    <3>2. CASE RepoOrder[i] = c
      <4> DEFINE r == capture.repo[c]
      <4>1. /\ capture'.k = capture.k /\ archive' = archive /\ tree' = tree
            /\ TrackedDiff(c)' = TrackedDiff(c) /\ Status(c)' = Status(c)
        BY <1>3, <1>5, SameAnswers
      <4>2. CASE pc = "head"
        <5>1. /\ capture'.pc = "status" /\ capture'.repo[c].head = tree[c].commit
              /\ capture'.repo[c].status = r.status /\ capture'.repo[c].tracked_diff = r.tracked_diff
              /\ capture'.repo[c].untracked = r.untracked
          BY <1>2, <1>5, <4>2 DEF RecordFields
        <5> QED
          BY <1>3, <3>1, <3>2, <4>1, <4>2, <5>1 DEF ReadOf, Captured, Reached, Read
      <4>3. CASE pc = "status"
        <5>1. /\ capture'.pc = "diff" /\ capture'.repo[c].status = Status(c)
              /\ capture'.repo[c].head = r.head /\ capture'.repo[c].tracked_diff = r.tracked_diff
              /\ capture'.repo[c].untracked = r.untracked
          BY <1>2, <1>5, <4>3 DEF RecordFields
        <5>2. r.head = tree[c].commit
          BY <1>3, <1>1, <3>1, <4>3 DEF ReadOf, Reached
        <5>3. Captured(i)' => /\ r.untracked = tree[c].extra /\ r.tracked_diff = TrackedDiff(c)
                              /\ archive[c].patch = TrackedDiff(c)
          BY <3>1, <3>2, <4>1, <5>1 DEF ReadOf, Reached, Captured, Read
        <5> QED
          BY <3>2, <4>1, <5>1, <5>2, <5>3 DEF ReadOf, Reached
      <4>4. CASE pc = "list"
        <5>1. /\ capture'.pc = "archive" /\ capture'.repo[c].listed = (tree[c].extra # Absent)
              /\ capture'.repo[c].head = r.head /\ capture'.repo[c].tracked_diff = r.tracked_diff
              /\ capture'.repo[c].status = r.status /\ capture'.repo[c].untracked = r.untracked
          BY <1>2, <1>5, <4>4 DEF RecordFields
        <5>2. /\ r.head = tree[c].commit /\ r.status = Status(c)
              /\ r.tracked_diff = TrackedDiff(c) /\ archive[c].patch = TrackedDiff(c)
          BY <1>3, <1>1, <3>1, <4>4 DEF ReadOf, Reached
        <5>3. Captured(i)' => r.untracked = tree[c].extra
          BY <3>1, <3>2, <4>1, <5>1 DEF ReadOf, Captured, Read
        <5> QED
          BY <3>2, <4>1, <5>1, <5>2, <5>3 DEF ReadOf
      <4> QED
        BY <4>2, <4>3, <4>4
    <3>3. CASE RepoOrder[i] # c
      <4>1. capture'.repo[RepoOrder[i]] = capture.repo[RepoOrder[i]] /\ i # capture.k
        BY <1>1, <1>5, <3>3, OrderFacts
      <4> QED
        BY <1>2, <1>3, <1>5, <3>1, <4>1, SameAnswers DEF ReadOf, Captured, Reached, Read
    <3> QED
      BY <3>2, <3>3
  <2> QED
    BY <1>2, <1>3, <1>5, <2>1, <2>2, SameAnswers DEF ReadsHold
<1> QED
  BY <1>3, <1>1, <1>5, <1>6, <1>7, <1>8, ReadingKeepsInv DEF Inv, ShapeInv

\* The diff is read and written beside the record in one step.
LEMMA DiffRead ==
  ASSUME Inv, ReadDiff
  PROVE  Inv'
<1>1. PICK c \in Checkouts : c = Repo /\ c = RepoOrder[capture.k] /\ capture.k \in Order
  BY OrderFacts DEF Repo, Inv, ShapeInv
<1>2. PICK diff : diff = TrackedDiff(c)
  OBVIOUS
<1>3. /\ capture.pc = "diff" /\ capture' = [capture EXCEPT !.pc = "list", !.repo[c]["tracked_diff"] = diff]
      /\ UNCHANGED <<worldVars, manifest, verifier>> /\ archive' = [archive EXCEPT ![c].patch = diff]
  BY <1>1, <1>2 DEF ReadDiff, Captures
<1>4. /\ DOMAIN capture' = CaptureFields /\ DOMAIN capture'.repo = Checkouts
      /\ \A d \in Checkouts : DOMAIN capture'.repo[d] = RecordFields
      /\ capture'.pc = "list" /\ capture'.k = capture.k /\ capture'.at = capture.at /\ capture'.image = capture.image
      /\ \A d \in Checkouts \ {c} : capture'.repo[d] = capture.repo[d]
      /\ capture'.repo[c].tracked_diff = diff
      /\ \A x \in RecordFields \ {"tracked_diff"} : capture'.repo[c][x] = capture.repo[c][x]
  <2> DEFINE record == [capture.repo[c] EXCEPT !.tracked_diff = diff]
             repo   == [capture.repo EXCEPT ![c] = record]
  <2>1. /\ DOMAIN capture = CaptureFields /\ DOMAIN capture.repo = Checkouts
        /\ \A d \in Checkouts : DOMAIN capture.repo[d] = RecordFields
    BY DEF Inv, ShapeInv
  <2>2. capture' = [capture EXCEPT !.pc = "list", !.repo = repo]
    BY <1>3
  <2>3. /\ DOMAIN record = RecordFields /\ record.tracked_diff = diff
        /\ \A x \in RecordFields \ {"tracked_diff"} : record[x] = capture.repo[c][x]
    BY <2>1 DEF RecordFields
  <2> HIDE DEF record
  <2>4. /\ DOMAIN repo = Checkouts /\ repo[c] = record
        /\ \A d \in Checkouts \ {c} : repo[d] = capture.repo[d]
    BY <2>1
  <2> HIDE DEF repo
  <2>5. /\ DOMAIN capture' = CaptureFields /\ capture'.repo = repo
        /\ capture'.pc = "list" /\ capture'.k = capture.k /\ capture'.at = capture.at /\ capture'.image = capture.image
    BY <2>1, <2>2 DEF CaptureFields
  <2> QED
    BY <2>1, <2>3, <2>4, <2>5
<1>5. capture.pc # "done" /\ capture.pc \in Reading /\ capture'.pc \in Reading
  BY <1>3, <1>4 DEF Reading
<1>6. /\ DOMAIN archive' = Checkouts
      /\ archive'[c] = [patch |-> diff, snapshot |-> archive[c].snapshot]
      /\ \A d \in Checkouts \ {c} : archive'[d] = archive[d]
  BY <1>3 DEF Inv, ShapeInv
<1>7. capture'.repo[c].untracked = capture.repo[c].untracked
  BY <1>4 DEF RecordFields
<1>8. ASSUME NEW d \in Checkouts
      PROVE  /\ archive'[d] = [patch |-> archive'[d].patch, snapshot |-> archive'[d].snapshot]
             /\ capture'.repo[d].untracked = archive'[d].snapshot
  BY <1>4, <1>5, <1>6, <1>7 DEF Inv, ShapeInv, CopiesInv
<1>9. ASSUME capture'.at = changes PROVE ReadsHold'
  <2>1. ReadsHold
    BY <1>4, <1>5, <1>9 DEF Inv, QuietCapture
  <2>2. ASSUME NEW i \in Order PROVE ReadOf(i)'
    <3>1. ReadOf(i) /\ ReadOf(capture.k)
      BY <1>1, <2>1 DEF ReadsHold
    <3>2. CASE RepoOrder[i] = c
      <4> DEFINE r == capture.repo[c]
      <4>1. capture'.k = capture.k /\ tree' = tree /\ TrackedDiff(c)' = TrackedDiff(c) /\ Status(c)' = Status(c)
        BY <1>3, <1>4, SameAnswers
      <4>2. /\ capture'.pc = "list" /\ capture'.repo[c].tracked_diff = TrackedDiff(c)
            /\ capture'.repo[c].head = r.head /\ capture'.repo[c].status = r.status
            /\ capture'.repo[c].untracked = r.untracked /\ archive'[c].patch = TrackedDiff(c)
        BY <1>2, <1>4, <1>6 DEF RecordFields
      <4>3. r.head = tree[c].commit /\ r.status = Status(c)
        BY <1>1, <1>3, <3>1 DEF ReadOf, Reached
      <4>4. Captured(i)' => r.untracked = tree[c].extra
        BY <3>1, <3>2, <4>1, <4>2 DEF ReadOf, Captured, Read
      <4> QED
        BY <3>2, <4>1, <4>2, <4>3, <4>4 DEF ReadOf
    <3>3. CASE RepoOrder[i] # c
      <4>1. /\ capture'.repo[RepoOrder[i]] = capture.repo[RepoOrder[i]] /\ i # capture.k
            /\ archive'[RepoOrder[i]] = archive[RepoOrder[i]]
        BY <1>1, <1>4, <1>6, <3>3, OrderFacts
      <4> QED
        BY <1>3, <1>4, <3>1, <4>1, SameAnswers DEF ReadOf, Captured, Reached, Read
    <3> QED
      BY <3>2, <3>3
  <2> QED
    BY <1>3, <1>4, <2>1, <2>2, SameAnswers DEF ReadsHold
<1> QED
  BY <1>1, <1>3, <1>4, <1>5, <1>6, <1>8, <1>9, ReadingKeepsInv DEF Inv, ShapeInv

\* The copy of an untracked file, and the next checkout's turn.
LEMMA FileCopied ==
  ASSUME Inv, ArchiveFile
  PROVE  Inv'
<1>1. PICK c \in Checkouts : c = Repo /\ c = RepoOrder[capture.k] /\ capture.k \in Order
  BY OrderFacts DEF Repo, Inv, ShapeInv
<1>2. PICK copy \in Copied, k \in Order, next \in {"drift", "head"} :
         /\ next = IF capture.k = Len(RepoOrder) THEN "drift" ELSE "head"
         /\ k = IF capture.k = Len(RepoOrder) THEN 1 ELSE capture.k + 1
         /\ capture.pc = "archive"
         /\ capture' = [capture EXCEPT !.pc = next, !.k = k, !.repo[c]["untracked"] = copy]
         /\ UNCHANGED <<worldVars, manifest, verifier>> /\ archive' = [archive EXCEPT ![c].snapshot = copy]
  <2>1. PICK k \in Order : k = IF capture.k = Len(RepoOrder) THEN 1 ELSE capture.k + 1
    BY <1>1, OrderFacts DEF Order
  <2> QED
    BY <1>1, <2>1 DEF ArchiveFile, Captures
<1>3. /\ DOMAIN capture' = CaptureFields /\ DOMAIN capture'.repo = Checkouts
      /\ \A d \in Checkouts : DOMAIN capture'.repo[d] = RecordFields
      /\ capture'.pc = next /\ capture'.k = k /\ capture'.at = capture.at /\ capture'.image = capture.image
      /\ \A d \in Checkouts \ {c} : capture'.repo[d] = capture.repo[d]
      /\ capture'.repo[c].untracked = copy
      /\ \A x \in RecordFields \ {"untracked"} : capture'.repo[c][x] = capture.repo[c][x]
  <2> DEFINE record == [capture.repo[c] EXCEPT !.untracked = copy]
             repo   == [capture.repo EXCEPT ![c] = record]
  <2>1. /\ DOMAIN capture = CaptureFields /\ DOMAIN capture.repo = Checkouts
        /\ \A d \in Checkouts : DOMAIN capture.repo[d] = RecordFields
    BY DEF Inv, ShapeInv
  <2>2. capture' = [capture EXCEPT !.pc = next, !.k = k, !.repo = repo]
    BY <1>2
  <2>3. /\ DOMAIN record = RecordFields /\ record.untracked = copy
        /\ \A x \in RecordFields \ {"untracked"} : record[x] = capture.repo[c][x]
    BY <2>1 DEF RecordFields
  <2> HIDE DEF record
  <2>4. /\ DOMAIN repo = Checkouts /\ repo[c] = record
        /\ \A d \in Checkouts \ {c} : repo[d] = capture.repo[d]
    BY <2>1
  <2> HIDE DEF repo
  <2>5. /\ DOMAIN capture' = CaptureFields /\ capture'.repo = repo
        /\ capture'.pc = next /\ capture'.k = k /\ capture'.at = capture.at /\ capture'.image = capture.image
    BY <2>1, <2>2 DEF CaptureFields
  <2> QED
    BY <2>1, <2>3, <2>4, <2>5
<1>4. capture.pc # "done" /\ capture.pc \in Reading /\ capture'.pc \in Reading \cup Read
  BY <1>2, <1>3 DEF Reading, Read
<1>5. /\ DOMAIN archive' = Checkouts
      /\ archive'[c] = [patch |-> archive[c].patch, snapshot |-> copy]
      /\ \A d \in Checkouts \ {c} : archive'[d] = archive[d]
  BY <1>2 DEF Inv, ShapeInv
<1>6. ASSUME NEW d \in Checkouts
      PROVE  /\ archive'[d] = [patch |-> archive'[d].patch, snapshot |-> archive'[d].snapshot]
             /\ capture'.repo[d].untracked = archive'[d].snapshot
  BY <1>3, <1>4, <1>5 DEF Inv, ShapeInv, CopiesInv
<1>7. ASSUME capture'.at = changes PROVE ReadsHold'
  <2>1. ReadsHold
    BY <1>3, <1>4, <1>7 DEF Inv, QuietCapture
  <2>2. copy = tree[c].extra
    <3>1. capture.repo[c].listed = (tree[c].extra # Absent)
      BY <1>1, <1>2, <2>1 DEF ReadsHold, ReadOf
    <3> QED
      BY <1>1, <1>2, <3>1 DEF Copied
  <2>3. ASSUME NEW i \in Order PROVE ReadOf(i)'
    <3>1. ReadOf(i) /\ ReadOf(capture.k)
      BY <1>1, <2>1 DEF ReadsHold
    <3>2. capture'.pc \in {"drift", "head"} /\ capture.pc = "archive" /\ tree' = tree
      BY <1>2, <1>3, SameAnswers
    <3>3. Captured(i)' => i < capture.k \/ i = capture.k
      <4>1. capture'.pc = next /\ capture'.k = k
        BY <1>3
      <4>2. PICK n \in Nat : n = Len(RepoOrder) /\ n >= 1
        BY OrderFacts
      <4>3. i \in 1 .. n /\ capture.k \in 1 .. n
        BY <1>1, <4>2 DEF Order
      <4>4. CASE capture.k = n
        BY <4>3, <4>4
      <4>5. CASE capture.k # n
        <5>1. next = "head" /\ k = capture.k + 1
          BY <1>2, <4>2, <4>5
        <5>2. capture'.pc = "head" /\ capture'.k = capture.k + 1
          BY <4>1, <5>1
        <5> QED BY <4>3, <5>2 DEF Captured, Read
      <4> QED BY <4>4, <4>5
    <3>4. CASE RepoOrder[i] = c
      <4>1. /\ capture'.repo[c].untracked = tree[c].extra
            /\ capture'.repo[c].head = capture.repo[c].head /\ capture'.repo[c].status = capture.repo[c].status
            /\ capture'.repo[c].tracked_diff = capture.repo[c].tracked_diff /\ archive'[c].patch = archive[c].patch
        BY <1>3, <1>5, <2>2 DEF RecordFields
      <4>2. TrackedDiff(c)' = TrackedDiff(c) /\ Status(c)' = Status(c)
        BY <1>2, SameAnswers
      <4>3. /\ capture.repo[c].head = tree[c].commit /\ capture.repo[c].status = Status(c)
            /\ capture.repo[c].tracked_diff = TrackedDiff(c) /\ archive[c].patch = TrackedDiff(c)
        BY <1>1, <3>1, <3>2 DEF ReadOf, Reached
      <4> QED
        BY <3>2, <3>4, <4>1, <4>2, <4>3 DEF ReadOf
    <3>5. CASE RepoOrder[i] # c
      <4>1. /\ capture'.repo[RepoOrder[i]] = capture.repo[RepoOrder[i]] /\ i # capture.k
            /\ archive'[RepoOrder[i]] = archive[RepoOrder[i]]
        BY <1>1, <1>3, <1>5, <3>5, OrderFacts
      <4>2. Captured(i)' => Captured(i)
        BY <3>3, <4>1 DEF Captured
      <4>3. \A pcs \in SUBSET {"status", "diff", "list", "archive"} : Reached(i, pcs)' => Captured(i)
        BY <3>2, <4>2 DEF Reached
      <4> QED
        BY <1>2, <3>1, <3>2, <4>1, <4>2, <4>3, SameAnswers DEF ReadOf, Reached
    <3> QED
      BY <3>4, <3>5
  <2> QED
    BY <1>2, <1>3, <2>1, <2>3, SameAnswers DEF ReadsHold
<1> QED
  BY <1>1, <1>2, <1>3, <1>4, <1>5, <1>6, <1>7, ReadingKeepsInv DEF Inv, ShapeInv

\* The steps that read no checkout: the start, and what follows the last of them.
LEMMA AroundReads ==
  ASSUME Inv, CaptureStarts \/ RecordDrift \/ RecordKeyFiles
  PROVE  Inv'
<1>1. /\ DOMAIN capture = CaptureFields /\ capture.k \in Order /\ DOMAIN capture.repo = Checkouts
      /\ \A c \in Checkouts : DOMAIN capture.repo[c] = RecordFields
      /\ capture.at \in Nat /\ changes \in Nat /\ capture.at <= changes
  BY DEF Inv, ShapeInv
<1>2. UNCHANGED <<worldVars, manifest, verifier, archive>>
  BY DEF CaptureStarts, RecordDrift, RecordKeyFiles, Captures
<1>3. /\ capture.pc \in {"start", "drift", "keys"} /\ capture.pc # "done"
      /\ DOMAIN capture' = CaptureFields /\ capture'.repo = capture.repo /\ capture'.k = capture.k
      /\ capture'.pc = CASE capture.pc = "start" -> "head" [] capture.pc = "drift" -> "keys" [] capture.pc = "keys" -> "publish"
  BY <1>1 DEF CaptureStarts, RecordDrift, RecordKeyFiles, Captures, CaptureFields
<1>4. capture'.at \in Nat /\ capture'.at <= changes
  <2>1. CaptureStarts => capture'.at = changes
    BY <1>1 DEF CaptureStarts, Captures, CaptureFields
  <2>2. RecordDrift \/ RecordKeyFiles => capture'.at = capture.at
    BY <1>1 DEF RecordDrift, RecordKeyFiles, Captures, CaptureFields
  <2> QED
    BY <1>1, <2>1, <2>2
<1>5. ASSUME capture'.at = changes PROVE ReadsHold'
  <2>1. CASE CaptureStarts
    <3>1. capture.pc = "start" /\ capture.k = 1 /\ capture'.image = image /\ capture'.pc = "head"
      BY <1>1, <2>1 DEF CaptureStarts, Captures, CaptureFields, Inv, ShapeInv
    <3>2. ASSUME NEW i \in Order PROVE ~Captured(i)'
      BY <1>3, <3>1 DEF Captured, Order, Read
    <3>3. \A i \in Order : ReadOf(i)'
      BY <3>1, <3>2 DEF ReadOf, Reached
    <3> QED
      BY <1>2, <3>1, <3>3, SameAnswers DEF ReadsHold
  <2>2. CASE RecordDrift \/ RecordKeyFiles
    <3>1. /\ capture.pc \in {"drift", "keys"} /\ capture'.pc \in {"keys", "publish"}
          /\ capture'.at = capture.at /\ capture'.image = capture.image
      BY <1>1, <2>2 DEF RecordDrift, RecordKeyFiles, Captures, CaptureFields
    <3>2. ReadsHold
      BY <1>5, <3>1 DEF Inv, QuietCapture, Read
    <3>3. ASSUME NEW i \in Order PROVE ReadOf(i)'
      <4>1. ReadOf(i) /\ Captured(i)
        BY <3>1, <3>2 DEF ReadsHold, Captured, Read
      <4> QED
        BY <1>2, <1>3, <3>1, <4>1, SameAnswers DEF ReadOf, Reached
    <3>4. /\ capture'.drift = SourceLockDrift([c \in Checkouts |-> capture'.repo[c].head])
          /\ capture'.pc = "publish" => capture'.key_files = KeyFiles
      <4>1. CASE RecordDrift
        BY <1>1, <1>3, <4>1 DEF RecordDrift, Captures, CaptureFields
      <4>2. CASE RecordKeyFiles
        <5>1. capture.pc = "keys" /\ capture'.drift = capture.drift /\ capture'.key_files = KeyFiles
          BY <1>1, <4>2 DEF RecordKeyFiles, Captures, CaptureFields
        <5> QED
          BY <1>3, <3>2, <5>1 DEF ReadsHold
      <4> QED
        BY <2>2, <4>1, <4>2
    <3> QED
      BY <1>2, <3>1, <3>2, <3>3, <3>4, SameAnswers DEF ReadsHold
  <2> QED
    BY <2>1, <2>2
<1>6. ASSUME NEW c \in Checkouts
      PROVE  /\ archive'[c] = [patch |-> archive'[c].patch, snapshot |-> archive'[c].snapshot]
             /\ capture'.repo[c].untracked = archive'[c].snapshot
  BY <1>2, <1>3 DEF Inv, ShapeInv, CopiesInv
<1>7. capture'.pc \in Reading \cup Read
  BY <1>3 DEF Reading, Read
<1>8. DOMAIN archive' = Checkouts
  BY <1>2 DEF Inv, ShapeInv
<1> QED
  BY <1>1, <1>2, <1>3, <1>4, <1>5, <1>6, <1>7, <1>8, ReadingKeepsInv

\* The end of capture: a manifest that says what was read, or a FAIL.
LEMMA EndsKeepInv ==
  ASSUME Inv, Publish \/ CaptureFails
  PROVE  Inv'
<1>1. /\ DOMAIN capture = CaptureFields /\ capture.k \in Order /\ DOMAIN capture.repo = Checkouts
      /\ capture.at \in Nat /\ changes \in Nat /\ capture.at <= changes
  BY DEF Inv, ShapeInv
<1>2. capture.pc # "done" /\ UNCHANGED <<worldVars, verifier>>
  BY DEF Publish, CaptureFails
<1>3. manifest = NoManifest /\ verifier.pc = "start"
  BY <1>2 DEF Inv, PublishInv
<1>4. /\ DOMAIN capture' = CaptureFields /\ capture'.pc = "done" /\ capture'.repo = Nothing
      /\ capture'.k \in {1, capture.k} /\ capture'.at = capture.at
  BY <1>1 DEF Publish, CaptureFails, CaptureFields
<1>5. DOMAIN Nothing = Checkouts /\ \A c \in Checkouts : DOMAIN Nothing[c] = RecordFields
  BY DEF Nothing, Unread, RecordFields
<1>6. archive' = archive \/ archive' = [c \in Checkouts |-> NoArchive]
  BY DEF Publish, CaptureFails
<1>7. DOMAIN archive' = Checkouts
      /\ \A c \in Checkouts : archive'[c] = [patch |-> archive'[c].patch, snapshot |-> archive'[c].snapshot]
  BY <1>6 DEF Inv, ShapeInv, NoArchive
<1>8. ShapeInv'
  <2>1. UNCHANGED <<edits, changes, verifier>>
    BY <1>2 DEF worldVars
  <2>2. capture'.k \in Order
    BY <1>1, <1>4, OrderFacts
  <2> QED
    BY <1>1, <1>4, <1>5, <1>7, <2>1, <2>2 DEF Inv, ShapeInv
<1>9. manifest'.status \in {"PASS", "FAIL"} /\ manifest' # NoManifest
  BY DEF Publish, CaptureFails, NoManifest
<1>10. PublishInv'
  BY <1>2, <1>3, <1>4, <1>9 DEF PublishInv
<1>11. ASSUME Publish
       PROVE  /\ manifest'.status = "PASS" /\ manifest'.repositories = capture.repo /\ manifest'.drift = capture.drift
              /\ manifest'.key_files = capture.key_files /\ manifest'.image = capture.image
              /\ archive' = archive /\ capture.pc = "publish"
  BY <1>11 DEF Publish
<1>12. CaptureFails => manifest'.status = "FAIL"
  BY DEF CaptureFails
<1>13. CopiesInv'
  <2>1. CASE Publish
    BY <1>2, <1>4, <1>11, <2>1 DEF Inv, CopiesInv
  <2>2. CASE CaptureFails
    BY <1>4, <1>12, <2>2 DEF CopiesInv
  <2> QED
    BY <2>1, <2>2
<1>14. ASSUME Publish, capture.at = changes PROVE Current'
  <2>1. ReadsHold /\ capture.pc = "publish"
    BY <1>11, <1>14 DEF Inv, QuietCapture, Read
  <2>2. ASSUME NEW c \in Checkouts
        PROVE  LET r == manifest'.repositories[c] IN
               /\ r.head = tree[c].commit /\ r.status = Status(c) /\ r.untracked = tree[c].extra
               /\ r.tracked_diff = TrackedDiff(c) /\ archive'[c].patch = TrackedDiff(c)
               /\ archive'[c].snapshot = tree[c].extra
    <3>1. PICK i \in Order : RepoOrder[i] = c
      BY OrderFacts
    <3>2. ReadOf(i) /\ Captured(i)
      BY <2>1 DEF ReadsHold, Captured, Read
    <3>3. capture.repo[c].untracked = archive[c].snapshot
      BY <1>2 DEF Inv, CopiesInv
    <3> QED
      BY <1>11, <1>14, <3>1, <3>2, <3>3 DEF ReadOf, Reached
  <2>3. /\ manifest'.image = image /\ manifest'.key_files = KeyFiles
        /\ manifest'.drift = SourceLockDrift([c \in Checkouts |-> manifest'.repositories[c].head])
    BY <1>11, <1>14, <2>1 DEF ReadsHold
  <2> QED
    BY <1>2, <2>2, <2>3, SameAnswers DEF Current
<1>15. QuietCapture' /\ QuietManifest' /\ QuietVerify'
  <2>1. QuietCapture' /\ QuietVerify'
    BY <1>2, <1>3, <1>4 DEF QuietCapture, QuietVerify, Reading, Read
  <2>2. changes' = changes
    BY <1>2 DEF worldVars
  <2>3. manifest'.status = "PASS" => Publish
    BY <1>12
  <2> QED
    BY <1>2, <1>3, <1>4, <1>14, <2>1, <2>2, <2>3 DEF QuietManifest
<1> QED
  BY <1>8, <1>10, <1>13, <1>15 DEF Inv

--------------------------------------------------------------------------------
(* verify                                                                  *)

\* A step of verify, which writes nothing but its own progress.
LEMMA VerifierKeepsInv ==
  ASSUME Inv, UNCHANGED <<worldVars, capture, manifest, archive>>, manifest # NoManifest,
         NEW pc \in {"start", "drift", "keys", "PASS", "FAIL"} \cup Checking, NEW k \in Order, NEW at \in Nat, at <= changes,
         verifier' = [pc |-> pc, k |-> k, at |-> at],
         pc \in {"start", "drift"} => k = 1,
         pc \notin {"start", "FAIL"} => manifest.status = "PASS",
         manifest.status = "PASS" /\ capture.at = changes /\ Current => pc # "FAIL",
         pc \notin {"start", "FAIL"} /\ at = changes => ChecksHold'
  PROVE  Inv'
<1>1. verifier'.pc = pc /\ verifier'.k = k /\ verifier'.at = at
  OBVIOUS
<1>2. ShapeInv'
  BY <1>1 DEF Inv, ShapeInv, worldVars
<1>3. PublishInv' /\ CopiesInv'
  BY <1>1 DEF Inv, PublishInv, CopiesInv
<1>4. Current' <=> Current
  BY SameAnswers DEF Current
<1>5. QuietCapture'
  <2>1. ReadsHold => ReadsHold'
    <3>1. ASSUME NEW i \in Order, ReadOf(i) PROVE ReadOf(i)'
      BY <3>1, SameAnswers DEF ReadOf, Reached, Captured
    <3> QED
      BY <3>1, SameAnswers DEF ReadsHold
  <2> QED
    BY <2>1, SameAnswers DEF Inv, QuietCapture
<1>6. QuietManifest' /\ QuietVerify'
  BY <1>1, <1>4, SameAnswers DEF Inv, QuietManifest, QuietVerify
<1> QED
  BY <1>2, <1>3, <1>5, <1>6 DEF Inv

\* Where verify is.
LEMMA VerifierShape ==
  ASSUME Inv
  PROVE  /\ verifier = [pc |-> verifier.pc, k |-> verifier.k, at |-> verifier.at]
         /\ verifier.k \in Order /\ verifier.at \in Nat /\ verifier.at <= changes /\ changes \in Nat
         /\ verifier.pc \in {"start", "drift", "keys", "PASS", "FAIL"} \cup Checking
         /\ verifier.pc \in {"start", "drift"} => verifier.k = 1
         /\ RepoOrder[verifier.k] \in Checkouts
BY OrderFacts DEF Inv, ShapeInv

\* A check that fails has seen a manifest that is not of the trees as they are.
LEMMA CheckFails ==
  ASSUME Inv, verifier.pc \in {"drift", "keys"} \cup Checking, UNCHANGED <<worldVars, capture, manifest, archive>>,
         verifier' = [verifier EXCEPT !.pc = "FAIL"], ~Current
  PROVE  Inv'
<1>1. verifier' = [pc |-> "FAIL", k |-> verifier.k, at |-> verifier.at]
  BY VerifierShape
<1>2. manifest # NoManifest
  BY DEF Inv, PublishInv, Checking
<1> QED
  BY <1>1, <1>2, VerifierShape, VerifierKeepsInv

\* A check that holds, of trees that stay, is one more of them.
LEMMA CheckHolds ==
  ASSUME Inv, verifier.pc \in {"drift", "keys"} \cup Checking, UNCHANGED <<worldVars, capture, manifest, archive>>,
         NEW next \in {"keys", "PASS"} \cup Checking, NEW k \in Order,
         verifier' = [pc |-> next, k |-> k, at |-> verifier.at],
         ChecksHold => ChecksHold'
  PROVE  Inv'
<1>1. manifest.status = "PASS" /\ manifest # NoManifest
  BY DEF Inv, PublishInv, NoManifest, Checking
<1>2. next \notin {"start", "drift", "FAIL"}
  BY DEF Checking
<1>3. verifier.at = changes => ChecksHold
  BY DEF Inv, QuietVerify, Checking
<1> QED
  BY <1>1, <1>2, <1>3, VerifierShape, VerifierKeepsInv

\* The steps of verify that check something of one checkout.
LEMMA CheckoutChecked ==
  ASSUME Inv, VerifyHead \/ VerifyStatus \/ VerifyDiff \/ VerifyUntracked \/ VerifyUntrackedSet
  PROVE  Inv'
<1> DEFINE N == Len(RepoOrder)
<1>1. PICK c \in Checkouts, k \in Order : k = verifier.k /\ c = RepoOrder[k] /\ c = Checked
  BY VerifierShape DEF Checked
<1>2. PICK r : r = manifest.repositories[c] /\ r = Recorded
  BY <1>1 DEF Recorded, Checked
<1>3. verifier.pc \in Checking /\ UNCHANGED <<worldVars, capture, manifest, archive>>
  BY DEF VerifyHead, VerifyStatus, VerifyDiff, VerifyUntracked, VerifyUntrackedSet, Requires, Checking
<1>4. ~(k < k)
  BY OrderFacts DEF Order
<1>5. CASE verifier' = [verifier EXCEPT !.pc = "FAIL"] /\ ~Current
  BY <1>3, <1>5, CheckFails
<1>6. ASSUME NEW next \in Checking, verifier' = Then(next), ChecksHold => CheckOf(k)',
             verifier.pc # "set", next # "head"
      PROVE  Inv'
  <2>1. verifier' = [pc |-> next, k |-> k, at |-> verifier.at]
    BY <1>1, <1>6, VerifierShape DEF Then
  <2>2. ASSUME ChecksHold, NEW i \in Order PROVE CheckOf(i)'
    <3>1. CheckOf(i)
      BY <2>2 DEF ChecksHold
    <3>2. CASE i # k
      BY <1>1, <1>3, <1>6, <2>1, <3>1, <3>2, SameAnswers DEF CheckOf, Passed, Verified, Checking
    <3> QED
      BY <1>6, <2>2, <3>2
  <2> QED
    BY <1>3, <2>1, <2>2, CheckHolds DEF ChecksHold
<1>7. CASE VerifyHead
  <2>1. r.head = tree[c].commit => verifier' = Then("status")
    BY <1>1, <1>2, <1>7 DEF VerifyHead, Requires
  <2>2. r.head # tree[c].commit => verifier' = [verifier EXCEPT !.pc = "FAIL"] /\ ~Current
    BY <1>1, <1>2, <1>7 DEF VerifyHead, Requires, Current
  <2>3. ASSUME r.head = tree[c].commit PROVE CheckOf(k)'
    <3>1. verifier'.pc = "status" /\ verifier'.k = k
      BY <1>1, <2>1, <2>3, VerifierShape DEF Then
    <3> QED
      BY <1>1, <1>2, <1>3, <2>3, <3>1, <1>4, SameAnswers DEF CheckOf, Passed, Verified
  <2> QED
    BY <1>5, <1>6, <1>7, <2>1, <2>2, <2>3 DEF VerifyHead, Requires, Checking
<1>8. CASE VerifyStatus
  <2>1. r.status = Status(c) => verifier' = Then("diff")
    BY <1>1, <1>2, <1>8 DEF VerifyStatus, Requires
  <2>2. r.status # Status(c) => verifier' = [verifier EXCEPT !.pc = "FAIL"] /\ ~Current
    BY <1>1, <1>2, <1>8 DEF VerifyStatus, Requires, Current
  <2>3. ASSUME r.status = Status(c), ChecksHold PROVE CheckOf(k)'
    <3>1. verifier'.pc = "diff" /\ verifier'.k = k /\ verifier.pc = "status"
      BY <1>1, <1>8, <2>1, <2>3, VerifierShape DEF Then, VerifyStatus, Requires
    <3>2. r.head = tree[c].commit
      BY <1>1, <1>2, <2>3, <3>1 DEF ChecksHold, CheckOf, Passed
    <3> QED
      BY <1>1, <1>2, <1>3, <3>1, <3>2, <1>4, SameAnswers DEF CheckOf, Passed, Verified
  <2> QED
    BY <1>5, <1>6, <1>8, <2>1, <2>2, <2>3 DEF VerifyStatus, Requires, Checking
<1>9. CASE VerifyDiff
  <2> DEFINE same == archive[c].patch = r.tracked_diff /\ archive[c].patch = TrackedDiff(c)
  <2>1. same => verifier' = Then("untracked")
    BY <1>1, <1>2, <1>9 DEF VerifyDiff, Requires, Archived, Checked
  <2>2. ~same => verifier' = [verifier EXCEPT !.pc = "FAIL"] /\ ~Current
    BY <1>1, <1>2, <1>9 DEF VerifyDiff, Requires, Archived, Checked, Current
  <2>3. ASSUME same, ChecksHold PROVE CheckOf(k)'
    <3>1. verifier'.pc = "untracked" /\ verifier'.k = k /\ verifier.pc = "diff"
      BY <1>1, <1>9, <2>1, <2>3, VerifierShape DEF Then, VerifyDiff, Requires
    <3>2. r.head = tree[c].commit
      BY <1>1, <1>2, <2>3, <3>1 DEF ChecksHold, CheckOf, Passed
    <3> QED
      BY <1>1, <1>2, <1>3, <2>3, <3>1, <3>2, <1>4, SameAnswers DEF CheckOf, Passed, Verified
  <2> QED
    BY <1>5, <1>6, <1>9, <2>1, <2>2, <2>3 DEF VerifyDiff, Requires, Checking
<1>10. CASE VerifyUntracked
  <2> DEFINE same == r.untracked # Absent => tree[c].extra = r.untracked /\ archive[c].snapshot = r.untracked
  <2>1. same => verifier' = Then("set")
    BY <1>1, <1>2, <1>10 DEF VerifyUntracked, Requires, Archived, Checked
  <2>2. ~same => verifier' = [verifier EXCEPT !.pc = "FAIL"] /\ ~Current
    BY <1>1, <1>2, <1>10 DEF VerifyUntracked, Requires, Archived, Checked, Current
  <2>3. ASSUME same, ChecksHold PROVE CheckOf(k)'
    <3>1. verifier'.pc = "set" /\ verifier'.k = k /\ verifier.pc = "untracked"
      BY <1>1, <1>10, <2>1, <2>3, VerifierShape DEF Then, VerifyUntracked, Requires
    <3>2. r.head = tree[c].commit /\ r.tracked_diff = TrackedDiff(c) /\ archive[c].patch = TrackedDiff(c)
      BY <1>1, <1>2, <2>3, <3>1 DEF ChecksHold, CheckOf, Passed
    <3> QED
      BY <1>1, <1>2, <1>3, <2>3, <3>1, <3>2, <1>4, SameAnswers DEF CheckOf, Passed, Verified
  <2> QED
    BY <1>5, <1>6, <1>10, <2>1, <2>2, <2>3 DEF VerifyUntracked, Requires, Checking
<1>11. CASE VerifyUntrackedSet
  <2>1. CASE tree[c].extra # r.untracked
    <3>1. verifier' = [verifier EXCEPT !.pc = "FAIL"] /\ ~Current
      BY <1>1, <1>2, <1>11, <2>1 DEF VerifyUntrackedSet, Requires, Current
    <3> QED
      BY <1>5, <3>1
  <2>2. CASE tree[c].extra = r.untracked
    <3>1. verifier.pc = "set" /\ verifier' = IF k = N THEN Then("keys") ELSE [verifier EXCEPT !.pc = "head", !.k = @ + 1]
      BY <1>1, <1>2, <1>11, <2>2 DEF VerifyUntrackedSet, Requires
    <3>2. PICK next \in {"keys", "head"}, j \in Order :
             /\ verifier' = [pc |-> next, k |-> j, at |-> verifier.at]
             /\ (next = "keys" <=> k = N) /\ (next = "head" => j = k + 1)
      <4>1. CASE k = N
        BY <1>1, <3>1, <4>1, VerifierShape DEF Then
      <4>2. CASE k # N
        <5>1. PICK j \in Order : j = k + 1
          BY <4>2, OrderFacts DEF Order
        <5>2. verifier' = [verifier EXCEPT !.pc = "head", !.k = j]
          BY <1>1, <3>1, <4>2, <5>1, VerifierShape
        <5>3. verifier' = [pc |-> "head", k |-> j, at |-> verifier.at]
          BY <5>2, VerifierShape
        <5> QED
          BY <4>2, <5>1, <5>3
      <4> QED
        BY <4>1, <4>2
    <3>3. ASSUME ChecksHold, NEW i \in Order PROVE CheckOf(i)'
      <4>1. CheckOf(i) /\ CheckOf(k)
        BY <3>3 DEF ChecksHold
      <4>2. archive[c].snapshot = tree[c].extra
        <5>1. r.untracked # Absent => archive[c].snapshot = r.untracked
          BY <1>1, <1>2, <3>1, <4>1 DEF CheckOf
        <5>2. r.untracked = Absent => archive[c].snapshot = Absent
          BY <1>1, <1>2, <3>1 DEF Inv, PublishInv, CopiesInv
        <5> QED
          BY <2>2, <5>1, <5>2
      <4>3. /\ r.head = tree[c].commit /\ r.tracked_diff = TrackedDiff(c) /\ archive[c].patch = TrackedDiff(c)
        BY <1>1, <1>2, <3>1, <4>1 DEF CheckOf, Passed
      <4>4. verifier'.pc = next /\ verifier'.k = j
        BY <3>2
      <4>5. CASE i = k
        BY <1>1, <1>2, <1>3, <4>2, <4>3, <4>4, <4>5, SameAnswers DEF CheckOf
      <4>6. CASE i # k
        <5>1. Verified(i)' => Verified(i)
          <6>1. i \in Nat /\ k \in Nat /\ N \in Nat /\ i <= N /\ k <= N
            BY OrderFacts DEF Order
          <6>2. i < verifier'.k \/ next = "keys" => i < k
            BY <3>2, <4>4, <4>6, <6>1
          <6>3. next \notin {"PASS"} /\ verifier'.pc = next
            BY <3>2, <4>4
          <6> QED
            BY <1>1, <6>2, <6>3 DEF Verified
        <5>2. verifier'.pc \notin {"status", "diff", "untracked", "set"}
          BY <3>2, <4>4
        <5> QED
          BY <1>3, <4>1, <5>1, <5>2, SameAnswers DEF CheckOf, Passed
      <4> QED
        BY <4>5, <4>6
    <3> QED
      BY <1>3, <3>2, <3>3, CheckHolds DEF ChecksHold, Checking
  <2> QED
    BY <2>1, <2>2
<1> QED
  BY <1>7, <1>8, <1>9, <1>10, <1>11

\* The steps of verify that check something of the manifest as a whole, and the next verify.
LEMMA ManifestChecked ==
  ASSUME Inv, VerifyStarts \/ VerifyDrift \/ VerifyKeyFiles \/ VerifyAgain
  PROVE  Inv'
<1>1. /\ verifier.pc \in {"start", "drift", "keys", "PASS", "FAIL"} /\ manifest # NoManifest
      /\ UNCHANGED <<worldVars, capture, manifest, archive>>
  BY DEF VerifyStarts, VerifyDrift, VerifyKeyFiles, VerifyAgain, Requires, Inv, PublishInv
<1>2. ASSUME verifier'.k = 1, verifier'.pc \in {"start", "drift", "head"} PROVE ChecksHold'
  <2>1. ASSUME NEW i \in Order
        PROVE  ~Verified(i)' /\ verifier'.pc \notin {"status", "diff", "untracked", "set"}
    BY <1>2 DEF Verified, Order
  <2> QED
    BY <2>1 DEF ChecksHold, CheckOf, Passed
<1>3. CASE VerifyStarts
  <2>1. verifier.pc = "start" /\ verifier.k = 1
    BY <1>3, VerifierShape DEF VerifyStarts, Requires
  <2>2. CASE manifest.status = "PASS" /\ manifest.image = image
    <3>1. verifier' = [pc |-> "drift", k |-> 1, at |-> changes]
      BY <1>3, <2>1, <2>2, VerifierShape DEF VerifyStarts, Requires
    <3> QED
      BY <1>1, <1>2, <2>2, <3>1, VerifierShape, VerifierKeepsInv, OrderFacts
  <2>3. CASE ~(manifest.status = "PASS" /\ manifest.image = image)
    <3>1. verifier' = [pc |-> "FAIL", k |-> verifier.k, at |-> verifier.at]
      BY <1>3, <2>1, <2>3, VerifierShape DEF VerifyStarts, Requires
    <3>2. ~(manifest.status = "PASS" /\ Current)
      BY <2>3 DEF Current
    <3> QED
      BY <1>1, <3>1, <3>2, VerifierShape, VerifierKeepsInv
  <2> QED
    BY <2>2, <2>3
<1>4. CASE VerifyDrift
  <2> DEFINE same == manifest.drift = SourceLockDrift([c \in Checkouts |-> manifest.repositories[c].head])
  <2>1. verifier.pc = "drift" /\ verifier.k = 1
    BY <1>4, VerifierShape DEF VerifyDrift, Requires
  <2>2. CASE same
    <3>1. verifier' = [pc |-> "head", k |-> 1, at |-> verifier.at]
      BY <1>4, <2>1, <2>2, VerifierShape DEF VerifyDrift, Requires, Then
    <3>2. ChecksHold'
      BY <1>2, <3>1
    <3> QED
      BY <1>1, <2>1, <3>1, <3>2, OrderFacts, CheckHolds DEF Checking
  <2>3. CASE ~same
    <3>1. verifier' = [verifier EXCEPT !.pc = "FAIL"] /\ ~Current
      BY <1>4, <2>3 DEF VerifyDrift, Requires, Current
    <3> QED
      BY <1>1, <2>1, <3>1, CheckFails
  <2> QED
    BY <2>2, <2>3
<1>5. CASE VerifyKeyFiles
  <2>1. verifier.pc = "keys"
    BY <1>5 DEF VerifyKeyFiles, Requires
  <2>2. CASE manifest.key_files = KeyFiles
    <3>1. verifier' = [pc |-> "PASS", k |-> verifier.k, at |-> verifier.at]
      BY <1>5, <2>2, VerifierShape DEF VerifyKeyFiles, Requires, Then
    <3>2. ASSUME ChecksHold, NEW i \in Order PROVE CheckOf(i)'
      <4>1. CheckOf(i) /\ Verified(i)
        BY <2>1, <3>2 DEF ChecksHold, Verified
      <4>2. verifier'.pc = "PASS"
        BY <3>1
      <4> QED
        BY <1>1, <4>1, <4>2, SameAnswers DEF CheckOf, Passed
    <3> QED
      BY <1>1, <2>1, <3>1, <3>2, VerifierShape, CheckHolds DEF ChecksHold
  <2>3. CASE manifest.key_files # KeyFiles
    <3>1. verifier' = [verifier EXCEPT !.pc = "FAIL"] /\ ~Current
      BY <1>5, <2>3 DEF VerifyKeyFiles, Requires, Current
    <3> QED
      BY <1>1, <2>1, <3>1, CheckFails
  <2> QED
    BY <2>2, <2>3
<1>6. CASE VerifyAgain
  <2>1. verifier' = [pc |-> "start", k |-> 1, at |-> 0] /\ 0 <= changes
    BY <1>6, VerifierShape DEF VerifyAgain
  <2> QED
    BY <1>1, <2>1, OrderFacts, VerifierKeepsInv
<1> QED
  BY <1>3, <1>4, <1>5, <1>6

--------------------------------------------------------------------------------
\* The other two tools read, and touch nothing that this is about.
LEMMA OthersKeepInv ==
  ASSUME Inv, UNCHANGED <<worldVars, capture, manifest, archive, verifier>>
  PROVE  Inv'
<1>1. ShapeInv' /\ PublishInv' /\ CopiesInv'
  BY DEF Inv, ShapeInv, PublishInv, CopiesInv, worldVars
<1>2. Current' <=> Current
  BY SameAnswers DEF Current
<1>3. ASSUME NEW i \in Order PROVE (ReadOf(i)' <=> ReadOf(i)) /\ (CheckOf(i)' <=> CheckOf(i))
  <2>1. ReadOf(i)' <=> ReadOf(i)
    BY SameAnswers DEF ReadOf, Reached, Captured
  <2>2. CheckOf(i)' <=> CheckOf(i)
    BY SameAnswers DEF CheckOf, Passed, Verified
  <2> QED
    BY <2>1, <2>2
<1>4. ReadsHold => ReadsHold'
  BY <1>3, SameAnswers DEF ReadsHold
<1>5. ChecksHold => ChecksHold'
  BY <1>3 DEF ChecksHold
<1> QED
  BY <1>1, <1>2, <1>4, <1>5, SameAnswers DEF Inv, QuietCapture, QuietManifest, QuietVerify

\* Every step keeps the inductive invariant.
LEMMA StepInv == Inv /\ [Next]_vars => Inv'
<1> SUFFICES ASSUME Inv, [Next]_vars PROVE Inv'
  OBVIOUS
<1>1. CASE Capture
  BY <1>1, GitRead, DiffRead, FileCopied, AroundReads, EndsKeepInv DEF Capture
<1>2. CASE Verify
  BY <1>2, CheckoutChecked, ManifestChecked DEF Verify
<1>3. CASE Tamper
  <2>1. /\ manifest.status = "PASS" /\ changes' = changes + 1 /\ edits' = edits + 1
        /\ UNCHANGED <<capture, manifest, verifier>>
    BY <1>3 DEF Tamper
  <2>2. PICK c \in Checkouts : \/ archive' = [archive EXCEPT ![c].patch = Torn]
                               \/ archive[c].snapshot # Absent /\ archive' = [archive EXCEPT ![c].snapshot = New]
    BY <1>3 DEF Tamper
  <2>3. /\ DOMAIN archive' = Checkouts
        /\ \A d \in Checkouts \ {c} : archive'[d] = archive[d]
        /\ \/ archive'[c] = [patch |-> Torn, snapshot |-> archive[c].snapshot]
           \/ archive[c].snapshot # Absent /\ archive'[c] = [patch |-> archive[c].patch, snapshot |-> New]
    BY <2>2 DEF Inv, ShapeInv
  <2>4. ASSUME NEW d \in Checkouts
        PROVE  /\ archive'[d] = [patch |-> archive'[d].patch, snapshot |-> archive'[d].snapshot]
               /\ \/ archive'[d].snapshot = archive[d].snapshot
                  \/ manifest.status = "PASS" /\ archive[d].snapshot # Absent
    BY <2>1, <2>3 DEF Inv, ShapeInv
  <2>5. edits' \in Nat
    BY <2>1 DEF Inv, ShapeInv
  <2> QED
    BY <2>1, <2>3, <2>4, <2>5, ChangeKeepsInv
<1>4. CASE (FreezeReads \/ FreezeFails \/ DeriveField) /\ UNCHANGED <<capture, manifest, archive, verifier>>
  <2>1. UNCHANGED worldVars
    BY <1>4 DEF FreezeReads, FreezeFails, DeriveField
  <2> QED
    BY <1>4, <2>1, OthersKeepInv
<1>5. CASE (FreezeWrites \/ Edit) /\ UNCHANGED <<capture, manifest, archive, verifier>>
  <2>1. changes' = changes + 1 /\ edits' \in {edits, edits + 1}
    BY <1>5 DEF FreezeWrites, Edit
  <2>2. edits' \in Nat
    BY <2>1 DEF Inv, ShapeInv
  <2> QED
    BY <1>5, <2>1, <2>2, ChangeKeepsInv DEF Inv, ShapeInv
<1>6. CASE UNCHANGED vars
  BY <1>6, OthersKeepInv DEF vars
<1> QED
  BY <1>1, <1>2, <1>3, <1>4, <1>5, <1>6 DEF Next

\* The inductive invariant holds at all times.
LEMMA SpecInv == Spec => []Inv
<1>1. Init => Inv
  BY InitInv
<1>2. Inv /\ [Next]_vars => Inv'
  BY StepInv
<1> QED
  BY <1>1, <1>2, PTL DEF Spec

--------------------------------------------------------------------------------
\* verify_manifest: whatever is edited, staged, committed or tampered with while either tool
\* reads, a verify that saw no change itself passes only a manifest that has the commits of
\* the trees, beside patches and files that have their contents.
THEOREM VerifiedReproducesTrees == Spec => []VerifiedReproduces
<1>1. ASSUME Inv PROVE VerifiedReproduces
  <2>1. SUFFICES ASSUME verifier.pc = "PASS", verifier.at = changes, NEW c \in Checkouts
                 PROVE  /\ manifest.repositories[c].head = tree[c].commit
                        /\ archive[c] = [patch |-> TrackedDiff(c), snapshot |-> tree[c].extra]
    BY DEF VerifiedReproduces
  <2>2. PICK i \in Order : RepoOrder[i] = c
    BY OrderFacts
  <2>3. CheckOf(i) /\ Verified(i)
    BY <1>1, <2>1 DEF Inv, QuietVerify, ChecksHold, Verified
  <2>4. /\ manifest.repositories[c].head = tree[c].commit
        /\ archive[c].patch = TrackedDiff(c) /\ archive[c].snapshot = tree[c].extra
    BY <2>2, <2>3 DEF CheckOf, Passed
  <2>5. archive[c] = [patch |-> archive[c].patch, snapshot |-> archive[c].snapshot]
    BY <1>1 DEF Inv, ShapeInv
  <2> QED
    BY <2>4, <2>5
<1> QED
  BY <1>1, SpecInv, PTL

\* capture_manifest: what it published without a change in between, verify accepts for as
\* long as nothing changes.
THEOREM QuietCaptureIsAccepted == Spec => []QuietCaptureVerifies
<1>1. Inv => QuietCaptureVerifies
  BY DEF Inv, PublishInv, QuietManifest, QuietCaptureVerifies
<1> QED
  BY <1>1, SpecInv, PTL

\* The three tools: when the manifest, the frozen patches and the provenance record all verify
\* at one moment, their digests of a fork's delta, and its revisions, are the same.
THEOREM RecordsAgree == Spec => []OneTreeInAllRecords
<1>1. ASSUME Inv PROVE OneTreeInAllRecords
  <2>1. SUFFICES ASSUME verifier.pc = "PASS", verifier.at = changes, FreezeVerifies,
                        ProvenanceMatches({"tracked_diff", "dirty_files", "revision"}), NEW f \in Forks
                 PROVE  /\ manifest.repositories[f].tracked_diff = frozen[f]
                        /\ deriver.source[f][1] = frozen[f]
                        /\ deriver.source[f][3] = manifest.repositories[f].head
    BY DEF OneTreeInAllRecords
  <2>2. PICK i \in Order : RepoOrder[i] = f
    BY OrderFacts DEF Checkouts
  <2>3. CheckOf(i) /\ Verified(i)
    BY <1>1, <2>1 DEF Inv, QuietVerify, ChecksHold, Verified
  <2>4. manifest.repositories[f].head = tree[f].commit /\ manifest.repositories[f].tracked_diff = TrackedDiff(f)
    BY <2>2, <2>3 DEF CheckOf, Passed
  <2>5. frozen[f] = TrackedDiff(f)
    BY <2>1 DEF FreezeVerifies, ForkDelta
  <2>6. deriver.source[f][1] = TrackedDiff(f) /\ deriver.source[f][3] = tree[f].commit
    <3>1. Len(Fields) = 3 /\ Fields[1] = "tracked_diff" /\ Fields[3] = "revision"
      BY DEF Fields
    <3>2. 1 \in 1 .. Len(Fields) /\ 3 \in 1 .. Len(Fields)
      BY <3>1
    <3>3. \A n \in {1, 3} : deriver.source[f][n] = Identity(f)[Fields[n]]
      BY <2>1, <3>1, <3>2 DEF ProvenanceMatches
    <3>4. Identity(f)["tracked_diff"] = TrackedDiff(f) /\ Identity(f)["revision"] = tree[f].commit
      BY DEF Identity
    <3> QED
      BY <3>1, <3>3, <3>4
  <2> QED
    BY <2>4, <2>5, <2>6
<1> QED
  BY <1>1, SpecInv, PTL
================================================================================
