----------------------------- MODULE EntryReportProofs -----------------------------
(***************************************************************************)
(* What a published entry report says, for any number of finalisers, edits *)
(* and signals.  A version is never written twice: an input that once      *)
(* differed from what was pinned differs for good (Drift), so a digest that *)
(* equals the pinned one speaks for every earlier reading of the file.     *)
(* The last part is about a run that nobody disturbs: there the finaliser  *)
(* of the trap finds every check passed and every digest twice the same.   *)
(***************************************************************************)
EXTENDS EntryReport, SequenceTheorems, TLAPS

Early == {"sum", "capture"}
Pinned == {"verify-1", "install", "verify-2", "verify-3", "start", "gate", "verify-4"}
Writing == {"snapshot", "recheck", "recheck-child", "late", "link"}

\* An input that differed once from what was pinned differs for good.
Drift(version, l) == version = identity.files[l] \/ input[l] # identity.files[l]

\* The wrapper's order, the gate's after it, and what was read when.
FlowInv ==
    /\ wrapper \in Early => gate = "none" /\ output = NoReport /\ \A f \in Finalizers : fin[f] = Locals
    /\ wrapper \in Pinned => identity # Missing
    /\ wrapper \in Pinned \ {"gate", "verify-4"} => gate = "none"
    /\ gate = "none" => child = Missing
    /\ gate # "none" => identity # Missing
    /\ \A l \in Labels : input[l] # Missing => input[l] <= edits
    /\ identity # Missing => \A l \in Labels : identity.files[l] <= edits
    /\ gate # "none" \/ wrapper \in {"verify-2", "verify-3", "start"} => Drift(used["wheel"], "wheel")
    /\ gate # "none" => Drift(used["evaluator"], "evaluator")
    /\ child # Missing => Drift(child.evidence.evaluator, "evaluator")
    /\ wrapper \notin {"finalize", "exited", "killed"} => fin[Trap].pc = "idle"

\* The file of this label is the one that was pinned, read, and named by the gate's report.
Sound(l) ==
    /\ used[l] = identity.files[l]
    /\ l = "evaluator" => child.evidence.evaluator = identity.files[l]

\* What a finaliser knows from what it has digested.
ReadInv(f) ==
    LET local == fin[f] IN
    /\ local.expected # Missing => local.expected = identity
    /\ "manifest" \in local.pass => local.expected # Missing
    /\ local.childSha # Missing => child # Missing
    /\ local.pc \in {"start", "manifest", "inputs", "child"} => local.childSha = Missing
    /\ local.pc \in {"read-child", "child-evidence", "child-again"} \/ "endpoint" \in local.pass => local.childSha # Missing
    /\ local.pc \notin Writing => local.snap = NoSnap
    /\ local.expected # Missing /\ local.childSha # Missing =>
          \A l \in Labels : local.snap[l] = identity.files[l] => Sound(l)
    /\ local.snap["child"] # Missing =>
          child # Missing /\ local.snap["child"] \in Children /\ local.snap["child"].evidence = child.evidence
    /\ local.pc = "inputs" => local.k \in 1 .. Len(LABELS) /\ local.expected # Missing

\* How far its report is.
WriteInv(f) ==
    LET local == fin[f] IN
    /\ local.pc # "ended" => local.status = "none"
    /\ local.pc \in Writing =>
          /\ \E logged \in BOOLEAN : local.names = EvidenceNames(local.expected # Missing, logged)
          /\ result[f] # Missing /\ result[f].pass = local.pass
          /\ result[f].exit = 0 => local.pass = CHECKS /\ local.tries = 1
    /\ local.pc \in {"snapshot", "recheck"} => local.k \in 1 .. Len(local.names)
    /\ local.pc = "snapshot" /\ local.k = Len(local.names) => local.snap["result"] = result[f]
    /\ local.pc \in Writing \ {"snapshot"} => local.snap["result"] = result[f]
    /\ local.pc \in {"recheck-child", "late", "link"} /\ local.clean =>
          local.snap["child"] # Missing /\ local.snap["child"].status = "PASS"
    /\ local.pc = "link" /\ Status(f) = "PASS" => Late(f) = {}

\* What is published, and by whom.
OutputInv ==
    /\ Published => /\ output.by \in Finalizers /\ fin[output.by].pc = "ended"
                    /\ output.status = fin[output.by].status
                    /\ output.status # "none"
    /\ OneVerdict /\ ReportMatchesResult /\ DecisionMatchesReport
    /\ PublishedPass => gate # "none" /\ child # Missing
    /\ PassMeansPinned
    /\ PublishedPass => child.evidence.evaluator = identity.files["evaluator"]

Inv == TypeOK /\ FlowInv /\ OutputInv /\ \A f \in Finalizers : ReadInv(f) /\ WriteInv(f)

--------------------------------------------------------------------------------
(* The names.                                                              *)

\* The two labels.
LEMMA LabelsAre == Labels = {"wheel", "evaluator"} /\ Len(LABELS) = 2 /\ \A i \in 1 .. 2 : LABELS[i] \in Labels
<1>1. DOMAIN LABELS = {1, 2} /\ LABELS[1] = "wheel" /\ LABELS[2] = "evaluator" /\ Len(LABELS) = 2
  BY DEF LABELS
<1>2. Labels = {LABELS[i] : i \in {1, 2}}
  BY <1>1 DEF Labels, Range
<1>3. Labels = {"wheel", "evaluator"}
  BY <1>1, <1>2
<1> QED
  BY <1>1, <1>3

\* A report ends with the result and the child, and names the inputs if they are known.
LEMMA EvidenceOrder ==
  ASSUME NEW known \in BOOLEAN, NEW logged \in BOOLEAN, NEW names, names = EvidenceNames(known, logged)
  PROVE  /\ names \in Seq(Names)
         /\ Len(names) \in Nat /\ Len(names) >= 3 /\ names[Len(names)] = "child" /\ names[Len(names) - 1] = "result"
         /\ {"manifest", "result", "child"} \subseteq Range(names)
         /\ known => Labels \subseteq Range(names)
<1> DEFINE known1  == <<"manifest">> \o (IF known THEN LABELS ELSE << >>)
           logged1 == IF logged THEN <<"log">> ELSE << >>
           prefix  == known1 \o logged1
           tail    == <<"result", "child">>
<1>1. Names = {"wheel", "evaluator", "manifest", "log", "result", "child"}
  BY LabelsAre DEF Names
<1>2. /\ <<"manifest">> \in Seq(Names) /\ LABELS \in Seq(Names) /\ << >> \in Seq(Names) /\ <<"log">> \in Seq(Names)
      /\ tail \in Seq(Names) /\ Len(tail) = 2 /\ tail[1] = "result" /\ tail[2] = "child"
      /\ Len(<<"manifest">>) = 1 /\ <<"manifest">>[1] = "manifest"
      /\ Len(LABELS) = 2 /\ LABELS[1] = "wheel" /\ LABELS[2] = "evaluator"
  BY <1>1 DEF LABELS
<1>3. known1 \in Seq(Names) /\ Len(known1) \in Nat /\ Len(known1) >= 1 /\ known1[1] = "manifest"
      /\ (known => Len(known1) = 3 /\ known1[2] = "wheel" /\ known1[3] = "evaluator")
  <2>1. CASE known
    <3>1. known1 = <<"manifest">> \o LABELS
      BY <2>1
    <3> HIDE DEF known1
    <3>2. /\ known1 \in Seq(Names) /\ Len(known1) = Len(<<"manifest">>) + Len(LABELS)
          /\ \A i \in 1 .. Len(<<"manifest">>) + Len(LABELS) :
               known1[i] = IF i <= Len(<<"manifest">>) THEN <<"manifest">>[i] ELSE LABELS[i - Len(<<"manifest">>)]
      <4> DEFINE manifest1 == <<"manifest">>
      <4>1. manifest1 \in Seq(Names) /\ LABELS \in Seq(Names) /\ known1 = manifest1 \o LABELS
        BY <1>2, <3>1
      <4> HIDE DEF manifest1
      <4>2. /\ known1 \in Seq(Names) /\ Len(known1) = Len(manifest1) + Len(LABELS)
            /\ \A i \in 1 .. Len(manifest1) + Len(LABELS) :
                 known1[i] = IF i <= Len(manifest1) THEN manifest1[i] ELSE LABELS[i - Len(manifest1)]
        BY <4>1, ConcatProperties
      <4> QED
        BY <4>2 DEF manifest1
    <3>3. /\ Len(known1) = 3 /\ \A i \in 1 .. 3 : known1[i] = IF i <= 1 THEN <<"manifest">>[i] ELSE LABELS[i - 1]
      BY <1>2, <3>2
    <3>4. known1[1] = "manifest" /\ known1[2] = "wheel" /\ known1[3] = "evaluator"
      <4>1. known1[1] = <<"manifest">>[1] /\ known1[2] = LABELS[1] /\ known1[3] = LABELS[2]
        BY <3>3
      <4> QED
        BY <1>2, <4>1
    <3>5. known1 \in Seq(Names)
      BY <3>2
    <3>6. Len(known1) = 3 /\ Len(known1) \in Nat /\ Len(known1) >= 1
      BY <3>3
    <3> QED
      BY <3>4, <3>5, <3>6
  <2>2. CASE ~known
    <3>1. known1 = <<"manifest">> \o << >>
      BY <2>2
    <3>2. known1 = <<"manifest">>
      BY <1>2, <3>1, ConcatEmptySeq
    <3> HIDE DEF known1
    <3> QED
      BY <1>2, <2>2, <3>2
  <2> QED
    BY <2>1, <2>2
<1>10. logged1 \in Seq(Names) /\ tail \in Seq(Names)
  BY <1>2
<1> HIDE DEF known1, logged1, tail
<1>4. prefix \in Seq(Names) /\ Len(prefix) \in Nat /\ Len(prefix) >= Len(known1)
      /\ \A i \in 1 .. Len(known1) : prefix[i] = known1[i]
  <2>1. prefix \in Seq(Names) /\ Len(prefix) = Len(known1) + Len(logged1)
        /\ \A i \in 1 .. Len(known1) + Len(logged1) : prefix[i] = IF i <= Len(known1) THEN known1[i] ELSE logged1[i - Len(known1)]
    BY <1>3, <1>10, ConcatProperties
  <2>2. Len(logged1) \in Nat
    BY <1>10, LenProperties
  <2> HIDE DEF prefix
  <2> QED
    BY <1>3, <2>1, <2>2
<1> HIDE DEF prefix
<1>5. names = prefix \o tail
  BY DEF EvidenceNames, prefix, known1, logged1, tail
<1>6. names \in Seq(Names) /\ Len(names) = Len(prefix) + 2
      /\ \A i \in 1 .. Len(prefix) + 2 : names[i] = IF i <= Len(prefix) THEN prefix[i] ELSE tail[i - Len(prefix)]
  <2>1. Len(tail) = 2
    BY <1>2 DEF tail
  <2>2. names \in Seq(Names) /\ Len(names) = Len(prefix) + Len(tail)
        /\ \A i \in 1 .. Len(prefix) + Len(tail) : names[i] = IF i <= Len(prefix) THEN prefix[i] ELSE tail[i - Len(prefix)]
    BY <1>4, <1>5, <1>10, ConcatProperties
  <2> QED
    BY <2>1, <2>2
<1>7. names[Len(prefix) + 1] = "result" /\ names[Len(prefix) + 2] = "child"
  BY <1>2, <1>4, <1>6 DEF tail
<1>8. names[1] = "manifest" /\ (known => Len(prefix) >= 3 /\ names[2] = "wheel" /\ names[3] = "evaluator")
  <2>1. \A i \in 1 .. Len(known1) : names[i] = known1[i]
    BY <1>3, <1>4, <1>6
  <2>2. known => Len(known1) = 3
    BY <1>3
  <2>3. 1 \in 1 .. Len(known1) /\ (known => 2 \in 1 .. Len(known1) /\ 3 \in 1 .. Len(known1))
    BY <1>3
  <2>4. known1[1] = "manifest" /\ (known => known1[2] = "wheel" /\ known1[3] = "evaluator")
    BY <1>3
  <2> QED
    BY <1>4, <2>1, <2>2, <2>3, <2>4
<1>9. \A i \in 1 .. Len(names) : names[i] \in Range(names)
  BY <1>6 DEF Range
<1> QED
  BY <1>3, <1>4, <1>6, <1>7, <1>8, <1>9, LabelsAre

--------------------------------------------------------------------------------
(* The start.                                                              *)

\* Nothing is pinned, read or written at the start.
LEMMA InitInv == Init => Inv
<1> SUFFICES ASSUME Init PROVE Inv
  OBVIOUS
<1>1. TypeOK
  <2>1. input \in [Labels -> Versions] /\ used \in [Labels -> Versions]
    BY DEF Init, Versions
  <2>2. LocalOK(Locals)
    BY DEF LocalOK, Places, Statuses, Locals, NoSnap
  <2> QED
    BY <2>1, <2>2 DEF Init, TypeOK, Versions
<1>2. FlowInv /\ OutputInv
  BY FinalizersAssumption
  DEF Init, FlowInv, OutputInv, OneVerdict, ReportMatchesResult, DecisionMatchesReport, PublishedPass, Published, PassMeansPinned,
      Locals, Early, Pinned
<1>3. ASSUME NEW f \in Finalizers PROVE ReadInv(f) /\ WriteInv(f)
  BY <1>3 DEF Init, ReadInv, WriteInv, Locals, Writing, NoSnap, Names
<1> QED
  BY <1>1, <1>2, <1>3 DEF Inv

--------------------------------------------------------------------------------
(* What every step keeps.                                                  *)

\* What no step takes back: a pinned identity, the gate's report, what was read before it.
Progress ==
    /\ identity' = identity \/ \A f \in Finalizers : fin'[f] = Locals
    /\ gate # "none" => gate' # "none"
    /\ child # Missing => child' # Missing /\ child'.evidence = child.evidence /\ used' = used

\* No step takes these back.
LEMMA StepProgress == Inv /\ [Next]_vars => Progress
<1> SUFFICES ASSUME Inv, [Next]_vars PROVE Progress
  OBVIOUS
<1>1. child # Missing => gate # "none"
  BY DEF Inv, FlowInv
<1>2. CASE Capture
  BY <1>2 DEF Capture, Early, Inv, FlowInv, Progress
<1>3. CASE Install \/ StartGate
  BY <1>1, <1>3 DEF Install, StartGate, Go, Die, Inv, FlowInv, Pinned, disk, Progress
<1>4. CASE Edit
  <2>1. UNCHANGED <<identity, gate, used>>
    BY <1>4 DEF Edit, shell
  <2>2. child # Missing => child' # Missing /\ child'.evidence = child.evidence
    <3>1. child' = child \/ (child # Missing /\ child' = [child EXCEPT !.edit = edits + 1])
      BY <1>4 DEF Edit, EditInput, EditManifest, EditProof, EditChild
    <3>2. child # Missing => child \in Children /\ edits + 1 \in Nat
      BY DEF Inv, TypeOK
    <3>3. child \in Children /\ edits + 1 \in Nat
          => [child EXCEPT !.edit = edits + 1] \in Children /\ [child EXCEPT !.edit = edits + 1].evidence = child.evidence
      BY DEF Children
    <3> QED
      BY <3>1, <3>2, <3>3, MissingAssumption
  <2> QED
    BY <2>1, <2>2 DEF Progress
<1>5. CASE GateStep
  BY <1>1, <1>5 DEF GateStep, GateResult, GateReport, GateExit, shell, Progress
<1>6. CASE Sha256Sum \/ VerifyInputs \/ AwaitGate \/ RunFinalizer \/ Decide \/ Terminate \/ UNCHANGED vars
  BY <1>6 DEF Sha256Sum, VerifyInputs, AwaitGate, RunFinalizer, Decide, Terminate, Go, Die, disk, shell, vars, Progress
<1>7. ASSUME NEW f \in Finalizers, StartFinalizer(f) \/ Finalize(f) \/ FinAborts(f) PROVE Progress
  BY <1>7
  DEF StartFinalizer, FinAborts, Finalize, FinBegin, FinManifest, FinInput, FinChildDigest, FinReadChild, FinChildEvidence,
      FinChildAgain, FinResult, FinSnapshot, FinRecheck, FinRecheckChild, FinLate, FinLink, Unshared, disk, shell, Progress
<1> QED
  BY <1>2, <1>3, <1>4, <1>5, <1>6, <1>7 DEF Next, WrapperStep, Over

\* A finaliser that a step leaves alone knows what it knew.
LEMMA Untouched ==
  ASSUME Inv, Progress, NEW f \in Finalizers, fin'[f] = fin[f], result'[f] = result[f]
  PROVE  ReadInv(f)' /\ WriteInv(f)'
<1>1. fin[f] \in {fin[f]} /\ ReadInv(f) /\ WriteInv(f)
  BY DEF Inv
<1>2. CASE fin'[f] = Locals
  BY <1>2 DEF ReadInv, WriteInv, Locals, Writing, NoSnap, Names
<1>3. CASE identity' = identity
  <2>1. ReadInv(f)'
    BY <1>1, <1>3 DEF ReadInv, Progress, Sound
  <2>2. WriteInv(f)'
    <3>1. Late(f)' = Late(f) /\ Status(f)' = Status(f)
      BY DEF Late, Recorded, Status
    <3> QED
      BY <1>1, <3>1 DEF WriteInv
  <2> QED
    BY <2>1, <2>2
<1> QED
  BY <1>2, <1>3 DEF Progress

\* A finaliser that starts or has ended has read nothing.
LEMMA FreshOrOver ==
  ASSUME NEW f \in Finalizers, NEW exit \in Nat, NEW status \in {"none", "PASS", "FAIL"},
         \/ fin'[f] = [Locals EXCEPT !.pc = "start"]
         \/ fin'[f] = [Locals EXCEPT !.pc = "start", !.exit = exit]
         \/ fin'[f] = Ended(status)
  PROVE  LocalOK(fin[f])' /\ ReadInv(f)' /\ WriteInv(f)'
<1>1. LocalOK(fin[f])'
  <2>1. LocalOK(Locals)
    BY DEF LocalOK, Places, Statuses, Locals, NoSnap
  <2>2. "start" \in Places /\ "ended" \in Places /\ status \in Statuses
    BY DEF Places, Statuses
  <2>3. LocalOK([Locals EXCEPT !.pc = "start"])
    BY <2>1, <2>2 DEF LocalOK
  <2>4. LocalOK([Locals EXCEPT !.pc = "start", !.exit = exit])
    BY <2>1, <2>2 DEF LocalOK
  <2>5. LocalOK([Locals EXCEPT !.pc = "ended", !.status = status])
    BY <2>1, <2>2 DEF LocalOK
  <2> QED
    BY <2>3, <2>4, <2>5 DEF Ended
<1>2. /\ fin'[f].pc \in {"start", "ended"} /\ fin'[f].pass = {} /\ fin'[f].expected = Missing
      /\ fin'[f].childSha = Missing /\ fin'[f].snap = NoSnap /\ (fin'[f].pc = "start" => fin'[f].status = "none")
  BY DEF Locals, Ended
<1>3. NoSnap["child"] = Missing
  BY DEF NoSnap, Names
<1>4. ReadInv(f)' /\ WriteInv(f)'
  BY <1>2, <1>3 DEF ReadInv, WriteInv, Writing
<1> QED
  BY <1>1, <1>4

--------------------------------------------------------------------------------
(* The steps of a finaliser.                                               *)

\* From the start to the result: it reads, and has not begun to write.
LEMMA ReadingStep ==
  ASSUME Inv, NEW f \in Finalizers,
         \/ FinBegin(f) \/ FinManifest(f) \/ FinInput(f) \/ FinChildDigest(f) \/ FinReadChild(f)
         \/ FinChildEvidence(f) \/ FinChildAgain(f)
  PROVE  LocalOK(fin[f])' /\ ReadInv(f)' /\ WriteInv(f)'
<1> DEFINE local == fin[f]
<1>1. /\ LocalOK(local) /\ ReadInv(f) /\ WriteInv(f) /\ local.snap = NoSnap
      /\ child \in Children \cup {Missing} /\ identity \in Manifests \cup {Missing} /\ manifest \in Manifests \cup {Missing}
  BY DEF Inv, TypeOK, ReadInv, Writing, FinBegin, FinManifest, FinInput, FinChildDigest, FinReadChild, FinChildEvidence,
         FinChildAgain, At
<1>2. /\ UNCHANGED <<disk, result, shell, gate, used>> /\ f \in DOMAIN fin
      /\ \A L : Step(f, L) => fin'[f] = L
  BY DEF FinBegin, FinManifest, FinInput, FinChildDigest, FinReadChild, FinChildEvidence, FinChildAgain, Unshared, Step,
         Inv, TypeOK
<1>3. \A l \in Labels : l \in CHECKS /\ NoSnap[l] = Missing /\ (identity # Missing => identity.files[l] # Missing)
  BY <1>1, MissingAssumption DEF CHECKS, NoSnap, Names, Manifests
<1>4. NoSnap["child"] = Missing
  BY DEF NoSnap, Names
<1>5. /\ local.status = "none" /\ (local.expected # Missing => local.expected = identity)
      /\ ("manifest" \in local.pass => local.expected # Missing)
      /\ (local.childSha # Missing => child # Missing)
      /\ ("endpoint" \in local.pass => local.childSha # Missing)
  <2>1. local.pc # "ended"
    BY DEF FinBegin, FinManifest, FinInput, FinChildDigest, FinReadChild, FinChildEvidence, FinChildAgain, At
  <2> QED
    BY <1>1, <2>1 DEF ReadInv, WriteInv
<1>6. ASSUME NEW L, fin'[f] = L, LocalOK(L), L.status = "none", L.snap = NoSnap,
             L.pc \in {"start", "manifest", "inputs", "child", "read-child", "child-evidence", "child-again", "result"},
             L.expected # Missing => L.expected = identity,
             "manifest" \in L.pass \/ L.pc = "inputs" => L.expected # Missing,
             L.pc \in {"start", "manifest", "inputs", "child"} => L.childSha = Missing,
             L.pc \in {"read-child", "child-evidence", "child-again"} \/ "endpoint" \in L.pass => L.childSha # Missing,
             L.childSha # Missing => child # Missing,
             L.pc = "inputs" => L.k \in 1 .. Len(LABELS)
      PROVE  LocalOK(fin[f])' /\ ReadInv(f)' /\ WriteInv(f)'
  <2>1. LocalOK(fin[f])'
    BY <1>6 DEF LocalOK
  <2>2. UNCHANGED <<identity, child, used>>
    BY <1>2 DEF disk, shell
  <2>3. ReadInv(f)'
    BY <1>3, <1>4, <1>6, <2>2 DEF ReadInv, Sound
  <2>4. WriteInv(f)'
    BY <1>6 DEF WriteInv, Writing
  <2> QED
    BY <2>1, <2>3, <2>4
<1>7. CASE FinBegin(f)
  <2>1. CASE fin'[f] = Ended("none")
    BY <2>1, FreshOrOver
  <2>2. CASE fin'[f] = [local EXCEPT !.pc = "manifest", !.pass = IF local.exit = 0 THEN {"outer-exit"} ELSE {}]
    <3> DEFINE L == [local EXCEPT !.pc = "manifest", !.pass = IF local.exit = 0 THEN {"outer-exit"} ELSE {}]
    <3>1. /\ LocalOK(L) /\ L.pc = "manifest" /\ L.pass \subseteq {"outer-exit"}
          /\ L.status = local.status /\ L.snap = local.snap /\ L.expected = local.expected /\ L.childSha = local.childSha
      BY <1>1 DEF LocalOK, Places, CHECKS
    <3>2. local.childSha = Missing
      BY <1>1, <1>7 DEF FinBegin, At, ReadInv
    <3> HIDE DEF L
    <3>3. fin'[f] = L
      BY <2>2 DEF L
    <3> QED
      BY <1>1, <1>5, <1>6, <3>1, <3>2, <3>3
  <2> QED
    BY <1>2, <1>7, <2>1, <2>2 DEF FinBegin
<1>8. CASE FinManifest(f)
  <2>1. local.childSha = Missing
    BY <1>1, <1>8 DEF FinManifest, At, ReadInv
  <2>2. CASE manifest = identity /\ identity # Missing
             /\ fin'[f] = [local EXCEPT !.pc = "inputs", !.k = 1, !.expected = manifest, !.pass = @ \cup {"manifest"}]
    <3> DEFINE L == [local EXCEPT !.pc = "inputs", !.k = 1, !.expected = manifest, !.pass = @ \cup {"manifest"}]
    <3>1. /\ LocalOK(L) /\ L.pc = "inputs" /\ L.pass = local.pass \cup {"manifest"} /\ L.k = 1
          /\ L.status = local.status /\ L.snap = local.snap /\ L.expected = manifest /\ L.childSha = local.childSha
      BY <1>1 DEF LocalOK, Places, CHECKS
    <3> HIDE DEF L
    <3>2. fin'[f] = L
      BY <2>2 DEF L
    <3> QED
      BY <1>1, <1>5, <1>6, <2>1, <2>2, <3>1, <3>2, LabelsAre
  <2>3. CASE fin'[f] = [local EXCEPT !.pc = "child"]
    <3> DEFINE L == [local EXCEPT !.pc = "child"]
    <3>1. /\ LocalOK(L) /\ L.pc = "child" /\ L.pass = local.pass
          /\ L.status = local.status /\ L.snap = local.snap /\ L.expected = local.expected /\ L.childSha = local.childSha
      BY <1>1 DEF LocalOK, Places
    <3> HIDE DEF L
    <3>2. fin'[f] = L
      BY <2>3 DEF L
    <3> QED
      BY <1>1, <1>5, <1>6, <2>1, <3>1, <3>2
  <2> QED
    BY <1>2, <1>8, <2>2, <2>3 DEF FinManifest
<1>9. CASE FinInput(f)
  <2>1. local.k \in 1 .. 2 /\ local.expected # Missing /\ local.childSha = Missing
    BY <1>1, <1>9, LabelsAre DEF FinInput, At, ReadInv
  <2>2. LABELS[local.k] \in CHECKS /\ LABELS[local.k] \notin {"manifest", "endpoint"}
    BY <1>3, <2>1, LabelsAre
  <2>3. LocalOK(fin'[f])
        /\ fin'[f].pc \in {"inputs", "child"} /\ fin'[f].pass \subseteq local.pass \cup {LABELS[local.k]}
        /\ (fin'[f].pc = "inputs" => fin'[f].k \in 1 .. Len(LABELS))
        /\ fin'[f].status = local.status /\ fin'[f].snap = local.snap /\ fin'[f].expected = local.expected
        /\ fin'[f].childSha = local.childSha
    <3> DEFINE pass == IF Digest(f, LABELS[local.k]) = local.expected.files[LABELS[local.k]]
                       THEN local.pass \cup {LABELS[local.k]} ELSE local.pass
               pc   == IF local.k < Len(LABELS) THEN "inputs" ELSE "child"
    <3>1. pass \in SUBSET CHECKS /\ pass \subseteq local.pass \cup {LABELS[local.k]}
      BY <1>1, <2>2 DEF LocalOK, Places
    <3>2. PICK k \in Nat : k = local.k + 1
      BY <2>1
    <3>3. pc \in {"inputs", "child"} /\ (pc = "inputs" => k \in 1 .. Len(LABELS))
      BY <2>1, <3>2, LabelsAre
    <3> DEFINE L == [local EXCEPT !.pc = pc, !.k = k, !.pass = pass]
    <3>4. fin'[f] = L
      BY <1>1, <1>2, <1>9, <3>2 DEF FinInput, LocalOK
    <3> HIDE DEF pass, pc
    <3>5. pc \in Places
      BY <3>3 DEF Places
    <3>6. /\ LocalOK(L) /\ L.pc = pc /\ L.k = k /\ L.pass = pass /\ L.status = local.status
          /\ L.snap = local.snap /\ L.expected = local.expected /\ L.childSha = local.childSha
      BY <1>1, <3>1, <3>5 DEF LocalOK
    <3> HIDE DEF L
    <3> QED
      BY <3>1, <3>3, <3>4, <3>6
  <2> QED
    BY <1>1, <1>5, <1>6, <2>1, <2>2, <2>3
<1>10. CASE FinChildDigest(f)
  <2> DEFINE L == [local EXCEPT !.pc = IF child = Missing THEN "result" ELSE "read-child", !.childSha = child]
  <2>1. /\ LocalOK(L) /\ L.pc \in {"result", "read-child"} /\ L.pass = local.pass /\ L.childSha = child
        /\ (L.pc = "read-child" => child # Missing)
        /\ L.status = local.status /\ L.snap = local.snap /\ L.expected = local.expected
    BY <1>1 DEF LocalOK, Places
  <2>2. local.childSha = Missing
    BY <1>1, <1>10 DEF FinChildDigest, At, ReadInv
  <2> HIDE DEF L
  <2>3. fin'[f] = L
    BY <1>2, <1>10 DEF FinChildDigest, L
  <2> QED
    BY <1>1, <1>5, <1>6, <2>1, <2>2, <2>3
<1>11. CASE FinReadChild(f) \/ FinChildEvidence(f)
  <2>1. LocalOK(fin'[f]) /\ fin'[f].pc \in {"child-evidence", "child-again", "result"}
        /\ fin'[f].pass = local.pass /\ fin'[f].childSha = local.childSha
        /\ fin'[f].status = local.status /\ fin'[f].snap = local.snap /\ fin'[f].expected = local.expected
    <3>1. CASE FinReadChild(f)
      <4>1. PICK pc \in {"child-evidence", "result"} : fin'[f] = [local EXCEPT !.reading = child, !.k = 1, !.pc = pc]
        BY <1>2, <3>1 DEF FinReadChild
      <4> DEFINE L == [local EXCEPT !.reading = child, !.k = 1, !.pc = pc]
      <4>2. LocalOK(L) /\ L.pc = pc /\ L.pass = local.pass /\ L.childSha = local.childSha
            /\ L.status = local.status /\ L.snap = local.snap /\ L.expected = local.expected
        BY <1>1 DEF LocalOK, Places
      <4> HIDE DEF L
      <4>3. fin'[f] = L
        BY <4>1 DEF L
      <4> QED
        BY <4>2, <4>3
    <3>2. CASE FinChildEvidence(f)
      <4>1. CASE fin'[f] = [local EXCEPT !.pc = "result"]
        BY <1>1, <4>1 DEF LocalOK, Places
      <4>2. ASSUME NEW pc \in {"child-evidence", "child-again"}, NEW k \in Nat, fin'[f] = [local EXCEPT !.pc = pc, !.k = k]
            PROVE  LocalOK(fin'[f]) /\ fin'[f].pc \in {"child-evidence", "child-again", "result"}
                   /\ fin'[f].pass = local.pass /\ fin'[f].childSha = local.childSha
                   /\ fin'[f].status = local.status /\ fin'[f].snap = local.snap /\ fin'[f].expected = local.expected
        BY <1>1, <4>2 DEF LocalOK, Places
      <4>3. PICK k \in Nat : k = local.k + 1
        BY <1>1 DEF LocalOK, Places
      <4>4. local.pc = "child-evidence"
            /\ \/ fin'[f] = [local EXCEPT !.pc = "result"]
               \/ \E pc \in {"child-evidence", "child-again"} : fin'[f] = [local EXCEPT !.pc = pc, !.k = k]
        BY <1>1, <1>2, <3>2, <4>3 DEF FinChildEvidence, At, LocalOK, Places
      <4> QED
        BY <4>1, <4>2, <4>4
    <3> QED
      BY <1>11, <3>1, <3>2
  <2>2. local.childSha # Missing
    BY <1>1, <1>11 DEF FinReadChild, FinChildEvidence, At, ReadInv
  <2> QED
    BY <1>1, <1>5, <1>6, <2>1, <2>2
<1>12. CASE FinChildAgain(f)
  <2>1. local.childSha # Missing
    BY <1>1, <1>12 DEF FinChildAgain, At, ReadInv
  <2>2. PICK pass \in SUBSET CHECKS : /\ pass \subseteq local.pass \cup {"endpoint"}
                                      /\ fin'[f] = [local EXCEPT !.pc = "result", !.pass = pass]
    BY <1>1, <1>2, <1>12 DEF FinChildAgain, LocalOK, Places, CHECKS
  <2> DEFINE L == [local EXCEPT !.pc = "result", !.pass = pass]
  <2>3. /\ LocalOK(L) /\ L.pc = "result" /\ L.pass = pass /\ L.childSha = local.childSha
        /\ L.status = local.status /\ L.snap = local.snap /\ L.expected = local.expected
    BY <1>1 DEF LocalOK, Places
  <2> HIDE DEF L
  <2>4. fin'[f] = L
    BY <2>2 DEF L
  <2> QED
    BY <1>1, <1>5, <1>6, <2>1, <2>2, <2>3, <2>4
<1> QED
  BY <1>7, <1>8, <1>9, <1>10, <1>11, <1>12

\* The result file, and one round of the report that hashes it.
LEMMA WritingStep ==
  ASSUME Inv, NEW f \in Finalizers,
         FinResult(f) \/ FinSnapshot(f) \/ FinRecheck(f) \/ FinRecheckChild(f) \/ FinLate(f)
  PROVE  LocalOK(fin[f])' /\ result'[f] \in Results \cup {Missing} /\ ReadInv(f)' /\ WriteInv(f)'
<1> DEFINE local == fin[f]
<1>1. /\ LocalOK(local) /\ ReadInv(f) /\ WriteInv(f)
      /\ child \in Children \cup {Missing} /\ identity \in Manifests \cup {Missing} /\ manifest \in Manifests \cup {Missing}
      /\ input \in [Labels -> Versions] /\ result[f] \in Results \cup {Missing} /\ result \in [Finalizers -> Results \cup {Missing}]
  BY DEF Inv, TypeOK
<1>2. /\ UNCHANGED <<disk, shell, gate, used>>
      /\ \A L : Step(f, L) => fin'[f] = L
  BY DEF FinResult, FinSnapshot, FinRecheck, FinRecheckChild, FinLate, Unshared, Step, Inv, TypeOK
<1>3. UNCHANGED <<input, child, manifest, identity, used>>
  BY <1>2 DEF disk, shell
<1>4. local.pc \in {"result", "snapshot", "recheck", "recheck-child", "late"} /\ local.status = "none"
  BY <1>1 DEF FinResult, FinSnapshot, FinRecheck, FinRecheckChild, FinLate, At, WriteInv
<1>5. ASSUME NEW L, fin'[f] = L, UNCHANGED result, local.pc \in Writing \ {"link"}, L.names = local.names, L.pass = local.pass, L.expected = local.expected,
             L.childSha = local.childSha, L.status = "none", L.tries = local.tries,
             L.pc \in Writing,
             \A l \in Labels : L.snap[l] \in {local.snap[l], input[l]},
             L.snap["child"] \in {local.snap["child"], child},
             L.pc \in {"snapshot", "recheck"} => L.k \in 1 .. Len(L.names),
             (L.pc = "snapshot" => L.k = Len(L.names)) => L.snap["result"] = result[f],
             L.pc \in {"recheck-child", "late", "link"} /\ L.clean => L.snap["child"] # Missing /\ L.snap["child"].status = "PASS",
             L.pc # "link"
      PROVE  ReadInv(f)' /\ WriteInv(f)'
  <2>1. ASSUME NEW l \in Labels, local.expected # Missing, local.childSha # Missing, input[l] = identity.files[l] PROVE Sound(l)
    <3>1. identity # Missing /\ child # Missing /\ gate # "none"
      BY <1>1, <2>1 DEF ReadInv, Inv, FlowInv
    <3>2. Drift(used["wheel"], "wheel") /\ Drift(used["evaluator"], "evaluator") /\ Drift(child.evidence.evaluator, "evaluator")
      BY <3>1 DEF Inv, FlowInv
    <3> QED
      BY <2>1, <3>2, LabelsAre DEF Drift, Sound
  <2>2. ReadInv(f)'
    <3>1. \A l \in Labels : local.expected # Missing /\ local.childSha # Missing /\ L.snap[l] = identity.files[l] => Sound(l)
      BY <1>1, <1>5, <2>1 DEF ReadInv
    <3>2. \A l \in Labels : Sound(l)' = Sound(l)
      BY <1>3 DEF Sound
    <3>3. L.snap["child"] # Missing =>
             child # Missing /\ L.snap["child"] \in Children /\ L.snap["child"].evidence = child.evidence
      BY <1>1, <1>5 DEF ReadInv
    <3> QED
      BY <1>1, <1>3, <1>5, <3>1, <3>2, <3>3 DEF ReadInv, Writing
  <2>3. WriteInv(f)'
    BY <1>1, <1>5 DEF WriteInv, Writing
  <2> QED
    BY <2>2, <2>3
<1>6. CASE FinResult(f)
  <2>1. PICK logged \in BOOLEAN :
           fin'[f] = [local EXCEPT !.pc = "snapshot", !.k = 1, !.tries = 1, !.names = EvidenceNames(local.expected # Missing, logged)]
    BY <1>2, <1>6 DEF FinResult
  <2>2. PICK names \in Seq(Names), size \in Nat :
           names = EvidenceNames(local.expected # Missing, logged) /\ size = Len(names) /\ size >= 3
    BY EvidenceOrder
  <2>11. fin'[f] = [local EXCEPT !.pc = "snapshot", !.k = 1, !.tries = 1, !.names = names]
    BY <2>1, <2>2
  <2>3. local.snap = NoSnap /\ NoSnap["child"] = Missing /\ \A l \in Labels : NoSnap[l] = Missing
    BY <1>1, <1>6 DEF FinResult, At, ReadInv, Writing, NoSnap, Names
  <2> DEFINE L == [local EXCEPT !.pc = "snapshot", !.k = 1, !.tries = 1, !.names = names]
  <2>12. LocalOK(L)
    <3>1. names \in Seq(Names) /\ "snapshot" \in Places
      BY <2>2 DEF Places
    <3> QED
      BY ONLY <1>1, <3>1 DEF LocalOK
  <2>4. /\ LocalOK(fin'[f]) /\ fin'[f].pc = "snapshot" /\ fin'[f].k = 1 /\ fin'[f].tries = 1 /\ fin'[f].names = names
        /\ fin'[f].pass = local.pass /\ fin'[f].childSha = local.childSha /\ fin'[f].expected = local.expected
        /\ fin'[f].snap = local.snap /\ fin'[f].status = local.status
    BY <1>1, <2>11, <2>12 DEF LocalOK, Places
  <2>5. result'[f] = [pass |-> local.pass, exit |-> RootExit(local)]
    BY <1>1, <1>6 DEF FinResult
  <2>6. RootExit(local) \in Nat /\ (RootExit(local) = 0 => local.pass = CHECKS) /\ local.pass \in SUBSET CHECKS
    BY <1>1 DEF RootExit, LocalOK, Places
  <2>7. result'[f] \in Results /\ result'[f] # Missing /\ result'[f].pass = local.pass
        /\ (result'[f].exit = 0 => local.pass = CHECKS)
    <3>1. result'[f] \in Results
      BY <2>5, <2>6 DEF Results
    <3> QED
      BY <2>5, <2>6, <3>1, MissingAssumption
  <2>8. ReadInv(f)'
    <3>1. identity # Missing => \A l \in Labels : identity.files[l] # Missing
      BY <1>1, MissingAssumption DEF Manifests
    <3> QED
      BY <1>1, <1>3, <2>3, <2>4, <3>1 DEF ReadInv, Writing, Sound
  <2>9. WriteInv(f)'
    <3>1. \E known \in BOOLEAN : fin'[f].names = EvidenceNames(fin'[f].expected # Missing, known)
      BY <2>2, <2>4
    <3>2. 1 \in 1 .. size /\ size # 1
      <4>1. size >= 3
        BY <2>2, Zenon
      <4> QED
        BY <4>1
    <3>3. /\ result'[f] # Missing /\ result'[f].pass = fin'[f].pass
          /\ result'[f].exit = 0 => fin'[f].pass = CHECKS /\ fin'[f].tries = 1
      BY <2>4, <2>7
    <3>4. fin'[f].k \in 1 .. Len(fin'[f].names) /\ fin'[f].k # Len(fin'[f].names)
      BY <2>2, <2>4, <3>2
    <3>5. fin'[f].status = "none" /\ fin'[f].pc = "snapshot"
      BY <1>4, <2>4
    <3> QED
      BY <3>1, <3>3, <3>4, <3>5 DEF WriteInv, Writing
  <2> QED
    BY <2>4, <2>7, <2>8, <2>9
<1>7. PICK size \in Nat : local.pc \in Writing => /\ size = Len(local.names) /\ size >= 3
                                                 /\ local.names[size] = "child" /\ local.names[size - 1] = "result"
  <2>1. CASE local.pc \in Writing
    <3>1. PICK logged \in BOOLEAN : local.names = EvidenceNames(local.expected # Missing, logged)
      BY <1>1, <2>1 DEF WriteInv
    <3>2. PICK names \in Seq(Names), n \in Nat :
             /\ names = EvidenceNames(local.expected # Missing, logged) /\ n = Len(names) /\ n >= 3
             /\ names[n] = "child" /\ names[n - 1] = "result"
      BY EvidenceOrder
    <3>3. local.names = names
      BY <3>1, <3>2
    <3> QED
      BY <3>2, <3>3
  <2>2. CASE local.pc \notin Writing
    BY <2>2
  <2> QED
    BY <2>1, <2>2
<1>8. CASE FinSnapshot(f)
  <2>1. local.pc = "snapshot" /\ UNCHANGED result /\ local.k \in 1 .. size
    BY <1>1, <1>7, <1>8 DEF FinSnapshot, At, Unshared, WriteInv, Writing
  <2>2. PICK name \in Names : name = local.names[local.k]
    BY <1>1, <1>7, <2>1 DEF LocalOK, Places, Writing
  <2> DEFINE digest == Digest(f, name)
             snap   == [local.snap EXCEPT ![name] = digest]
             pc     == IF local.k = size THEN "recheck" ELSE "snapshot"
  <2>3. PICK k \in Nat : k \in 1 .. size /\ k = IF local.k = size THEN 1 ELSE local.k + 1
    BY <1>7, <2>1 DEF Writing
  <2> DEFINE L == [local EXCEPT !.snap = snap, !.pc = pc, !.k = k]
  <2>4. fin'[f] = L
    BY <1>1, <1>2, <1>7, <1>8, <2>1, <2>2, <2>3 DEF FinSnapshot, LocalOK, Places, Writing
  <2>5. /\ (\A l \in Labels : snap[l] \in {local.snap[l], input[l]}) /\ snap["child"] \in {local.snap["child"], child}
        /\ (name # "result" => snap["result"] = local.snap["result"]) /\ (name = "result" => snap["result"] = result[f])
        /\ snap = [n \in Names |-> snap[n]]
    BY <1>1, LabelsAre DEF LocalOK, Places, Digest, Names
  <2>6. pc \in {"snapshot", "recheck"} /\ (local.k # size => pc = "snapshot")
    OBVIOUS
  <2> HIDE DEF digest, snap, pc
  <2>7. /\ LocalOK(L) /\ L.pc = pc /\ L.k = k /\ L.snap = snap /\ L.names = local.names /\ L.pass = local.pass
        /\ L.expected = local.expected /\ L.childSha = local.childSha /\ L.status = local.status /\ L.tries = local.tries
    BY <1>1, <2>5, <2>6 DEF LocalOK, Places
  <2> HIDE DEF L
  <2>10. /\ L.pc \in {"snapshot", "recheck"} /\ (\A l \in Labels : L.snap[l] \in {local.snap[l], input[l]})
         /\ L.snap["child"] \in {local.snap["child"], child} /\ L.k \in 1 .. Len(L.names) /\ Len(L.names) = size
    BY <1>7, <2>1, <2>3, <2>5, <2>6, <2>7 DEF Writing
  <2>8. (L.pc = "snapshot" => L.k = size) => L.snap["result"] = result[f]
    <3>1. CASE local.k = size
      BY <1>1, <1>7, <2>1, <2>2, <2>5, <2>7, <3>1 DEF WriteInv, Writing
    <3>2. CASE local.k # size /\ k = size
      <4>1. local.k = size - 1
        BY <1>7, <2>1, <2>3, <3>2 DEF Writing
      <4> QED
        BY <1>7, <2>1, <2>2, <2>5, <2>7, <4>1 DEF Writing
    <3> QED
      BY <2>6, <2>7, <3>1, <3>2
  <2>9. ReadInv(f)' /\ WriteInv(f)'
    BY <1>4, <1>5, <2>1, <2>4, <2>7, <2>8, <2>10 DEF Writing
  <2> QED
    BY <1>1, <2>1, <2>4, <2>7, <2>9
<1>9. CASE FinRecheck(f)
  <2>1. local.pc = "recheck" /\ UNCHANGED result /\ local.k \in 1 .. size
    BY <1>1, <1>7, <1>9 DEF FinRecheck, At, Unshared, WriteInv, Writing
  <2> DEFINE seen  == Digest(f, local.names[local.k])
             same  == seen # Missing /\ seen = local.snap[local.names[local.k]]
             last  == local.k = size
             sound == IF last THEN same /\ child.status = "PASS" ELSE same
  <2>2. PICK clean \in BOOLEAN, pc \in {"recheck", "recheck-child", "late"}, k \in Nat, reading \in Children \cup {Missing} :
           /\ k \in 1 .. size /\ (clean => sound)
           /\ pc = IF ~last THEN "recheck" ELSE IF sound THEN "recheck-child" ELSE "late"
           /\ fin'[f] = [local EXCEPT !.clean = clean, !.reading = reading, !.pc = pc, !.k = k]
    <3>1. PICK k \in Nat : k \in 1 .. size /\ k = IF last THEN 1 ELSE local.k + 1
      BY <1>7, <2>1 DEF Writing
    <3> HIDE DEF sound, last
    <3>2. fin'[f] = [local EXCEPT !.clean = @ /\ sound, !.reading = IF last THEN child ELSE @,
                             !.pc = IF ~last THEN @ ELSE IF sound THEN "recheck-child" ELSE "late",
                             !.k = k]
      BY <1>1, <1>2, <1>7, <1>9, <2>1, <3>1 DEF FinRecheck, LocalOK, Places, sound, last, Writing
    <3>3. (local.clean /\ sound) \in BOOLEAN /\ ((local.clean /\ sound) => sound)
      OBVIOUS
    <3>4. local.reading \in Children \cup {Missing}
      BY <1>1 DEF LocalOK, Places
    <3> DEFINE clean   == local.clean /\ sound
               reading == IF last THEN child ELSE local.reading
               pc      == IF ~last THEN "recheck" ELSE IF sound THEN "recheck-child" ELSE "late"
    <3>5. fin'[f] = [local EXCEPT !.clean = clean, !.reading = reading, !.pc = pc, !.k = k]
      BY <1>1, <2>1, <3>2 DEF LocalOK, Places
    <3>6. reading \in Children \cup {Missing} /\ pc \in {"recheck", "recheck-child", "late"}
      BY <1>1, <3>4
    <3>7. clean \in BOOLEAN /\ (clean => sound) /\ pc = IF ~last THEN "recheck" ELSE IF sound THEN "recheck-child" ELSE "late"
      BY <3>3
    <3> HIDE DEF clean, reading
    <3> QED
      BY <3>1, <3>5, <3>6, <3>7
  <2> DEFINE M == [local EXCEPT !.clean = clean, !.pc = pc, !.k = k]
             L == [M EXCEPT !.reading = reading]
  <2> HIDE DEF seen, same, sound, last
  <2>10. pc \in Places
    BY DEF Places
  <2>3. /\ LocalOK(M) /\ M.pc = pc /\ M.k = k /\ M.clean = clean /\ M.snap = local.snap /\ M.names = local.names /\ M.pass = local.pass
        /\ M.expected = local.expected /\ M.childSha = local.childSha /\ M.status = local.status /\ M.tries = local.tries
    BY <1>1, <2>10 DEF LocalOK
  <2>4. fin'[f] = L
    <3>1. fin'[f] = [local EXCEPT !.clean = clean, !.reading = reading, !.pc = pc, !.k = k]
      BY <2>2
    <3> QED
      BY <1>1, <3>1 DEF LocalOK, Places
  <2> HIDE DEF M
  <2>8. /\ LocalOK(L) /\ L.pc = pc /\ L.k = k /\ L.clean = clean /\ L.snap = local.snap /\ L.names = local.names /\ L.pass = local.pass
        /\ L.expected = local.expected /\ L.childSha = local.childSha /\ L.status = local.status /\ L.tries = local.tries
    <3>1. reading \in Children \cup {Missing}
      BY <2>2
    <3> QED
      BY <2>3, <3>1 DEF LocalOK
  <2> HIDE DEF L
  <2>5. pc \in {"recheck-child", "late"} /\ clean => local.snap["child"] # Missing /\ local.snap["child"].status = "PASS"
    <3>1. Digest(f, "child") = child
      BY LabelsAre DEF Digest
    <3> QED
      <4> HAVE pc \in {"recheck-child", "late"} /\ clean
      <4>1. sound /\ last
        BY <2>2
      <4>2. local.names[local.k] = "child"
        BY <1>7, <2>1, <4>1 DEF Writing, last
      <4>3. same /\ child.status = "PASS"
        BY <4>1 DEF sound
      <4> QED
        BY <3>1, <4>2, <4>3 DEF same, seen
  <2>6. local.snap["result"] = result[f]
    BY <1>1, <2>1 DEF WriteInv, Writing
  <2>7. ReadInv(f)' /\ WriteInv(f)'
    BY <1>4, <1>5, <1>7, <2>1, <2>2, <2>8, <2>4, <2>5, <2>6 DEF Writing
  <2> QED
    BY <1>1, <2>1, <2>8, <2>4, <2>7
<1>10. CASE FinRecheckChild(f)
  <2>1. local.pc = "recheck-child" /\ UNCHANGED result
    BY <1>10 DEF FinRecheckChild, At, Unshared
  <2>2. PICK clean \in BOOLEAN, pc \in {"recheck-child", "late"}, k \in Nat :
           (clean => local.clean) /\ fin'[f] = [local EXCEPT !.clean = clean, !.pc = pc, !.k = k]
    <3> DEFINE same == Digest(f, ChildEvidence[local.k]) = local.reading.evidence[ChildEvidence[local.k]]
    <3>1. PICK k \in Nat : k = local.k + 1
      BY <1>1 DEF LocalOK, Places
    <3>2. fin'[f] = [local EXCEPT !.clean = @ /\ same, !.pc = IF local.k < Len(ChildEvidence) THEN @ ELSE "late", !.k = k]
      BY <1>1, <1>2, <1>10, <3>1 DEF FinRecheckChild, LocalOK, Places
    <3> HIDE DEF same
    <3>3. (local.clean /\ same) \in BOOLEAN /\ ((local.clean /\ same) => local.clean)
      BY <1>1 DEF LocalOK, Places
    <3> QED
      BY <2>1, <3>2, <3>3
  <2> DEFINE L == [local EXCEPT !.clean = clean, !.pc = pc, !.k = k]
  <2>3. /\ LocalOK(L) /\ L.pc = pc /\ L.k = k /\ L.clean = clean /\ L.snap = local.snap /\ L.names = local.names /\ L.pass = local.pass
        /\ L.expected = local.expected /\ L.childSha = local.childSha /\ L.status = local.status /\ L.tries = local.tries
    BY <1>1, <2>2 DEF LocalOK, Places
  <2>4. fin'[f] = L
    BY <2>2
  <2> HIDE DEF L
  <2>5. local.snap["result"] = result[f]
        /\ (clean => local.snap["child"] # Missing /\ local.snap["child"].status = "PASS")
    BY <1>1, <2>1, <2>2 DEF WriteInv, Writing
  <2>6. ReadInv(f)' /\ WriteInv(f)'
    BY <1>4, <1>5, <2>1, <2>2, <2>3, <2>4, <2>5 DEF Writing
  <2> QED
    BY <1>1, <2>1, <2>3, <2>4, <2>6
<1>11. CASE FinLate(f)
  <2>1. local.pc = "late" /\ local.names \in Seq(Names)
    BY <1>1, <1>11 DEF FinLate, At, LocalOK, Places
  <2> DEFINE again == local.tries = 1 /\ (Late(f) # {} \/ (Status(f) # "PASS" /\ result[f].exit = 0))
             pass  == local.pass \ FailedBy(Late(f))
             exit  == IF local.exit # 0 THEN local.exit ELSE 1
  <2>2. pass \in SUBSET CHECKS /\ pass \subseteq local.pass /\ exit \in Nat \ {0}
    BY <1>1 DEF LocalOK, Places
  <2>3. CASE again
    <3> DEFINE L == [local EXCEPT !.pass = pass, !.pc = "snapshot", !.k = 1, !.snap = NoSnap, !.clean = TRUE, !.tries = 2]
    <3>1. result' = [result EXCEPT ![f] = [pass |-> pass, exit |-> exit]] /\ Step(f, L)
      BY <1>11, <2>3 DEF FinLate
    <3> HIDE DEF pass, exit, again
    <3>2. result'[f] \in Results /\ result'[f].pass = pass /\ result'[f].exit # 0
      BY <1>1, <2>2, <3>1 DEF Results
    <3>3. /\ LocalOK(L) /\ L.pc = "snapshot" /\ L.k = 1 /\ L.snap = NoSnap /\ L.names = local.names /\ L.pass = pass
          /\ L.expected = local.expected /\ L.childSha = local.childSha /\ L.status = local.status
      BY <1>1, <2>2 DEF LocalOK, Places, NoSnap
    <3> HIDE DEF L
    <3>4. fin'[f] = L
      BY <1>2, <3>1
    <3>5. NoSnap["child"] = Missing /\ \A l \in Labels : NoSnap[l] = Missing /\ (identity # Missing => identity.files[l] # Missing)
      BY <1>1, MissingAssumption DEF Manifests, NoSnap, Names
    <3>6. ReadInv(f)'
      BY <1>1, <1>3, <2>2, <3>3, <3>4, <3>5 DEF ReadInv, Writing, Sound
    <3>7. WriteInv(f)'
      BY <1>1, <1>4, <1>7, <2>1, <3>2, <3>3, <3>4, MissingAssumption DEF WriteInv, Writing
    <3> QED
      BY <3>2, <3>3, <3>4, <3>6, <3>7
  <2>4. CASE ~again
    <3> DEFINE L == [local EXCEPT !.pc = "link"]
    <3>1. UNCHANGED result /\ fin'[f] = L
      BY <1>2, <1>11, <2>4 DEF FinLate
    <3>2. /\ LocalOK(L) /\ L.pc = "link" /\ L.clean = local.clean /\ L.snap = local.snap /\ L.names = local.names /\ L.pass = local.pass
          /\ L.expected = local.expected /\ L.childSha = local.childSha /\ L.status = local.status /\ L.tries = local.tries
      BY <1>1 DEF LocalOK, Places
    <3> HIDE DEF L, again
    <3>3. ReadInv(f)'
      BY <1>1, <1>3, <2>1, <3>1, <3>2 DEF ReadInv, Writing, Sound
    <3>4. Status(f)' = Status(f) /\ Late(f)' = Late(f)
      BY <3>1, <3>2 DEF Status, Late, Recorded
    <3>5. Status(f) = "PASS" => Late(f) = {}
      BY <1>1, <2>1, <2>4 DEF again, Status, WriteInv, Writing
    <3>6. WriteInv(f)'
      BY <1>1, <1>4, <2>1, <3>1, <3>2, <3>4, <3>5 DEF WriteInv, Writing
    <3> QED
      BY <1>1, <3>1, <3>2, <3>3, <3>6
  <2> QED
    BY <2>3, <2>4
<1> QED
  BY <1>6, <1>8, <1>9, <1>10, <1>11

\* A finaliser's step changes its own locals and its own result.
LEMMA FinalizerStep ==
  ASSUME Inv, NEW f \in Finalizers, StartFinalizer(f) \/ Finalize(f) \/ FinAborts(f)
  PROVE  /\ LocalOK(fin[f])' /\ result'[f] \in Results \cup {Missing} /\ ReadInv(f)' /\ WriteInv(f)'
         /\ \A g \in Finalizers \ {f} : fin'[g] = fin[g] /\ result'[g] = result[g]
         /\ fin' = [g \in Finalizers |-> fin'[g]]
         /\ result' = [g \in Finalizers |-> result'[g]]
<1>1. /\ fin = [g \in Finalizers |-> fin[g]] /\ result \in [Finalizers -> Results \cup {Missing}]
      /\ LocalOK(fin[f])
  BY DEF Inv, TypeOK
<1>2. /\ \A g \in Finalizers \ {f} : fin'[g] = fin[g] /\ result'[g] = result[g]
      /\ fin' = [g \in Finalizers |-> fin'[g]] /\ result' = [g \in Finalizers |-> result'[g]]
  <2>1. \E L : fin' = [fin EXCEPT ![f] = L]
    BY DEF StartFinalizer, FinAborts, Finalize, FinBegin, FinManifest, FinInput, FinChildDigest, FinReadChild, FinChildEvidence,
           FinChildAgain, FinResult, FinSnapshot, FinRecheck, FinRecheckChild, FinLate, FinLink, Step
  <2>2. result' = result \/ \E R : result' = [result EXCEPT ![f] = R]
    BY DEF StartFinalizer, FinAborts, Finalize, FinBegin, FinManifest, FinInput, FinChildDigest, FinReadChild, FinChildEvidence,
           FinChildAgain, FinResult, FinSnapshot, FinRecheck, FinRecheckChild, FinLate, FinLink, Unshared
  <2>3. /\ \A g \in Finalizers \ {f} : fin'[g] = fin[g]
        /\ fin' = [g \in Finalizers |-> fin'[g]]
    BY <1>1, <2>1
  <2>4. /\ \A g \in Finalizers \ {f} : result'[g] = result[g]
        /\ result' = [g \in Finalizers |-> result'[g]]
    BY <1>1, <2>2
  <2> QED
    BY <2>3, <2>4
<1>3. LocalOK(fin[f])' /\ result'[f] \in Results \cup {Missing} /\ ReadInv(f)' /\ WriteInv(f)'
  <2>1. CASE FinBegin(f) \/ FinManifest(f) \/ FinInput(f) \/ FinChildDigest(f) \/ FinReadChild(f)
             \/ FinChildEvidence(f) \/ FinChildAgain(f)
    <3>1. result' = result
      BY <2>1 DEF FinBegin, FinManifest, FinInput, FinChildDigest, FinReadChild, FinChildEvidence, FinChildAgain, Unshared
    <3> QED
      BY <1>1, <2>1, <3>1, ReadingStep
  <2>2. CASE FinResult(f) \/ FinSnapshot(f) \/ FinRecheck(f) \/ FinRecheckChild(f) \/ FinLate(f)
    BY <2>2, WritingStep
  <2>3. CASE StartFinalizer(f)
    <3>1. result' = result /\ fin'[f] = [Locals EXCEPT !.pc = "start"]
      BY <1>1, <2>3 DEF StartFinalizer, Unshared, Step
    <3> QED
      BY <1>1, <3>1, FreshOrOver
  <2>4. CASE FinLink(f) \/ FinAborts(f)
    <3>1. result' = result /\ (fin'[f] = Ended("none") \/ fin'[f] = Ended(Status(f)))
      BY <1>1, <2>4 DEF FinLink, FinAborts, Step
    <3>2. Status(f) \in {"none", "PASS", "FAIL"}
      BY DEF Status
    <3> QED
      BY <1>1, <3>1, <3>2, FreshOrOver
  <2> QED
    BY <2>1, <2>2, <2>3, <2>4 DEF Finalize
<1> QED
  BY <1>2, <1>3

--------------------------------------------------------------------------------
(* Every step keeps the invariant.                                         *)

\* What each finaliser knows, and the types of its locals and of its result.
LEMMA StepLocals ==
  ASSUME Inv, [Next]_vars
  PROVE  /\ fin' = [f \in Finalizers |-> fin'[f]] /\ result' \in [Finalizers -> Results \cup {Missing}]
         /\ \A f \in Finalizers : LocalOK(fin[f])' /\ ReadInv(f)' /\ WriteInv(f)'
<1>1. Progress
  BY StepProgress
<1>2. /\ fin = [f \in Finalizers |-> fin[f]] /\ result \in [Finalizers -> Results \cup {Missing}]
      /\ \A f \in Finalizers : LocalOK(fin[f])
  BY DEF Inv, TypeOK
<1>3. ASSUME NEW f \in Finalizers, fin'[f] = fin[f], result'[f] = result[f] PROVE LocalOK(fin[f])' /\ ReadInv(f)' /\ WriteInv(f)'
  BY <1>1, <1>2, <1>3, Untouched DEF LocalOK
<1>4. CASE fin' = fin /\ result' = result
  BY <1>2, <1>3, <1>4
<1>5. CASE RunFinalizer
  <2>1. result' = result /\ fin' = [fin EXCEPT ![Trap] = [Locals EXCEPT !.pc = "start", !.exit = code]] /\ code \in Nat
    BY <1>5 DEF RunFinalizer, Inv, TypeOK
  <2>2. LocalOK(fin[Trap])' /\ ReadInv(Trap)' /\ WriteInv(Trap)'
    <3>1. fin'[Trap] = [Locals EXCEPT !.pc = "start", !.exit = code]
      BY <1>2, <2>1, FinalizersAssumption
    <3> QED
      BY <2>1, <3>1, FinalizersAssumption, FreshOrOver
  <2>3. ASSUME NEW f \in Finalizers \ {Trap} PROVE LocalOK(fin[f])' /\ ReadInv(f)' /\ WriteInv(f)'
    <3>1. fin'[f] = fin[f] /\ result'[f] = result[f]
      BY <1>2, <2>1
    <3> QED
      BY <1>3, <3>1
  <2>4. fin' = [f \in Finalizers |-> fin'[f]]
    BY <1>2, <2>1
  <2> QED
    BY <1>2, <2>1, <2>2, <2>3, <2>4
<1>6. ASSUME NEW f \in Finalizers, StartFinalizer(f) \/ Finalize(f) \/ FinAborts(f)
      PROVE  /\ fin' = [g \in Finalizers |-> fin'[g]] /\ result' \in [Finalizers -> Results \cup {Missing}]
             /\ \A g \in Finalizers : LocalOK(fin[g])' /\ ReadInv(g)' /\ WriteInv(g)'
  <2>1. /\ LocalOK(fin[f])' /\ result'[f] \in Results \cup {Missing} /\ ReadInv(f)' /\ WriteInv(f)'
        /\ \A g \in Finalizers \ {f} : fin'[g] = fin[g] /\ result'[g] = result[g]
        /\ fin' = [g \in Finalizers |-> fin'[g]] /\ result' = [g \in Finalizers |-> result'[g]]
    BY <1>6, FinalizerStep
  <2>2. \A g \in Finalizers : result'[g] \in Results \cup {Missing}
    BY <1>2, <2>1
  <2>3. ASSUME NEW g \in Finalizers PROVE LocalOK(fin[g])' /\ ReadInv(g)' /\ WriteInv(g)'
    <3>1. CASE g = f
      BY <2>1, <3>1
    <3>2. CASE g # f
      BY <1>3, <2>1, <3>2
    <3> QED
      BY <3>1, <3>2
  <2> QED
    BY <2>1, <2>2, <2>3
<1> QED
  BY <1>4, <1>5, <1>6
  DEF Next, WrapperStep, GateStep, Sha256Sum, Capture, VerifyInputs, Install, StartGate, AwaitGate, Decide, Terminate,
      GateResult, GateReport, GateExit, Edit, Over, vars

\* A finaliser changes no file that it reads, neither the wrapper nor the gate.
LEMMA FinalizerFrame ==
  ASSUME NEW f \in Finalizers, StartFinalizer(f) \/ Finalize(f) \/ FinAborts(f)
  PROVE  UNCHANGED <<disk, shell, gate, used, edits, kills>> /\ aborts' \in {aborts, aborts + 1}
BY DEF StartFinalizer, FinAborts, Finalize, FinBegin, FinManifest, FinInput, FinChildDigest, FinReadChild, FinChildEvidence,
       FinChildAgain, FinResult, FinSnapshot, FinRecheck, FinRecheckChild, FinLate, FinLink, Unshared, outside

\* The files, the wrapper and the gate.
LEMMA StepTypes == Inv /\ [Next]_vars => TypeOK'
<1> SUFFICES ASSUME Inv, [Next]_vars PROVE TypeOK'
  OBVIOUS
<1>1. TypeOK
  BY DEF Inv
<1>2. fin' = [f \in Finalizers |-> fin'[f]] /\ result' \in [Finalizers -> Results \cup {Missing}] /\ \A f \in Finalizers : LocalOK(fin'[f])
  <2>1. \A f \in Finalizers : LocalOK(fin[f])'
    BY StepLocals
  <2> QED
    BY <2>1, StepLocals DEF LocalOK, Places
<1>3. (edits \in Nat /\ kills \in Nat /\ aborts \in Nat)'
  <2>1. CASE WrapperStep \/ GateStep \/ UNCHANGED vars
    <3>1. UNCHANGED outside
      BY <2>1 DEF WrapperStep, GateStep, Sha256Sum, Capture, VerifyInputs, Install, StartGate, AwaitGate, RunFinalizer, Decide,
                  GateResult, GateReport, GateExit, vars
    <3> QED
      BY <1>1, <3>1 DEF TypeOK, outside
  <2>2. CASE Terminate \/ Edit
    <3>1. edits' \in {edits, edits + 1} /\ kills' \in {kills, kills + 1} /\ aborts' = aborts
      BY <2>2 DEF Terminate, Edit
    <3> QED
      BY <1>1, <3>1 DEF TypeOK
  <2>3. CASE \E f \in Finalizers : StartFinalizer(f) \/ Finalize(f) \/ FinAborts(f)
    <3>1. UNCHANGED <<edits, kills>> /\ aborts' \in {aborts, aborts + 1}
      BY <2>3, FinalizerFrame
    <3> QED
      BY <1>1, <3>1 DEF TypeOK
  <2> QED
    BY <2>1, <2>2, <2>3 DEF Next, Over
<1>4. /\ wrapper' \in {"sum", "capture", "verify-1", "install", "verify-2", "verify-3", "start", "gate",
                       "verify-4", "trap", "finalize", "exited", "killed"}
      /\ code' \in Nat /\ gate' \in {"none", "running", "passed", "failed"} /\ decision' \in {"none", "PASS", "FAIL"}
  <2>1. CASE Sha256Sum \/ Capture \/ VerifyInputs \/ Install \/ StartGate
    BY <1>1, <2>1 DEF TypeOK, Sha256Sum, Capture, VerifyInputs, Install, StartGate, Go, Die
  <2>2. CASE AwaitGate \/ RunFinalizer \/ Terminate
    BY <1>1, <2>2 DEF TypeOK, AwaitGate, RunFinalizer, Terminate, Go, Die
  <2>3. CASE Decide
    BY <1>1, <2>3 DEF TypeOK, Decide
  <2>4. CASE GateStep
    BY <1>1, <2>4 DEF TypeOK, GateStep, GateResult, GateReport, GateExit, shell
  <2>5. CASE Edit \/ UNCHANGED vars
    BY <1>1, <2>5 DEF TypeOK, Edit, shell, vars
  <2>6. CASE \E f \in Finalizers : StartFinalizer(f) \/ Finalize(f) \/ FinAborts(f)
    <3>1. UNCHANGED <<shell, gate>>
      BY <2>6, FinalizerFrame
    <3> QED
      BY <1>1, <3>1 DEF TypeOK, shell
  <2> QED
    BY <2>1, <2>2, <2>3, <2>4, <2>5, <2>6 DEF Next, WrapperStep, Over
<1>5. (/\ input \in [Labels -> Versions] /\ used \in [Labels -> Versions]
       /\ wheelSum \in Versions /\ proof \in Versions /\ log \in {Missing, 0, 1}
       /\ manifest \in Manifests \cup {Missing} /\ identity \in Manifests \cup {Missing}
       /\ child \in Children \cup {Missing})'
  <2>1. CASE Sha256Sum \/ VerifyInputs \/ AwaitGate \/ RunFinalizer \/ Decide \/ Terminate \/ UNCHANGED vars
    BY <1>1, <2>1, LabelsAre
    DEF TypeOK, Sha256Sum, VerifyInputs, AwaitGate, RunFinalizer, Decide, Terminate, Go, Die, disk, shell, vars
  <2>2. CASE Capture
    <3>1. CASE Missing \in Range(input)
      BY <1>1, <2>2, <3>1 DEF TypeOK, Capture, Die
    <3>2. CASE Missing \notin Range(input)
      <4>1. input \in [Labels -> Nat]
        BY <1>1, <3>2 DEF TypeOK, Versions, Range
      <4>2. [files |-> input, edit |-> 0] \in Manifests
        BY <4>1 DEF Manifests
      <4> QED
        BY <1>1, <2>2, <3>2, <4>2 DEF TypeOK, Capture
    <3> QED
      BY <3>1, <3>2
  <2>3. CASE Install \/ StartGate
    BY <1>1, <2>3, LabelsAre DEF TypeOK, Install, StartGate, Go, Die, disk
  <2>4. CASE GateStep
    <3>1. CASE GateReport
      <4>1. PICK status \in {"PASS", "FAIL"} :
               child' = [status |-> status, edit |-> 0, evidence |-> [proof |-> proof, evaluator |-> input["evaluator"]]]
        BY <3>1 DEF GateReport
      <4>2. input["evaluator"] \in Versions /\ proof \in Versions
        BY <1>1, LabelsAre DEF TypeOK
      <4>3. child' \in Children
        BY <4>1, <4>2 DEF Children
      <4> QED
        BY <1>1, <3>1, <4>3 DEF TypeOK, GateReport, shell
    <3>2. CASE GateResult \/ GateExit
      BY <1>1, <3>2 DEF TypeOK, GateResult, GateExit, shell, Versions
    <3> QED
      BY <2>4, <3>1, <3>2 DEF GateStep
  <2>5. CASE Edit
    <3>1. edits + 1 \in Nat /\ edits + 1 \in Versions /\ Missing \in Versions
      BY <1>1 DEF TypeOK, Versions
    <3>2. child' \in Children \cup {Missing}
      <4>1. child' = child \/ (child # Missing /\ child' = [child EXCEPT !.edit = edits + 1])
        BY <2>5 DEF Edit, EditInput, EditManifest, EditProof, EditChild
      <4>2. child \in Children /\ edits + 1 \in Nat => [child EXCEPT !.edit = edits + 1] \in Children
        BY DEF Children
      <4> QED
        BY <1>1, <3>1, <4>1, <4>2 DEF TypeOK
    <3>3. manifest' \in Manifests \cup {Missing}
      <4>1. manifest' = manifest \/ (manifest # Missing /\ manifest' = [manifest EXCEPT !.edit = edits + 1])
        BY <2>5 DEF Edit, EditInput, EditManifest, EditProof, EditChild
      <4>2. manifest \in Manifests /\ edits + 1 \in Nat => [manifest EXCEPT !.edit = edits + 1] \in Manifests
        BY DEF Manifests
      <4> QED
        BY <1>1, <3>1, <4>1, <4>2 DEF TypeOK
    <3>4. input' \in [Labels -> Versions] /\ proof' \in Versions /\ UNCHANGED <<used, wheelSum, log, identity>>
      BY <1>1, <2>5, <3>1 DEF TypeOK, Edit, EditInput, EditManifest, EditProof, EditChild, shell
    <3> QED
      BY <1>1, <3>2, <3>3, <3>4 DEF TypeOK
  <2>6. CASE \E f \in Finalizers : StartFinalizer(f) \/ Finalize(f) \/ FinAborts(f)
    <3>1. UNCHANGED <<disk, used, identity>>
      BY <2>6, FinalizerFrame DEF shell
    <3> QED
      BY <1>1, <3>1 DEF TypeOK, disk
  <2> QED
    BY <2>1, <2>2, <2>3, <2>4, <2>5, <2>6 DEF Next, WrapperStep, Over
<1> QED
  BY <1>2, <1>3, <1>4, <1>5 DEF TypeOK

\* The wrapper's order, and what was read when.
LEMMA StepFlow == Inv /\ [Next]_vars => FlowInv'
<1> SUFFICES ASSUME Inv, [Next]_vars PROVE FlowInv'
  OBVIOUS
<1>1. TypeOK /\ FlowInv
  BY DEF Inv
<1>2. input["wheel"] \in Versions /\ input["evaluator"] \in Versions /\ DOMAIN used = Labels /\ Trap \in Finalizers
  BY <1>1, LabelsAre, FinalizersAssumption DEF TypeOK
<1>3. CASE Sha256Sum \/ VerifyInputs \/ AwaitGate \/ Terminate \/ Decide \/ UNCHANGED vars
  <2>1. UNCHANGED <<input, child, used, gate, identity, edits, output, fin>>
    BY <1>3 DEF Sha256Sum, VerifyInputs, AwaitGate, Terminate, Decide, Go, Die, disk, outside, shell, vars
  <2>2. \A version, l : Drift(version, l)' = Drift(version, l)
    BY <2>1 DEF Drift
  <2>3. /\ wrapper' \in Early => wrapper \in Early
        /\ wrapper' \in Pinned => wrapper \in Pinned \/ identity # Missing
        /\ wrapper' \in Pinned \ {"gate", "verify-4"} => wrapper \in Pinned \ {"gate", "verify-4"}
        /\ wrapper' \in {"verify-2", "verify-3", "start"} => wrapper \in {"verify-2", "verify-3", "start"}
        /\ wrapper' \notin {"finalize", "exited", "killed"} => wrapper \notin {"finalize", "exited", "killed"}
    BY <1>3 DEF Sha256Sum, VerifyInputs, AwaitGate, Terminate, Decide, Go, Die, shell, vars, Early, Pinned
  <2> QED
    BY <1>1, <2>1, <2>2, <2>3 DEF FlowInv
<1>4. CASE Capture
  <2>1. UNCHANGED <<input, child, used, gate, edits, output, fin>> /\ wrapper \in Early /\ wrapper' \in {"trap", "verify-1"}
        /\ gate = "none"
    BY <1>1, <1>4 DEF Capture, Die, outside, Early, FlowInv
  <2>2. identity' # Missing => \A l \in Labels : identity'.files[l] <= edits
    <3>1. CASE identity' = identity
      BY <1>1, <3>1 DEF FlowInv
    <3>2. CASE Missing \notin Range(input) /\ identity' = [files |-> input, edit |-> 0]
      <4>1. \A l \in Labels : input[l] # Missing
        BY <1>1, <3>2 DEF TypeOK, Range
      <4> QED
        BY <1>1, <3>2, <4>1 DEF FlowInv
    <3> QED
      BY <1>4, <3>1, <3>2 DEF Capture, Die
  <2>3. wrapper' = "verify-1" => identity' # Missing
    <3>1. ASSUME Missing \notin Range(input) PROVE [files |-> input, edit |-> 0] \in Manifests
      BY <1>1, <3>1 DEF TypeOK, Versions, Range, Manifests
    <3> QED
      BY <1>4, <3>1, MissingAssumption DEF Capture, Die
  <2>4. fin[Trap].pc = "idle" /\ child = Missing
    BY <1>1, <1>2, <2>1 DEF FlowInv, Locals
  <2> QED
    BY <1>1, <2>1, <2>2, <2>3, <2>4 DEF FlowInv, Early, Pinned
<1>5. CASE Install
  <2>1. UNCHANGED <<input, child, gate, identity, edits, output, fin>> /\ wrapper = "install" /\ wrapper' \in {"verify-2", "trap"}
        /\ used'["wheel"] = input["wheel"] /\ gate = "none"
    BY <1>1, <1>2, <1>5, LabelsAre DEF Install, Go, Die, disk, outside, FlowInv, Pinned
  <2>2. Drift(used["wheel"], "wheel")'
    BY <2>1 DEF Drift
  <2>3. fin[Trap].pc = "idle" /\ child = Missing
    BY <1>1, <2>1 DEF FlowInv
  <2> QED
    BY <1>1, <2>1, <2>2, <2>3 DEF FlowInv, Early, Pinned
<1>6. CASE StartGate
  <2>1. UNCHANGED <<input, child, identity, edits, output, fin>> /\ wrapper = "start" /\ wrapper' = "gate"
        /\ used'["evaluator"] = input["evaluator"] /\ used'["wheel"] = used["wheel"] /\ gate = "none" /\ gate' # "none"
    BY <1>1, <1>2, <1>6, LabelsAre DEF StartGate, Go, outside, FlowInv, Pinned
  <2>2. Drift(used["wheel"], "wheel")' /\ Drift(used["evaluator"], "evaluator")'
    BY <1>1, <2>1 DEF Drift, FlowInv
  <2>3. fin[Trap].pc = "idle" /\ child = Missing /\ identity # Missing
    BY <1>1, <2>1 DEF FlowInv, Pinned
  <2> QED
    BY <1>1, <2>1, <2>2, <2>3 DEF FlowInv, Early, Pinned
<1>7. CASE GateStep
  <2>1. UNCHANGED <<input, used, wrapper, identity, edits, output, fin>> /\ gate # "none" /\ gate' # "none"
    BY <1>7 DEF GateStep, GateResult, GateReport, GateExit, outside, shell
  <2>2. child' # Missing => Drift(child.evidence.evaluator, "evaluator")'
    <3>1. CASE child' = child
      BY <1>1, <2>1, <3>1 DEF FlowInv, Drift
    <3>2. CASE child'.evidence.evaluator = input["evaluator"]
      BY <2>1, <3>2 DEF Drift
    <3> QED
      BY <1>7, <3>1, <3>2 DEF GateStep, GateResult, GateReport, GateExit
  <2> QED
    BY <1>1, <2>1, <2>2 DEF FlowInv, Drift
<1>8. CASE RunFinalizer
  <2>1. UNCHANGED <<input, child, used, gate, identity, edits, output>> /\ wrapper' = "finalize"
    BY <1>8 DEF RunFinalizer, Go, disk, outside
  <2> QED
    BY <1>1, <2>1 DEF FlowInv, Drift, Early, Pinned
<1>9. CASE Edit
  <2>1. UNCHANGED <<used, wrapper, gate, identity, output, fin>> /\ edits' = edits + 1 /\ edits \in Nat
    BY <1>1, <1>9 DEF TypeOK, Edit, shell
  <2>2. \A l \in Labels : input'[l] \in {input[l], edits + 1, Missing}
    BY <1>1, <1>9 DEF TypeOK, Edit, EditInput, EditManifest, EditProof, EditChild
  <2>3. \A l \in Labels : input[l] \in Nat \cup {Missing} /\ (input[l] # Missing => input[l] <= edits)
    BY <1>1 DEF TypeOK, Versions, FlowInv
  <2>4. \A l \in Labels : input'[l] # Missing => input'[l] <= edits'
    BY <2>1, <2>2, <2>3
  <2>5. child # Missing <=> child' # Missing
    <3>1. child' = child \/ (child # Missing /\ child' = [child EXCEPT !.edit = edits + 1])
      BY <1>9 DEF Edit, EditInput, EditManifest, EditProof, EditChild
    <3>2. child # Missing => child \in Children /\ edits + 1 \in Nat
      BY <1>1 DEF TypeOK
    <3>3. child \in Children /\ edits + 1 \in Nat => [child EXCEPT !.edit = edits + 1] \in Children
      BY DEF Children
    <3> QED
      BY <3>1, <3>2, <3>3, MissingAssumption
  <2>6. ASSUME identity # Missing, NEW l \in Labels, NEW version, Drift(version, l) PROVE Drift(version, l)'
    <3>1. identity.files[l] \in Nat /\ identity.files[l] <= edits
      BY <1>1, <2>6 DEF TypeOK, Manifests, FlowInv
    <3> QED
      BY <2>1, <2>2, <2>6, <3>1, MissingAssumption DEF Drift
  <2>7. child' # Missing => child'.evidence = child.evidence
    BY <2>5, StepProgress DEF Progress
  <2>8. /\ wrapper \in {"verify-2", "verify-3", "start"} => identity # Missing
        /\ child # Missing => gate # "none"
        /\ gate # "none" => identity # Missing
    BY <1>1 DEF FlowInv, Pinned
  <2>9. /\ gate # "none" \/ wrapper \in {"verify-2", "verify-3", "start"} => Drift(used["wheel"], "wheel")'
        /\ gate # "none" => Drift(used["evaluator"], "evaluator")'
        /\ child # Missing => Drift(child.evidence.evaluator, "evaluator")'
    <3>1. \A version : Drift(version, "wheel") /\ identity # Missing => (version = identity.files["wheel"] \/ input'["wheel"] # identity.files["wheel"])
      BY <2>1, <2>6, LabelsAre DEF Drift
    <3>2. \A version : Drift(version, "evaluator") /\ identity # Missing
                          => (version = identity.files["evaluator"] \/ input'["evaluator"] # identity.files["evaluator"])
      BY <2>1, <2>6, LabelsAre DEF Drift
    <3>3. /\ gate # "none" \/ wrapper \in {"verify-2", "verify-3", "start"} => Drift(used["wheel"], "wheel")
          /\ gate # "none" => Drift(used["evaluator"], "evaluator")
          /\ child # Missing => Drift(child.evidence.evaluator, "evaluator")
      BY <1>1 DEF FlowInv
    <3> QED
      BY <2>1, <2>5, <2>7, <2>8, <3>1, <3>2, <3>3 DEF Drift
  <2>10. identity # Missing => \A l \in Labels : identity.files[l] <= edits'
    <3>1. ASSUME identity # Missing, NEW l \in Labels PROVE identity.files[l] \in Nat /\ identity.files[l] <= edits
      BY <1>1, <3>1 DEF TypeOK, Manifests, FlowInv
    <3> QED
      BY <2>1, <3>1
  <2> QED
    BY <1>1, <2>1, <2>4, <2>5, <2>8, <2>9, <2>10 DEF FlowInv
<1>10. ASSUME NEW f \in Finalizers, StartFinalizer(f) \/ Finalize(f) \/ FinAborts(f) PROVE FlowInv'
  <2>1. UNCHANGED <<input, child, used, wrapper, gate, identity, edits>>
    BY <1>10, FinalizerFrame DEF disk, shell
  <2>2. wrapper \notin Early
    <3>1. fin[f] = Locals => ~(Finalize(f) \/ FinAborts(f))
      BY DEF Locals, Finalize, FinBegin, FinManifest, FinInput, FinChildDigest, FinReadChild, FinChildEvidence, FinChildAgain,
             FinResult, FinSnapshot, FinRecheck, FinRecheckChild, FinLate, FinLink, FinAborts, At
    <3> QED
      BY <1>1, <1>10, <3>1 DEF StartFinalizer, FlowInv, Early
  <2>3. fin[Trap].pc = "idle" => fin'[Trap] = fin[Trap]
    <3>1. fin[f].pc = "idle" => ~(Finalize(f) \/ FinAborts(f))
      BY DEF Finalize, FinBegin, FinManifest, FinInput, FinChildDigest, FinReadChild, FinChildEvidence, FinChildAgain,
             FinResult, FinSnapshot, FinRecheck, FinRecheckChild, FinLate, FinLink, FinAborts, At
    <3>2. f # Trap => fin'[Trap] = fin[Trap]
      BY <1>2, <1>10, FinalizerStep
    <3> QED
      BY <1>10, <3>1, <3>2 DEF StartFinalizer
  <2> QED
    BY <1>1, <2>1, <2>2, <2>3 DEF FlowInv, Drift
<1> QED
  BY <1>3, <1>4, <1>5, <1>6, <1>7, <1>8, <1>9, <1>10 DEF Next, WrapperStep, Over

\* What the link publishes when it does.
LEMMA LinkPublishes ==
  ASSUME Inv, NEW f \in Finalizers, FinLink(f), output = NoReport
  PROVE  /\ output' = Report(f) /\ output' # NoReport /\ fin'[f] = Ended(Status(f))
         /\ output'.by = f /\ output'.status = Status(f) /\ output'.pass = result[f].pass /\ output'.exit = result[f].exit
         /\ output'.evidence["result"] = result[f]
         /\ Status(f) = "PASS" =>
               /\ output'.exit = 0 /\ output'.pass = CHECKS
               /\ gate # "none" /\ child # Missing
               /\ output'.evidence["manifest"] = identity
               /\ \A l \in Labels : output'.evidence[l] = identity.files[l] /\ used[l] = identity.files[l]
               /\ output'.evidence["child"] = output'.validated
               /\ output'.validated.status = "PASS"
               /\ output'.validated.evidence = child.evidence
               /\ child.evidence.evaluator = identity.files["evaluator"]
<1> DEFINE local == fin[f]
<1>1. /\ LocalOK(local) /\ ReadInv(f) /\ WriteInv(f) /\ FlowInv /\ local.pc = "link"
      /\ identity \in Manifests \cup {Missing} /\ fin = [g \in Finalizers |-> fin[g]]
  BY DEF Inv, TypeOK, FinLink, At
<1>2. /\ {"manifest", "result", "child"} \subseteq Range(local.names)
      /\ local.expected # Missing => Labels \subseteq Range(local.names)
  <2>1. PICK logged \in BOOLEAN : local.names = EvidenceNames(local.expected # Missing, logged)
    BY <1>1 DEF WriteInv, Writing
  <2> QED
    BY <2>1, EvidenceOrder
<1>3. output' = Report(f) /\ fin'[f] = Ended(Status(f))
  BY <1>1 DEF FinLink, Step
<1>4. /\ output'.by = f /\ output'.status = Status(f) /\ output'.pass = local.pass /\ output'.exit = result[f].exit
      /\ output'.validated = local.childSha
      /\ \A n \in Range(local.names) : output'.evidence[n] = local.snap[n]
  BY <1>3 DEF Report, Recorded
<1>5. output' # NoReport
  <2>1. Status(f) # "none"
    BY DEF Status
  <2> QED
    BY <1>4, <2>1 DEF NoReport
<1>6. output'.pass = result[f].pass /\ output'.evidence["result"] = result[f]
  BY <1>1, <1>2, <1>4 DEF WriteInv, Writing
<1>7. ASSUME Status(f) = "PASS"
      PROVE  /\ output'.exit = 0 /\ output'.pass = CHECKS
             /\ gate # "none" /\ child # Missing
             /\ output'.evidence["manifest"] = identity
             /\ \A l \in Labels : output'.evidence[l] = identity.files[l] /\ used[l] = identity.files[l]
             /\ output'.evidence["child"] = output'.validated
             /\ output'.validated.status = "PASS"
             /\ output'.validated.evidence = child.evidence
             /\ child.evidence.evaluator = identity.files["evaluator"]
  <2>1. local.clean /\ result[f].exit = 0 /\ local.pass = CHECKS
    BY <1>7 DEF Status
  <2>2. local.expected = identity /\ identity # Missing /\ local.childSha # Missing /\ child # Missing /\ gate # "none"
    BY <1>1, <2>1 DEF ReadInv, FlowInv, CHECKS
  <2>3. Late(f) = {}
    BY <1>1, <1>7 DEF WriteInv
  <2>4. local.snap["manifest"] = identity /\ local.snap["child"] = local.childSha /\ \A l \in Labels : local.snap[l] = identity.files[l]
    <3> DEFINE Was(n) == CASE n = "manifest" -> local.expected
                           [] n \in Labels   -> local.expected.files[n]
                           [] n = "child"    -> local.childSha
                           [] OTHER          -> Missing
    <3>1. \A n \in Range(local.names) : Was(n) # Missing => local.snap[n] = Was(n)
      BY <2>3 DEF Late, Recorded
    <3>2. "manifest" \notin Labels /\ "child" \notin Labels
      BY LabelsAre
    <3>3. Was("manifest") = identity /\ Was("child") = local.childSha
      BY <2>2, <3>2
    <3>4. ASSUME NEW l \in Labels PROVE Was(l) = identity.files[l] /\ Was(l) # Missing
      <4>1. Was(l) = identity.files[l]
        BY <2>2, <3>2, <3>4
      <4>2. identity.files[l] \in Nat
        BY <1>1, <2>2, <3>4 DEF Manifests
      <4> QED
        BY <4>1, <4>2, MissingAssumption
    <3> HIDE DEF Was
    <3> QED
      BY <1>2, <2>2, <3>1, <3>3, <3>4
  <2>5. \A l \in Labels : Sound(l)
    BY <1>1, <2>2, <2>4 DEF ReadInv
  <2>6. local.snap["child"] # Missing /\ local.snap["child"].status = "PASS" /\ local.snap["child"].evidence = child.evidence
    BY <1>1, <2>1 DEF ReadInv, WriteInv
  <2> QED
    BY <1>2, <1>4, <2>1, <2>2, <2>4, <2>5, <2>6, LabelsAre DEF Sound
<1> QED
  BY <1>3, <1>4, <1>5, <1>6, <1>7

\* Only the link gives a finaliser its verdict.
LEMMA NoVerdictYet ==
  ASSUME Inv, NEW f \in Finalizers,
         \/ StartFinalizer(f) \/ FinAborts(f) \/ FinBegin(f) \/ FinManifest(f) \/ FinInput(f) \/ FinChildDigest(f)
         \/ FinReadChild(f) \/ FinChildEvidence(f) \/ FinChildAgain(f) \/ FinResult(f) \/ FinSnapshot(f) \/ FinRecheck(f)
         \/ FinRecheckChild(f) \/ FinLate(f)
  PROVE  fin'[f].status = "none"
<1> DEFINE local == fin[f]
<1>1. LocalOK(local) /\ WriteInv(f) /\ f \in DOMAIN fin
  BY DEF Inv, TypeOK
<1>2. \A L : Step(f, L) => fin'[f] = L
  BY <1>1 DEF Step
<1>3. CASE StartFinalizer(f) \/ FinAborts(f)
  BY <1>2, <1>3 DEF StartFinalizer, FinAborts, Ended, Locals
<1>4. "status" \in DOMAIN local /\ (local.pc # "ended" => local.status = "none")
  BY <1>1 DEF LocalOK, Places, WriteInv
<1>5. CASE FinBegin(f)
  BY <1>2, <1>4, <1>5 DEF FinBegin, Ended, Locals, At
<1>6. CASE FinManifest(f)
  BY <1>2, <1>4, <1>6 DEF FinManifest, At
<1>7. CASE FinInput(f)
  BY <1>2, <1>4, <1>7 DEF FinInput, At
<1>8. CASE FinChildDigest(f)
  BY <1>2, <1>4, <1>8 DEF FinChildDigest, At
<1>9. CASE FinReadChild(f)
  BY <1>2, <1>4, <1>9 DEF FinReadChild, At
<1>10. CASE FinChildEvidence(f)
  BY <1>2, <1>4, <1>10 DEF FinChildEvidence, At
<1>11. CASE FinChildAgain(f)
  BY <1>2, <1>4, <1>11 DEF FinChildAgain, At
<1>12. CASE FinResult(f)
  BY <1>2, <1>4, <1>12 DEF FinResult, At
<1>13. CASE FinSnapshot(f)
  BY <1>2, <1>4, <1>13 DEF FinSnapshot, At
<1>14. CASE FinRecheck(f)
  BY <1>2, <1>4, <1>14 DEF FinRecheck, At
<1>15. CASE FinRecheckChild(f)
  BY <1>2, <1>4, <1>15 DEF FinRecheckChild, At
<1>16. CASE FinLate(f)
  BY <1>2, <1>4, <1>16 DEF FinLate, At
<1> QED
  BY <1>3, <1>5, <1>6, <1>7, <1>8, <1>9, <1>10, <1>11, <1>12, <1>13, <1>14, <1>15, <1>16

\* What is published stays, and so does what it says of the files.
LEMMA StepOutput == Inv /\ [Next]_vars => OutputInv'
<1> SUFFICES ASSUME Inv, [Next]_vars PROVE OutputInv'
  OBVIOUS
<1>1. TypeOK /\ FlowInv /\ OutputInv /\ Progress
  BY StepProgress DEF Inv
<1>2. \A f \in Finalizers : (fin[f].pc # "ended" => fin[f].status = "none") /\ (fin'[f].pc # "ended" => fin'[f].status = "none")
  BY StepLocals DEF Inv, WriteInv
<1>3. ASSUME output' = output, Published => fin'[output.by] = fin[output.by] /\ result'[output.by] = result[output.by],
             \A f \in Finalizers : fin'[f].status \in {"none", fin[f].status},
             decision' = "PASS" => PublishedPass
      PROVE  OutputInv'
  <2>1. PublishedPass' = PublishedPass /\ Published' = Published
    BY <1>3 DEF PublishedPass, Published
  <2>2. Published => identity' = identity
    <3>1. ASSUME Published, \A f \in Finalizers : fin'[f] = Locals PROVE FALSE
      BY <1>1, <1>3, <3>1 DEF OutputInv, Locals
    <3> QED
      BY <1>1, <3>1 DEF Progress
  <2>3. OneVerdict' /\ ReportMatchesResult' /\ DecisionMatchesReport'
    BY <1>1, <1>3, <2>1 DEF OutputInv, OneVerdict, ReportMatchesResult, DecisionMatchesReport
  <2>4. PublishedPass => gate' # "none" /\ child' # Missing /\ child'.evidence = child.evidence /\ used' = used /\ identity' = identity
    BY <1>1, <2>2 DEF OutputInv, Progress, PublishedPass
  <2>5. PassMeansPinned'
    BY <1>1, <1>3, <2>1, <2>4 DEF OutputInv, PassMeansPinned
  <2> QED
    BY <1>1, <1>3, <2>1, <2>3, <2>4, <2>5 DEF OutputInv
<1>4. CASE UNCHANGED <<output, fin, result>> /\ ~Decide
  <2>1. decision' = decision
    <3>1. CASE WrapperStep
      BY <1>4, <3>1 DEF WrapperStep, Sha256Sum, Capture, VerifyInputs, Install, StartGate, AwaitGate, RunFinalizer, Go, Die
    <3>2. CASE GateStep \/ Terminate \/ Edit \/ Over \/ UNCHANGED vars
      <4>1. UNCHANGED shell \/ Terminate \/ Over \/ UNCHANGED vars
        BY <3>2 DEF GateStep, GateResult, GateReport, GateExit, Edit
      <4>2. Terminate => decision' = decision
        BY DEF Terminate, Go, Die
      <4> QED
        BY <4>1, <4>2 DEF Over, vars, shell
    <3>3. ASSUME NEW f \in Finalizers, StartFinalizer(f) \/ FinAborts(f) \/ Finalize(f) PROVE decision' = decision
      <4>1. CASE Finalize(f)
        <5>1. ~FinLink(f) => Unshared \/ UNCHANGED shell
          BY <4>1
          DEF Finalize, FinBegin, FinManifest, FinInput, FinChildDigest, FinReadChild, FinChildEvidence,
              FinChildAgain, FinResult, FinSnapshot, FinRecheck, FinRecheckChild, FinLate
        <5> QED
          BY <5>1 DEF FinLink, Unshared, shell
      <4> QED
        BY <3>3, <4>1 DEF StartFinalizer, FinAborts, Unshared, shell
    <3> QED
      BY <3>1, <3>2, <3>3 DEF Next
  <2> QED
    BY <1>1, <1>3, <1>4, <2>1 DEF OutputInv, DecisionMatchesReport
<1>5. CASE Decide
  <2>1. UNCHANGED <<output, fin, result>> /\ (decision' = "PASS" => fin[Trap].status = "PASS")
    BY <1>5 DEF Decide
  <2>2. fin[Trap].status = "PASS" => PublishedPass
    BY <1>1, FinalizersAssumption DEF OutputInv, OneVerdict, PublishedPass
  <2> QED
    BY <1>3, <2>1, <2>2
<1>6. CASE RunFinalizer
  <2>1. /\ UNCHANGED <<output, result, decision>> /\ fin'[Trap].status = "none" /\ fin[Trap].pc = "idle"
        /\ \A f \in Finalizers \ {Trap} : fin'[f] = fin[f]
    BY <1>1, <1>6, FinalizersAssumption DEF RunFinalizer, Go, TypeOK, FlowInv, Locals
  <2>2. Published => output.by # Trap /\ output.by \in Finalizers
    BY <1>1, <2>1 DEF OutputInv
  <2> QED
    BY <1>1, <1>3, <2>1, <2>2 DEF OutputInv, DecisionMatchesReport
<1>7. ASSUME NEW f \in Finalizers, StartFinalizer(f) \/ Finalize(f) \/ FinAborts(f) PROVE OutputInv'
  <2>1. /\ UNCHANGED <<disk, shell, gate, used>>
        /\ \A g \in Finalizers \ {f} : fin'[g] = fin[g] /\ result'[g] = result[g]
        /\ fin[f].pc # "ended"
    <3>1. fin[f].pc # "ended"
      BY <1>7 DEF StartFinalizer, FinAborts, Finalize, FinBegin, FinManifest, FinInput, FinChildDigest, FinReadChild,
                  FinChildEvidence, FinChildAgain, FinResult, FinSnapshot, FinRecheck, FinRecheckChild, FinLate, FinLink, At
    <3> QED
      BY <1>7, <3>1, FinalizerFrame, FinalizerStep
  <2>2. Published => output.by # f /\ output.by \in Finalizers
    BY <1>1, <2>1 DEF OutputInv
  <2>3. decision' = decision /\ (decision = "PASS" => PublishedPass)
    BY <1>1, <2>1 DEF shell, OutputInv, DecisionMatchesReport
  <2>4. CASE output' = output /\ fin'[f].status = "none"
    BY <1>3, <2>1, <2>2, <2>3, <2>4
  <2>5. CASE FinLink(f) /\ output = NoReport
    <3>1. /\ output' # NoReport /\ fin'[f] = Ended(Status(f)) /\ output'.by = f /\ output'.status = Status(f)
          /\ output'.pass = result[f].pass /\ output'.evidence["result"] = result[f]
          /\ Status(f) = "PASS" =>
               /\ output'.exit = 0 /\ output'.pass = CHECKS
               /\ gate # "none" /\ child # Missing
               /\ output'.evidence["manifest"] = identity
               /\ \A l \in Labels : output'.evidence[l] = identity.files[l] /\ used[l] = identity.files[l]
               /\ output'.evidence["child"] = output'.validated
               /\ output'.validated.status = "PASS"
               /\ output'.validated.evidence = child.evidence
               /\ child.evidence.evaluator = identity.files["evaluator"]
      BY <2>5, LinkPublishes
    <3>2. UNCHANGED <<result, identity, child, gate, used>>
      BY <2>1, <2>5 DEF FinLink, disk, shell
    <3>3. fin'[f].pc = "ended" /\ fin'[f].status = Status(f) /\ Status(f) # "none"
      BY <3>1 DEF Ended, Locals, Status
    <3>4. \A g \in Finalizers \ {f} : fin'[g].status = "none"
      BY <1>1, <2>1, <2>5 DEF OutputInv, OneVerdict, Published
    <3>5. decision' # "PASS"
      BY <2>3, <2>5 DEF PublishedPass, Published
    <3>6. OneVerdict' /\ ReportMatchesResult' /\ DecisionMatchesReport'
      BY <3>1, <3>2, <3>3, <3>4, <3>5 DEF OneVerdict, ReportMatchesResult, DecisionMatchesReport, Published
    <3>7. PassMeansPinned'
      BY <3>1, <3>2, LabelsAre DEF PassMeansPinned, PublishedPass
    <3> QED
      BY <3>1, <3>2, <3>3, <3>6, <3>7 DEF OutputInv, Published, PublishedPass
  <2>6. (output' = output /\ fin'[f].status = "none") \/ (FinLink(f) /\ output = NoReport)
    <3>1. CASE FinLink(f) /\ output # NoReport
      <4>1. fin'[f] = Ended("none") /\ output' = output
        BY <1>1, <3>1 DEF FinLink, Step, TypeOK
      <4> QED
        BY <4>1 DEF Ended, Locals
    <3>2. CASE ~FinLink(f)
      <4>1. output' = output
        BY <1>7, <3>2 DEF StartFinalizer, FinAborts, Finalize, FinBegin, FinManifest, FinInput, FinChildDigest, FinReadChild,
             FinChildEvidence, FinChildAgain, FinResult, FinSnapshot, FinRecheck, FinRecheckChild, FinLate, Unshared
      <4>2. fin'[f].status = "none"
        BY <1>7, <3>2, NoVerdictYet DEF Finalize
      <4> QED
        BY <4>1, <4>2
    <3> QED
      BY <3>1, <3>2
  <2> QED
    BY <2>4, <2>5, <2>6
<1> QED
  BY <1>4, <1>5, <1>6, <1>7
  DEF Next, WrapperStep, GateStep, Sha256Sum, Capture, VerifyInputs, Install, StartGate, AwaitGate, Terminate,
      GateResult, GateReport, GateExit, Edit, Over, vars

--------------------------------------------------------------------------------
(* The theorems.                                                           *)

\* The invariant holds in every reachable state.
LEMMA Invariant == Spec => []Inv
<1>1. Inv /\ [Next]_vars => Inv'
  <2> SUFFICES ASSUME Inv, [Next]_vars PROVE Inv'
    OBVIOUS
  <2>1. \A f \in Finalizers : ReadInv(f)' /\ WriteInv(f)'
    BY StepLocals
  <2> QED
    BY <2>1, StepTypes, StepFlow, StepOutput DEF Inv
<1> QED
  BY InitInv, <1>1, PTL DEF Spec

\* Every variable keeps the type of what the scripts store.
THEOREM EntryTypeOK == Spec => []TypeOK
<1>1. Inv => TypeOK
  BY DEF Inv
<1> QED
  BY Invariant, <1>1, PTL

\* A PASS that finalize() links speaks for the pinned files, for what pip and
\* python read, and for the child that finalize validated, whatever was edited meanwhile.
THEOREM Attested == Spec => []PassMeansPinned
<1>1. Inv => PassMeansPinned
  BY DEF Inv, OutputInv
<1> QED
  BY Invariant, <1>1, PTL

\* The linked report agrees with the result file that it hashes.
THEOREM Consistent == Spec => []ReportMatchesResult
<1>1. Inv => ReportMatchesResult
  BY DEF Inv, OutputInv
<1> QED
  BY Invariant, <1>1, PTL

\* Of any number of finalisers one reports a verdict: the one that linked it.
THEOREM Unique == Spec => []OneVerdict
<1>1. Inv => OneVerdict
  BY DEF Inv, OutputInv
<1> QED
  BY Invariant, <1>1, PTL

\* decision.md never says PASS without a published PASS.
THEOREM Decided == Spec => []DecisionMatchesReport
<1>1. Inv => DecisionMatchesReport
  BY DEF Inv, OutputInv
<1> QED
  BY Invariant, <1>1, PTL

--------------------------------------------------------------------------------
(* A quiet run.                                                            *)

Quiet == edits = 0 /\ kills = 0

\* Files and exit code when nobody edits a file or kills the wrapper.
QuietFlow ==
    Quiet =>
        /\ \A l \in Labels : input[l] = 0
        /\ wrapper # "sum" => wheelSum = 0
        /\ identity # Missing => manifest = identity /\ identity.files = input
        /\ gate = "running" => wrapper = "gate"
        /\ child # Missing => proof # Missing /\ child.evidence.proof = proof /\ child.evidence.evaluator = 0
        /\ gate = "passed" => child # Missing /\ child.status = "PASS" /\ log = 1
        /\ gate = "passed" /\ wrapper \in {"trap", "finalize"} => code = 0

\* Where a finaliser has the digest of the gate's report.
Evidenced == {"read-child", "child-evidence", "child-again", "result"} \cup Writing

\* The trap's finaliser finds every check passed, and every digest twice the same.
TrapOK(local) ==
    /\ local.pc # "idle" => local.clean
    /\ local.pc \notin {"idle", "ended"} => local.exit = 0
    /\ local.pc \notin {"idle", "start", "ended"} => "outer-exit" \in local.pass
    /\ local.pc \in {"inputs", "child"} \cup Evidenced => local.expected = identity /\ "manifest" \in local.pass
    /\ local.pc = "inputs" /\ local.k = 2 => LABELS[1] \in local.pass
    /\ local.pc \in {"child"} \cup Evidenced => Labels \subseteq local.pass
    /\ local.pc \in Evidenced => local.childSha = child
    /\ local.pc \in {"child-evidence", "recheck-child"} => local.reading = child /\ local.k \in 1 .. 2
    /\ local.pc \in {"result"} \cup Writing => "endpoint" \in local.pass
    /\ local.pc \in Writing => result[Trap].exit = 0 /\ local.tries = 1
    /\ local.pc = "snapshot" => \A i \in 1 .. local.k - 1 : local.snap[local.names[i]] = Digest(Trap, local.names[i])
    /\ local.pc \in Writing \ {"snapshot"} =>
          \A i \in 1 .. Len(local.names) : local.snap[local.names[i]] = Digest(Trap, local.names[i])

TrapInv == Quiet /\ gate = "passed" => TrapOK(fin[Trap])

QuietInv == QuietFlow /\ TrapInv /\ NoFalseFail

\* A quiet run was quiet before.
LEMMA QuietSteps ==
  ASSUME Inv, [Next]_vars, Quiet'
  PROVE  /\ Quiet /\ ~Edit /\ ~Terminate
<1>1. edits \in Nat /\ kills \in Nat
  BY DEF Inv, TypeOK
<1>2. ~Edit
  <2>1. Edit => edits' = edits + 1
    BY DEF Edit
  <2> QED BY <1>1, <2>1 DEF Quiet
<1>3. ~Terminate
  <2>1. Terminate => kills' = kills + 1
    BY DEF Terminate
  <2> QED BY <1>1, <2>1 DEF Quiet
<1>4. CASE WrapperStep \/ GateStep \/ UNCHANGED vars
  <2>1. UNCHANGED outside
    BY <1>4 DEF WrapperStep, GateStep, Sha256Sum, Capture, VerifyInputs, Install, StartGate, AwaitGate, RunFinalizer, Decide,
                GateResult, GateReport, GateExit, vars
  <2> QED BY <1>2, <1>3, <2>1 DEF outside, Quiet
<1>5. CASE \E f \in Finalizers : StartFinalizer(f) \/ Finalize(f) \/ FinAborts(f)
  <2>1. UNCHANGED <<edits, kills>>
    BY <1>5, FinalizerFrame
  <2> QED BY <1>2, <1>3, <2>1 DEF Quiet
<1> QED BY <1>2, <1>3, <1>4, <1>5 DEF Next, Over

\* Without edits the files stay what they were when they were pinned.
LEMMA QuietFlowStep ==
  ASSUME Inv, QuietFlow, [Next]_vars
  PROVE  QuietFlow'
<1> SUFFICES ASSUME Quiet' PROVE QuietFlow'
  BY DEF QuietFlow
<1>1. /\ Quiet /\ ~Edit /\ ~Terminate /\ FlowInv /\ input \in [Labels -> Versions] /\ child \in Children \cup {Missing}
  BY QuietSteps DEF Inv, TypeOK
<1>2. /\ \A l \in Labels : input[l] = 0
      /\ wrapper # "sum" => wheelSum = 0
      /\ identity # Missing => manifest = identity /\ identity.files = input
      /\ gate = "running" => wrapper = "gate"
      /\ child # Missing => proof # Missing /\ child.evidence.proof = proof /\ child.evidence.evaluator = 0
      /\ gate = "passed" => child # Missing /\ child.status = "PASS" /\ log = 1
      /\ gate = "passed" /\ wrapper \in {"trap", "finalize"} => code = 0
  BY <1>1 DEF QuietFlow
<1>3. 0 # Missing /\ input["wheel"] = 0 /\ input["evaluator"] = 0
  BY <1>2, LabelsAre, MissingAssumption
<1>4. CASE Sha256Sum
  <2>1. gate = "none"
    BY <1>1, <1>4 DEF Sha256Sum, FlowInv, Early
  <2>2. UNCHANGED <<input, manifest, proof, child, log, gate, identity>> /\ wheelSum' = 0
    BY <1>3, <1>4 DEF Sha256Sum, Go, Die
  <2> QED BY <1>2, <2>1, <2>2 DEF QuietFlow
<1>5. CASE Capture
  <2>1. gate = "none" /\ wrapper # "sum"
    BY <1>1, <1>5 DEF Capture, FlowInv, Early
  <2>2. UNCHANGED <<input, wheelSum, proof, child, log, gate>>
    BY <1>5 DEF Capture
  <2>3. identity' # Missing => manifest' = identity' /\ identity'.files = input
    BY <1>2, <1>5 DEF Capture, Die
  <2> QED BY <1>2, <2>1, <2>2, <2>3 DEF QuietFlow
<1>6. CASE VerifyInputs
  <2>1. UNCHANGED <<input, manifest, wheelSum, proof, child, log, gate, identity>>
    BY <1>6 DEF VerifyInputs, Go, Die, disk
  <2>2. PICK v \in {[at |-> "verify-1", next |-> "install"], [at |-> "verify-2", next |-> "verify-3"],
              [at |-> "verify-3", next |-> "start"], [at |-> "verify-4", next |-> "end"]} :
        /\ wrapper = v.at
        /\ IF manifest = identity /\ input = identity.files /\ input["wheel"] = wheelSum
           THEN IF v.next = "end" THEN Die(0) ELSE Go(v.next)
           ELSE Die(1)
    BY <1>6 DEF VerifyInputs
  <2>3. wrapper \in Pinned \ {"gate"} /\ identity # Missing
    BY <1>1, <2>2 DEF FlowInv, Pinned
  <2>4. CASE wrapper = "verify-4"
    <3>1. code' = 0
      <4>1. v.next = "end"
        <5>1. \/ v = [at |-> "verify-1", next |-> "install"] \/ v = [at |-> "verify-2", next |-> "verify-3"]
              \/ v = [at |-> "verify-3", next |-> "start"] \/ v = [at |-> "verify-4", next |-> "end"]
          OBVIOUS
        <5>2. v.at = "verify-4"
          BY <2>2, <2>4
        <5> QED BY <5>1, <5>2
      <4>2. manifest = identity /\ input = identity.files /\ input["wheel"] = wheelSum
        BY <1>2, <1>3, <2>3, <2>4
      <4> QED BY <2>2, <4>1, <4>2 DEF Die
    <3> QED BY <1>2, <2>1, <2>3, <2>4, <3>1 DEF QuietFlow, Pinned
  <2>5. CASE wrapper # "verify-4"
    <3>1. gate = "none"
      BY <1>1, <2>3, <2>5 DEF FlowInv
    <3> QED BY <1>2, <2>1, <2>3, <3>1 DEF QuietFlow, Pinned
  <2> QED BY <2>4, <2>5
<1>7. CASE Install
  <2>1. gate = "none"
    BY <1>1, <1>7 DEF Install, FlowInv, Pinned
  <2>2. UNCHANGED <<input, manifest, wheelSum, proof, child, log, gate, identity>> /\ wrapper = "install"
    BY <1>7 DEF Install, Go, Die, disk
  <2> QED BY <1>2, <2>1, <2>2 DEF QuietFlow
<1>8. CASE StartGate
  <2>1. child = Missing /\ wrapper = "start"
    BY <1>1, <1>8 DEF StartGate, FlowInv, Pinned
  <2>2. UNCHANGED <<input, manifest, wheelSum, proof, child, identity>> /\ wrapper' = "gate" /\ gate' \in {"failed", "running"}
    BY <1>8 DEF StartGate, Go
  <2> QED BY <1>2, <2>1, <2>2 DEF QuietFlow
<1>9. CASE AwaitGate
  <2>1. UNCHANGED <<input, manifest, wheelSum, proof, child, log, gate, identity>> /\ wrapper = "gate"
        /\ gate # "running" /\ (gate = "passed" => wrapper' = "verify-4")
    BY <1>9 DEF AwaitGate, Go, Die, disk
  <2> QED BY <1>2, <2>1 DEF QuietFlow
<1>10. CASE RunFinalizer \/ Decide
  <2>1. UNCHANGED <<input, manifest, wheelSum, proof, child, log, gate, identity>> /\ wrapper \in {"trap", "finalize"}
        /\ (wrapper' \in {"trap", "finalize"} => code' = code)
    BY <1>10 DEF RunFinalizer, Decide, Go, disk
  <2> QED BY <1>2, <2>1 DEF QuietFlow
<1>11. CASE GateStep
  <2>1. UNCHANGED <<input, manifest, wheelSum, identity, wrapper, code>> /\ gate = "running" /\ wrapper = "gate"
    BY <1>2, <1>11 DEF GateStep, GateResult, GateReport, GateExit, shell
  <2>2. CASE GateResult
    <3>1. child = Missing /\ UNCHANGED <<child, gate, log>>
      BY <1>2, <2>2 DEF GateResult
    <3> QED BY <1>2, <2>1, <3>1 DEF QuietFlow
  <2>3. CASE GateReport
    <3>1. UNCHANGED <<proof, gate, log>> /\ proof # Missing
      BY <2>3 DEF GateReport
    <3>2. child'.evidence.proof = proof /\ child'.evidence.evaluator = 0
      BY <1>3, <2>3 DEF GateReport
    <3> QED BY <1>2, <2>1, <3>1, <3>2 DEF QuietFlow
  <2>4. CASE GateExit
    <3>1. UNCHANGED <<proof, child>> /\ gate' # "running" /\ log' = 1
          /\ (gate' = "passed" => child # Missing /\ child.status = "PASS")
      BY <2>4 DEF GateExit
    <3> QED BY <1>2, <2>1, <3>1 DEF QuietFlow
  <2> QED BY <1>11, <2>2, <2>3, <2>4 DEF GateStep
<1>12. CASE UNCHANGED vars \/ \E f \in Finalizers : StartFinalizer(f) \/ Finalize(f) \/ FinAborts(f)
  <2>1. UNCHANGED <<disk, shell, gate>>
    BY <1>12, FinalizerFrame DEF vars
  <2> QED BY <1>2, <2>1 DEF QuietFlow, disk, shell
<1> QED
  BY <1>1, <1>4, <1>5, <1>6, <1>7, <1>8, <1>9, <1>10, <1>11, <1>12 DEF Next, WrapperStep, Over

\* Nothing writes a file any more when the gate has passed.
LEMMA QuietFiles ==
  ASSUME Inv, QuietFlow, [Next]_vars, Quiet', gate = "passed"
  PROVE  UNCHANGED <<disk, identity, gate>>
<1>1. Quiet /\ ~Edit /\ ~Terminate /\ FlowInv
  BY QuietSteps DEF Inv
<1>2. ~Sha256Sum /\ ~Capture /\ ~Install /\ ~StartGate /\ ~GateStep
  BY <1>1 DEF FlowInv, Early, Pinned, Sha256Sum, Capture, Install, StartGate, GateStep, GateResult, GateReport, GateExit
<1>3. CASE VerifyInputs \/ AwaitGate \/ RunFinalizer \/ Decide \/ UNCHANGED vars
  BY <1>3 DEF VerifyInputs, AwaitGate, RunFinalizer, Decide, Go, Die, vars, shell
<1>4. CASE \E f \in Finalizers : StartFinalizer(f) \/ Finalize(f) \/ FinAborts(f)
  BY <1>4, FinalizerFrame DEF shell
<1> QED BY <1>1, <1>2, <1>3, <1>4 DEF Next, WrapperStep, Over

\* The digests are the same as long as the files are.
LEMMA SameDigests ==
  ASSUME UNCHANGED disk, result'[Trap] = result[Trap], NEW n
  PROVE  Digest(Trap, n)' = Digest(Trap, n)
BY DEF disk, Digest

\* What the files are when the gate of a quiet run has passed.
QuietFacts ==
    /\ gate = "passed" /\ \A l \in Labels : input[l] = 0
    /\ identity # Missing /\ manifest = identity /\ identity.files = input
    /\ child # Missing /\ child.evidence.proof = proof /\ child.evidence.evaluator = 0 /\ child.status = "PASS" /\ log = 1

\* They follow from the flow.
LEMMA QuietGate ==
  ASSUME Inv, QuietFlow, Quiet, gate = "passed"
  PROVE  QuietFacts
<1>1. identity # Missing
  BY DEF Inv, FlowInv
<1> QED BY <1>1 DEF QuietFlow, QuietFacts

\* Up to the result every check passes.
LEMMA TrapReads ==
  ASSUME Inv, QuietFacts, TrapOK(fin[Trap]), UNCHANGED <<disk, identity, gate>>,
         \/ FinBegin(Trap) \/ FinManifest(Trap) \/ FinInput(Trap) \/ FinChildDigest(Trap) \/ FinReadChild(Trap)
         \/ FinChildEvidence(Trap) \/ FinChildAgain(Trap)
  PROVE  TrapOK(fin[Trap])'
<1> DEFINE local == fin[Trap]
<1>1. /\ LocalOK(local) /\ ReadInv(Trap) /\ Trap \in DOMAIN fin
      /\ child \in Children \cup {Missing} /\ manifest \in Manifests \cup {Missing}
  BY FinalizersAssumption DEF Inv, TypeOK
<1>2. /\ \A L : Step(Trap, L) => fin'[Trap] = L
      /\ UNCHANGED <<input, manifest, proof, child>>
  BY <1>1 DEF Step, disk
<1>3. local.pc \notin {"idle", "ended"} /\ local.clean /\ local.exit = 0
  BY DEF TrapOK, FinBegin, FinManifest, FinInput, FinChildDigest, FinReadChild, FinChildEvidence, FinChildAgain, At
<1>4. ASSUME NEW L, fin'[Trap] = L, L.clean, L.exit = 0, L.pc \in {"manifest", "inputs", "child"} \cup (Evidenced \ Writing),
             "outer-exit" \in L.pass,
             L.pc # "manifest" => L.expected = identity /\ "manifest" \in L.pass,
             L.pc = "inputs" /\ L.k = 2 => LABELS[1] \in L.pass,
             L.pc \in {"child"} \cup Evidenced => Labels \subseteq L.pass,
             L.pc \in Evidenced => L.childSha = child,
             L.pc = "child-evidence" => L.reading = child /\ L.k \in 1 .. 2,
             L.pc = "result" => "endpoint" \in L.pass
      PROVE  TrapOK(fin[Trap])'
  BY <1>2, <1>4 DEF TrapOK, Evidenced, Writing
<1>5. CASE FinBegin(Trap)
  <2>1. CASE fin'[Trap] = Ended("none")
    BY <2>1 DEF Ended, Locals, TrapOK, Evidenced, Writing
  <2>2. CASE fin'[Trap] = [local EXCEPT !.pc = "manifest", !.pass = {"outer-exit"}]
    <3> DEFINE L == [local EXCEPT !.pc = "manifest", !.pass = {"outer-exit"}]
    <3>1. L.pc = "manifest" /\ L.pass = {"outer-exit"} /\ L.clean = local.clean /\ L.exit = local.exit
      BY <1>1 DEF LocalOK
    <3> HIDE DEF L
    <3>2. fin'[Trap] = L
      BY <2>2 DEF L
    <3> QED BY <1>3, <1>4, <3>1, <3>2 DEF Evidenced, Writing
  <2> QED BY <1>2, <1>3, <1>5, <2>1, <2>2 DEF FinBegin
<1>6. CASE FinManifest(Trap)
  <2> DEFINE L == [local EXCEPT !.pc = "inputs", !.k = 1, !.expected = manifest, !.pass = @ \cup {"manifest"}]
  <2>1. /\ L.pc = "inputs" /\ L.k = 1 /\ L.expected = manifest /\ L.pass = local.pass \cup {"manifest"}
        /\ L.clean = local.clean /\ L.exit = local.exit
    BY <1>1 DEF LocalOK
  <2>2. fin'[Trap] = L
    BY <1>2, <1>6 DEF FinManifest, QuietFacts
  <2>3. "outer-exit" \in local.pass
    BY <1>6 DEF FinManifest, At, TrapOK
  <2> HIDE DEF L
  <2>4. {"outer-exit", "manifest"} \subseteq L.pass /\ L.expected = identity /\ L.pc = "inputs" /\ L.k # 2
    BY <2>1, <2>3 DEF QuietFacts
  <2>5. L.pc \notin Evidenced
    BY <2>1 DEF Evidenced, Writing
  <2> QED BY <1>3, <1>4, <2>1, <2>2, <2>4, <2>5
<1>7. CASE FinInput(Trap)
  <2>1. /\ local.pc = "inputs" /\ local.k \in 1 .. 2 /\ local.expected = identity
        /\ {"outer-exit", "manifest"} \subseteq local.pass /\ (local.k = 2 => LABELS[1] \in local.pass)
    BY <1>1, <1>7, LabelsAre DEF FinInput, At, ReadInv, TrapOK
  <2>2. PICK label \in Labels : label = LABELS[local.k]
    BY <2>1, LabelsAre
  <2>3. Digest(Trap, label) = local.expected.files[label]
    <3>1. Digest(Trap, label) = input[label]
      BY LabelsAre DEF Digest
    <3> QED BY <2>1, <3>1 DEF QuietFacts
  <2>4. PICK k \in Nat, pc \in {"inputs", "child"} :
           k = local.k + 1 /\ pc = IF local.k < 2 THEN "inputs" ELSE "child"
    BY <2>1
  <2> DEFINE L == [local EXCEPT !.pc = pc, !.k = k, !.pass = @ \cup {label}]
  <2>5. fin'[Trap] = L
    BY <1>2, <1>7, <2>2, <2>3, <2>4, LabelsAre DEF FinInput
  <2>6. /\ L.pc = pc /\ L.k = k /\ L.pass = local.pass \cup {label} /\ L.expected = local.expected
        /\ L.clean = local.clean /\ L.exit = local.exit
    BY <1>1 DEF LocalOK
  <2> HIDE DEF L
  <2>7. pc = "inputs" /\ k = 2 => LABELS[1] \in L.pass
    BY <2>1, <2>2, <2>4, <2>6
  <2>8. pc = "child" => Labels \subseteq L.pass
    <3>1. pc = "child" => local.k = 2
      BY <2>1, <2>4
    <3>2. LABELS[1] = "wheel" /\ LABELS[2] = "evaluator"
      BY DEF LABELS
    <3> QED BY <2>1, <2>2, <2>6, <3>1, <3>2, LabelsAre
  <2>9. {"outer-exit", "manifest"} \subseteq L.pass /\ L.expected = identity
    BY <2>1, <2>6
  <2> QED BY <1>3, <1>4, <2>4, <2>5, <2>6, <2>7, <2>8, <2>9 DEF Evidenced, Writing
<1>8. CASE FinChildDigest(Trap)
  <2> DEFINE L == [local EXCEPT !.pc = "read-child", !.childSha = child]
  <2>1. fin'[Trap] = L
    BY <1>2, <1>8 DEF FinChildDigest, QuietFacts
  <2>2. /\ L.pc = "read-child" /\ L.pass = local.pass /\ L.expected = local.expected /\ L.childSha = child
        /\ L.clean = local.clean /\ L.exit = local.exit
    BY <1>1 DEF LocalOK
  <2>3. local.pc = "child"
    BY <1>8 DEF FinChildDigest, At
  <2>4. {"outer-exit", "manifest"} \subseteq local.pass /\ Labels \subseteq local.pass /\ local.expected = identity
    BY <2>3 DEF TrapOK
  <2> HIDE DEF L
  <2> QED BY <1>3, <1>4, <2>1, <2>2, <2>4 DEF Evidenced, Writing
<1>9. CASE FinReadChild(Trap)
  <2> DEFINE L == [local EXCEPT !.reading = child, !.k = 1, !.pc = "child-evidence"]
  <2>1. fin'[Trap] = L
    BY <1>2, <1>9 DEF FinReadChild, QuietFacts
  <2>2. /\ L.pc = "child-evidence" /\ L.pass = local.pass /\ L.expected = local.expected /\ L.childSha = local.childSha
        /\ L.clean = local.clean /\ L.exit = local.exit /\ L.reading = child /\ L.k = 1
    BY <1>1 DEF LocalOK
  <2>3. local.pc = "read-child"
    BY <1>9 DEF FinReadChild, At
  <2>4. /\ {"outer-exit", "manifest"} \subseteq local.pass /\ Labels \subseteq local.pass /\ local.expected = identity
        /\ local.childSha = child
    BY <2>3 DEF TrapOK, Evidenced
  <2> HIDE DEF L
  <2>5. {"outer-exit", "manifest"} \subseteq L.pass /\ Labels \subseteq L.pass /\ L.expected = identity /\ L.childSha = child
    BY <2>2, <2>4
  <2>6. L.k \in 1 .. 2 /\ L.pc \in Evidenced \ Writing
    BY <2>2 DEF Evidenced, Writing
  <2> QED BY <1>3, <1>4, <2>1, <2>2, <2>5, <2>6
<1>10. CASE FinChildEvidence(Trap)
  <2>1. local.pc = "child-evidence"
    BY <1>10 DEF FinChildEvidence, At
  <2>2. /\ {"outer-exit", "manifest"} \subseteq local.pass /\ Labels \subseteq local.pass /\ local.expected = identity
        /\ local.childSha = child /\ local.reading = child /\ local.k \in 1 .. 2
    BY <2>1 DEF TrapOK, Evidenced
  <2>3. Digest(Trap, ChildEvidence[local.k]) = local.reading.evidence[ChildEvidence[local.k]] /\ Len(ChildEvidence) = 2
    BY <2>2, LabelsAre DEF ChildEvidence, Digest, QuietFacts
  <2>4. PICK k \in Nat, pc \in {"child-evidence", "child-again"} :
           k = local.k + 1 /\ pc = IF local.k < 2 THEN "child-evidence" ELSE "child-again"
    BY <2>2
  <2> DEFINE L == [local EXCEPT !.pc = pc, !.k = k]
  <2>5. fin'[Trap] = L
    BY <1>1, <1>2, <1>10, <2>1, <2>3, <2>4 DEF FinChildEvidence, LocalOK
  <2>6. /\ L.pc = pc /\ L.pass = local.pass /\ L.expected = local.expected /\ L.childSha = local.childSha
        /\ L.clean = local.clean /\ L.exit = local.exit /\ L.reading = local.reading /\ L.k = k
    BY <1>1 DEF LocalOK
  <2>7. pc = "child-evidence" => k \in 1 .. 2
    BY <2>2, <2>4
  <2> HIDE DEF L
  <2> QED BY <1>3, <1>4, <2>2, <2>5, <2>6, <2>7 DEF Evidenced, Writing
<1>11. CASE FinChildAgain(Trap)
  <2>1. local.pc = "child-again"
    BY <1>11 DEF FinChildAgain, At
  <2>2. /\ {"outer-exit", "manifest"} \subseteq local.pass /\ Labels \subseteq local.pass /\ local.expected = identity
        /\ local.childSha = child
    BY <2>1 DEF TrapOK, Evidenced
  <2> DEFINE L == [local EXCEPT !.pc = "result", !.pass = @ \cup {"endpoint"}]
  <2>3. fin'[Trap] = L
    BY <1>2, <1>11, <2>2 DEF FinChildAgain
  <2>4. /\ L.pc = "result" /\ L.pass = local.pass \cup {"endpoint"} /\ L.expected = local.expected /\ L.childSha = local.childSha
        /\ L.clean = local.clean /\ L.exit = local.exit
    BY <1>1 DEF LocalOK
  <2> HIDE DEF L
  <2> QED BY <1>3, <1>4, <2>2, <2>3, <2>4 DEF Evidenced, Writing
<1> QED BY <1>5, <1>6, <1>7, <1>8, <1>9, <1>10, <1>11

\* The result says 0, and every digest of the report is the one that was checked.
LEMMA TrapWrites ==
  ASSUME Inv, QuietFacts, TrapOK(fin[Trap]), UNCHANGED <<disk, identity, gate>>,
         FinResult(Trap) \/ FinSnapshot(Trap) \/ FinRecheck(Trap) \/ FinRecheckChild(Trap) \/ FinLate(Trap)
  PROVE  TrapOK(fin[Trap])'
<1> DEFINE local == fin[Trap]
<1>1. /\ LocalOK(local) /\ ReadInv(Trap) /\ WriteInv(Trap) /\ Trap \in DOMAIN fin /\ Trap \in DOMAIN result
      /\ child \in Children \cup {Missing} /\ manifest \in Manifests \cup {Missing}
  BY FinalizersAssumption DEF Inv, TypeOK
<1>2. /\ \A L : Step(Trap, L) => fin'[Trap] = L
      /\ UNCHANGED <<input, manifest, proof, child>>
  BY <1>1 DEF Step, disk
<1>3. /\ local.pc \in {"result", "snapshot", "recheck", "recheck-child", "late"}
      /\ local.clean /\ local.exit = 0 /\ local.expected = identity /\ local.childSha = child /\ local.pass = CHECKS
  <2>1. local.pc \in {"result", "snapshot", "recheck", "recheck-child", "late"}
    BY DEF FinResult, FinSnapshot, FinRecheck, FinRecheckChild, FinLate, At
  <2>2. local.pc \in Evidenced /\ local.pc \in {"result"} \cup Writing
    BY <2>1 DEF Evidenced, Writing
  <2>3. CHECKS \subseteq local.pass
    BY <2>1, <2>2 DEF TrapOK, CHECKS
  <2>4. local.pass \in SUBSET CHECKS
    BY <1>1 DEF LocalOK
  <2> QED BY <2>1, <2>2, <2>3, <2>4 DEF TrapOK
<1>4. ASSUME NEW L, fin'[Trap] = L, L.clean, L.exit = 0, L.pc \in Writing, L.pass = CHECKS, L.expected = identity,
             L.childSha = child, L.tries = 1, result'[Trap].exit = 0,
             L.pc = "recheck-child" => L.reading = child /\ L.k \in 1 .. 2,
             (L.pc = "snapshot" /\ L.k = 1) \/ \A n : Digest(Trap, n)' = Digest(Trap, n),
             L.pc = "snapshot" => \A i \in 1 .. L.k - 1 : L.snap[L.names[i]] = Digest(Trap, L.names[i]),
             L.pc # "snapshot" => \A i \in 1 .. Len(L.names) : L.snap[L.names[i]] = Digest(Trap, L.names[i])
      PROVE  TrapOK(fin[Trap])'
  <2>1. {"outer-exit", "manifest", "endpoint"} \subseteq L.pass /\ Labels \subseteq L.pass
    BY <1>4 DEF CHECKS
  <2>2. L.pc \notin {"idle", "start", "manifest", "inputs", "child", "child-evidence", "ended"} /\ L.pc \in Evidenced
    BY <1>4 DEF Evidenced, Writing
  <2>3. /\ L.pc = "snapshot" => \A i \in 1 .. L.k - 1 : L.snap[L.names[i]] = Digest(Trap, L.names[i])'
        /\ L.pc # "snapshot" => \A i \in 1 .. Len(L.names) : L.snap[L.names[i]] = Digest(Trap, L.names[i])'
    <3>1. CASE \A n : Digest(Trap, n)' = Digest(Trap, n)
      BY <1>4, <3>1
    <3>2. CASE L.pc = "snapshot" /\ L.k = 1
      BY <3>2
    <3> QED BY <1>4, <3>1, <3>2
  <2> QED BY <1>2, <1>4, <2>1, <2>2, <2>3 DEF TrapOK
<1>5. PICK size \in Nat : size = Len(local.names)
  BY <1>1 DEF LocalOK
<1>6. \A n \in Names : Digest(Trap, n) # Missing \/ (n = "result" /\ local.pc = "result")
  <2>1. /\ 0 # Missing /\ 1 # Missing /\ (local.pc # "result" => result[Trap] # Missing)
    BY <1>1, <1>3, MissingAssumption DEF WriteInv, Writing
  <2>2. /\ Digest(Trap, "manifest") = manifest /\ Digest(Trap, "log") = log /\ Digest(Trap, "child") = child
        /\ Digest(Trap, "result") = result[Trap] /\ \A l \in Labels : Digest(Trap, l) = input[l]
    BY LabelsAre DEF Digest
  <2> QED BY <2>1, <2>2 DEF QuietFacts, Names
<1>7. ASSUME local.pc \in Writing \ {"snapshot"}
      PROVE  \A i \in 1 .. size : /\ local.snap[local.names[i]] = Digest(Trap, local.names[i])
                                  /\ local.snap[local.names[i]] # Missing /\ local.names[i] \in Names
  <2>1. \A i \in 1 .. size : local.names[i] \in Names
    BY <1>1, <1>5 DEF LocalOK
  <2>2. \A i \in 1 .. size : local.snap[local.names[i]] = Digest(Trap, local.names[i])
    BY <1>5, <1>7 DEF TrapOK
  <2> QED BY <1>6, <1>7, <2>1, <2>2 DEF Writing
<1>8. CASE FinResult(Trap)
  <2>1. PICK names \in Seq(Names) :
           fin'[Trap] = [local EXCEPT !.pc = "snapshot", !.k = 1, !.tries = 1, !.names = names]
    <3>1. PICK logged \in BOOLEAN, known \in BOOLEAN :
             fin'[Trap] = [local EXCEPT !.pc = "snapshot", !.k = 1, !.tries = 1, !.names = EvidenceNames(known, logged)]
      BY <1>2, <1>8 DEF FinResult
    <3> QED BY <3>1, EvidenceOrder
  <2> DEFINE L == [local EXCEPT !.pc = "snapshot", !.k = 1, !.tries = 1, !.names = names]
  <2>2. /\ L.pc = "snapshot" /\ L.k = 1 /\ L.tries = 1 /\ L.pass = local.pass /\ L.expected = local.expected
        /\ L.childSha = local.childSha /\ L.clean = local.clean /\ L.exit = local.exit
    BY <1>1 DEF LocalOK
  <2> HIDE DEF L
  <2>3. fin'[Trap] = L
    BY <2>1 DEF L
  <2>4. result'[Trap].exit = 0
    <3>1. result'[Trap] = [pass |-> local.pass, exit |-> RootExit(local)]
      BY <1>1, <1>8 DEF FinResult
    <3>2. RootExit(local) = 0
      BY <1>3 DEF RootExit
    <3> QED BY <3>1, <3>2
  <2>5. \A i \in 1 .. L.k - 1 : FALSE
    BY <2>2
  <2> QED BY <1>3, <1>4, <2>2, <2>3, <2>4, <2>5 DEF Writing
<1>9. ASSUME local.pc \in Writing, UNCHANGED result
      PROVE  /\ local.tries = 1 /\ result'[Trap].exit = 0 /\ \A n : Digest(Trap, n)' = Digest(Trap, n)
  BY <1>9, SameDigests DEF TrapOK
<1>10. CASE FinSnapshot(Trap)
  <2>1. local.pc = "snapshot" /\ UNCHANGED result /\ local.k \in 1 .. size /\ local.pc \in Writing
    BY <1>1, <1>5, <1>10 DEF FinSnapshot, At, Unshared, WriteInv, Writing
  <2>2. PICK name \in Names : name = local.names[local.k]
    BY <1>1, <1>5, <2>1 DEF LocalOK
  <2>3. PICK digest : digest = Digest(Trap, name)
    OBVIOUS
  <2>4. PICK snap : snap = [local.snap EXCEPT ![name] = digest]
    OBVIOUS
  <2>5. \A n \in Names : snap[n] = IF n = name THEN digest ELSE local.snap[n]
    BY <1>1, <2>4 DEF LocalOK
  <2>6. PICK k \in Nat, pc \in {"snapshot", "recheck"} :
           /\ k = IF local.k = size THEN 1 ELSE local.k + 1
           /\ pc = IF local.k = size THEN "recheck" ELSE "snapshot"
    BY <2>1
  <2> DEFINE L == [local EXCEPT !.snap = snap, !.pc = pc, !.k = k]
  <2>7. fin'[Trap] = L
    BY <1>1, <1>2, <1>5, <1>10, <2>1, <2>2, <2>3, <2>4, <2>6 DEF FinSnapshot, LocalOK
  <2>8. /\ L.pc = pc /\ L.k = k /\ L.snap = snap /\ L.names = local.names /\ L.tries = local.tries /\ L.pass = local.pass
        /\ L.expected = local.expected /\ L.childSha = local.childSha /\ L.clean = local.clean /\ L.exit = local.exit
    BY <1>1 DEF LocalOK
  <2> HIDE DEF L
  <2>9. \A i \in 1 .. local.k - 1 : local.snap[local.names[i]] = Digest(Trap, local.names[i])
    BY <2>1 DEF TrapOK
  <2>10. \A i \in 1 .. size : local.names[i] \in Names
    BY <1>1, <1>5 DEF LocalOK
  <2>11. \A i \in 1 .. local.k : snap[local.names[i]] = Digest(Trap, local.names[i])
    <3> TAKE i \in 1 .. local.k
    <3>1. i \in 1 .. size /\ (i = local.k \/ i \in 1 .. local.k - 1)
      BY <2>1
    <3> QED BY <2>2, <2>3, <2>5, <2>9, <2>10, <3>1
  <2>12. \A n : Digest(Trap, n)' = Digest(Trap, n)
    BY <1>9, <2>1
  <2>13. L.pc = "snapshot" => \A i \in 1 .. L.k - 1 : L.snap[L.names[i]] = Digest(Trap, L.names[i])
    <3>1. pc = "snapshot" => k - 1 = local.k
      BY <2>1, <2>6
    <3> QED BY <2>8, <2>11, <3>1
  <2>14. L.pc # "snapshot" => \A i \in 1 .. Len(L.names) : L.snap[L.names[i]] = Digest(Trap, L.names[i])
    <3>1. pc # "snapshot" => size = local.k
      BY <2>6
    <3> QED BY <1>5, <2>8, <2>11, <3>1
  <2>15. L.pc \in Writing /\ L.pc # "recheck-child" /\ L.tries = 1 /\ result'[Trap].exit = 0
    BY <1>9, <2>1, <2>6, <2>8 DEF Writing
  <2> QED BY <1>3, <1>4, <2>7, <2>8, <2>12, <2>13, <2>14, <2>15
<1>11. ASSUME UNCHANGED result, local.pc \in Writing \ {"snapshot"},
              NEW L, fin'[Trap] = L, L.clean, L.exit = local.exit, L.pc \in Writing \ {"snapshot"}, L.pass = local.pass,
              L.expected = local.expected, L.childSha = local.childSha, L.tries = local.tries, L.names = local.names,
              L.snap = local.snap, L.pc = "recheck-child" => L.reading = child /\ L.k \in 1 .. 2
       PROVE  TrapOK(fin[Trap])'
  <2>1. local.tries = 1 /\ result'[Trap].exit = 0 /\ \A n : Digest(Trap, n)' = Digest(Trap, n)
    BY <1>9, <1>11
  <2>2. \A i \in 1 .. Len(L.names) : L.snap[L.names[i]] = Digest(Trap, L.names[i])
    BY <1>5, <1>7, <1>11
  <2> QED BY <1>3, <1>4, <1>11, <2>1, <2>2
<1>12. CASE FinRecheck(Trap)
  <2>1. local.pc = "recheck" /\ UNCHANGED result /\ local.k \in 1 .. size /\ local.pc \in Writing \ {"snapshot"}
    BY <1>1, <1>5, <1>12 DEF FinRecheck, At, Unshared, WriteInv, Writing
  <2>2. PICK name \in Names : /\ name = local.names[local.k] /\ local.snap[name] = Digest(Trap, name)
                              /\ Digest(Trap, name) # Missing
    BY <1>7, <2>1
  <2>3. PICK k \in Nat, pc \in {"recheck", "recheck-child"}, reading \in Children \cup {Missing} :
           /\ k = (IF local.k = size THEN 1 ELSE local.k + 1)
           /\ pc = (IF local.k = size THEN "recheck-child" ELSE "recheck")
           /\ reading = (IF local.k = size THEN child ELSE local.reading)
    <3>1. local.reading \in Children \cup {Missing}
      BY <1>1 DEF LocalOK
    <3> QED BY <1>1, <2>1, <3>1
  <2> DEFINE L == [local EXCEPT !.clean = TRUE, !.reading = reading, !.pc = pc, !.k = k]
  <2>4. fin'[Trap] = L
    <3>1. local.k # size => fin'[Trap] = [local EXCEPT !.clean = @ /\ TRUE, !.reading = @, !.pc = @, !.k = @ + 1]
      BY <1>2, <1>5, <1>12, <2>2 DEF FinRecheck
    <3>2. local.k = size => fin'[Trap] = [local EXCEPT !.clean = @ /\ TRUE, !.reading = child, !.pc = "recheck-child", !.k = 1]
      BY <1>2, <1>5, <1>12, <2>2 DEF FinRecheck, QuietFacts
    <3> QED BY <1>1, <1>3, <2>1, <2>3, <3>1, <3>2 DEF LocalOK
  <2>5. /\ L.pc = pc /\ L.k = k /\ L.reading = reading /\ L.clean /\ L.snap = local.snap /\ L.names = local.names
        /\ L.tries = local.tries /\ L.pass = local.pass /\ L.expected = local.expected /\ L.childSha = local.childSha
        /\ L.exit = local.exit
    BY <1>1 DEF LocalOK
  <2> HIDE DEF L
  <2>6. pc \in Writing \ {"snapshot"} /\ (pc = "recheck-child" => reading = child /\ k \in 1 .. 2)
    BY <2>3 DEF Writing
  <2> QED BY <1>11, <2>1, <2>4, <2>5, <2>6
<1>13. CASE FinRecheckChild(Trap)
  <2>1. local.pc = "recheck-child" /\ UNCHANGED result /\ local.pc \in Writing \ {"snapshot"}
    BY <1>13 DEF FinRecheckChild, At, Unshared, Writing
  <2>2. local.reading = child /\ local.k \in 1 .. 2
    BY <2>1 DEF TrapOK
  <2>3. Digest(Trap, ChildEvidence[local.k]) = local.reading.evidence[ChildEvidence[local.k]] /\ Len(ChildEvidence) = 2
    BY <2>2, LabelsAre DEF ChildEvidence, Digest, QuietFacts
  <2>4. PICK k \in Nat, pc \in {"recheck-child", "late"} :
           k = local.k + 1 /\ pc = IF local.k < 2 THEN "recheck-child" ELSE "late"
    BY <2>2
  <2> DEFINE L == [local EXCEPT !.clean = TRUE, !.pc = pc, !.k = k]
  <2>5. fin'[Trap] = L
    BY <1>1, <1>2, <1>3, <1>13, <2>1, <2>3, <2>4 DEF FinRecheckChild, LocalOK
  <2>6. /\ L.pc = pc /\ L.k = k /\ L.reading = local.reading /\ L.clean /\ L.snap = local.snap /\ L.names = local.names
        /\ L.tries = local.tries /\ L.pass = local.pass /\ L.expected = local.expected /\ L.childSha = local.childSha
        /\ L.exit = local.exit
    BY <1>1 DEF LocalOK
  <2> HIDE DEF L
  <2>7. pc \in Writing \ {"snapshot"} /\ (pc = "recheck-child" => k \in 1 .. 2)
    BY <2>2, <2>4 DEF Writing
  <2> QED BY <1>11, <2>1, <2>2, <2>5, <2>6, <2>7
<1>14. CASE FinLate(Trap)
  <2>1. local.pc = "late" /\ local.pc \in Writing \ {"snapshot"} /\ local.names \in Seq(Names)
    BY <1>1, <1>14 DEF FinLate, At, Writing, LocalOK
  <2>2. \A n \in Range(local.names) : n \in Names /\ local.snap[n] = Digest(Trap, n)
    BY <1>5, <1>7, <2>1 DEF Range
  <2>3. Late(Trap) = {}
    <3> DEFINE Was(n) == CASE n = "manifest" -> local.expected
                           [] n \in Labels   -> local.expected.files[n]
                           [] n = "child"    -> local.childSha
                           [] OTHER          -> Missing
    <3>1. ASSUME NEW n \in Names PROVE Was(n) \in {Missing, Digest(Trap, n)}
      BY <1>3, LabelsAre DEF Digest, QuietFacts, Names
    <3>2. Late(Trap) = {n \in Range(local.names) : Was(n) # Missing /\ local.snap[n] # Was(n)}
      BY DEF Late, Recorded
    <3> HIDE DEF Was
    <3> QED BY <2>2, <3>1, <3>2
  <2>4. Status(Trap) = "PASS"
    BY <1>3, <2>1 DEF Status, TrapOK
  <2> DEFINE L == [local EXCEPT !.pc = "link"]
  <2>5. fin'[Trap] = L /\ UNCHANGED result
    BY <1>2, <1>14, <2>3, <2>4 DEF FinLate
  <2>6. /\ L.pc = "link" /\ L.clean = local.clean /\ L.snap = local.snap /\ L.names = local.names
        /\ L.tries = local.tries /\ L.pass = local.pass /\ L.expected = local.expected /\ L.childSha = local.childSha
        /\ L.exit = local.exit
    BY <1>1 DEF LocalOK
  <2> HIDE DEF L
  <2> QED BY <1>3, <1>11, <2>1, <2>5, <2>6 DEF Writing
<1> QED BY <1>8, <1>10, <1>12, <1>13, <1>14

\* Whatever the others do, the trap's finaliser keeps what it has.
LEMMA TrapStep ==
  ASSUME Inv, QuietFlow, TrapInv, [Next]_vars
  PROVE  TrapInv'
<1> SUFFICES ASSUME Quiet', gate' = "passed" PROVE TrapOK(fin[Trap])'
  BY DEF TrapInv
<1>1. Quiet /\ ~Edit /\ ~Terminate /\ FlowInv /\ Trap \in DOMAIN fin
  BY QuietSteps, FinalizersAssumption DEF Inv, TypeOK
<1>2. CASE gate # "passed"
  <2>1. wrapper = "gate" /\ fin' = fin
    <3>1. GateStep
      <4>1. ASSUME ~GateStep PROVE gate' # "passed"
        <5>1. CASE WrapperStep \/ UNCHANGED vars
          BY <1>2, <5>1 DEF WrapperStep, Sha256Sum, Capture, VerifyInputs, Install, StartGate, AwaitGate, RunFinalizer, Decide,
                            vars
        <5>2. CASE \E f \in Finalizers : StartFinalizer(f) \/ Finalize(f) \/ FinAborts(f)
          BY <1>2, <5>2, FinalizerFrame
        <5> QED BY <1>1, <4>1, <5>1, <5>2 DEF Next, Over
      <4> QED BY <4>1
    <3>2. gate = "running" /\ fin' = fin
      BY <3>1 DEF GateStep, GateResult, GateReport, GateExit
    <3> QED BY <1>1, <3>2 DEF QuietFlow
  <2>2. fin'[Trap].pc = "idle" /\ fin'[Trap] = fin[Trap]
    BY <1>1, <2>1 DEF FlowInv
  <2> QED BY <2>2 DEF TrapOK, Evidenced, Writing
<1>3. CASE gate = "passed"
  <2>1. TrapOK(fin[Trap]) /\ QuietFacts /\ UNCHANGED <<disk, identity, gate>>
    BY <1>1, <1>3, QuietGate, QuietFiles DEF TrapInv
  <2>2. ASSUME fin'[Trap] = fin[Trap], result'[Trap] = result[Trap] PROVE TrapOK(fin[Trap])'
    <3>1. \A n : Digest(Trap, n)' = Digest(Trap, n)
      BY <2>1, <2>2, SameDigests
    <3>2. child' = child
      BY <2>1 DEF disk
    <3> QED BY <2>1, <2>2, <3>1, <3>2 DEF TrapOK
  <2>3. CASE UNCHANGED <<fin, result>>
    BY <2>2, <2>3
  <2>4. CASE RunFinalizer
    <3>1. fin'[Trap] = [Locals EXCEPT !.pc = "start", !.exit = code] /\ code = 0
      BY <1>1, <1>3, <2>4 DEF RunFinalizer, QuietFlow
    <3> QED BY <3>1 DEF TrapOK, Locals, Evidenced, Writing
  <2>5. ASSUME NEW f \in Finalizers, StartFinalizer(f) \/ Finalize(f) \/ FinAborts(f) PROVE TrapOK(fin[Trap])'
    <3>1. CASE f # Trap
      <4>1. fin'[Trap] = fin[Trap] /\ result'[Trap] = result[Trap]
        BY <2>5, <3>1, FinalizerStep, FinalizersAssumption
      <4> QED BY <2>2, <4>1
    <3>2. CASE f = Trap /\ (FinAborts(f) \/ FinLink(f))
      <4>1. PICK status : fin'[Trap] = Ended(status)
        BY <1>1, <3>2 DEF FinAborts, FinLink, Step
      <4> QED BY <4>1 DEF TrapOK, Ended, Locals, Evidenced, Writing
    <3>3. CASE f = Trap /\ ~FinAborts(f) /\ ~FinLink(f)
      BY <2>1, <2>5, <3>3, TrapReads, TrapWrites DEF Finalize, StartFinalizer
    <3> QED BY <3>1, <3>2, <3>3
  <2> QED
    BY <1>1, <2>3, <2>4, <2>5
    DEF Next, WrapperStep, GateStep, Sha256Sum, Capture, VerifyInputs, Install, StartGate, AwaitGate, Decide,
        GateResult, GateReport, GateExit, Over, vars
<1> QED BY <1>2, <1>3

\* What the trap's finaliser links in a quiet run is a PASS.
LEMMA QuietReport ==
  ASSUME Inv, QuietFlow, TrapInv, NoFalseFail, [Next]_vars
  PROVE  NoFalseFail'
<1> SUFFICES ASSUME Published', Quiet', output'.by = Trap, gate' = "passed" PROVE output'.status = "PASS"
  BY DEF NoFalseFail, Quiet
<1>1. Quiet /\ FlowInv /\ OutputInv
  BY QuietSteps DEF Inv
<1>2. CASE output' = output
  <2>1. Published
    BY <1>2 DEF Published
  <2>2. fin[Trap].pc = "ended"
    BY <1>1, <1>2, <2>1 DEF OutputInv
  <2>3. gate = "passed"
    <3>1. CASE GateStep
      <4>1. wrapper = "gate"
        BY <1>1, <3>1 DEF GateStep, GateResult, GateReport, GateExit, QuietFlow
      <4> QED BY <1>1, <2>2, <4>1 DEF FlowInv
    <3>2. CASE WrapperStep \/ Terminate \/ Edit \/ UNCHANGED vars
      BY <3>2 DEF WrapperStep, Sha256Sum, Capture, VerifyInputs, Install, StartGate, AwaitGate, RunFinalizer, Decide,
                  Terminate, Edit, vars
    <3>3. CASE \E f \in Finalizers : StartFinalizer(f) \/ Finalize(f) \/ FinAborts(f)
      BY <3>3, FinalizerFrame
    <3> QED BY <3>1, <3>2, <3>3 DEF Next, Over
  <2> QED BY <1>1, <1>2, <2>1, <2>3 DEF NoFalseFail, Quiet
<1>3. CASE output' # output
  <2>1. PICK f \in Finalizers : FinLink(f) /\ output = NoReport
    <3>1. PICK f \in Finalizers : Finalize(f) /\ output' # output
      BY <1>3
      DEF Next, WrapperStep, GateStep, Sha256Sum, Capture, VerifyInputs, Install, StartGate, AwaitGate, RunFinalizer, Decide,
          GateResult, GateReport, GateExit, Terminate, Edit, Over, vars, StartFinalizer, FinAborts, Unshared
    <3>2. FinLink(f)
      BY <3>1
      DEF Finalize, FinBegin, FinManifest, FinInput, FinChildDigest, FinReadChild, FinChildEvidence,
          FinChildAgain, FinResult, FinSnapshot, FinRecheck, FinRecheckChild, FinLate, Unshared
    <3> QED BY <3>1, <3>2 DEF FinLink
  <2>2. output'.by = f /\ output'.status = Status(f)
    BY <2>1, LinkPublishes
  <2>3. fin[Trap].pc = "link" /\ f = Trap
    BY <2>1, <2>2 DEF FinLink, At
  <2>4. gate = "passed"
    BY <2>1 DEF FinLink
  <2>5. TrapOK(fin[Trap])
    BY <1>1, <2>4 DEF TrapInv
  <2>6. fin[Trap].clean /\ result[Trap].exit = 0 /\ CHECKS \subseteq fin[Trap].pass
    BY <2>3, <2>5 DEF TrapOK, CHECKS, Evidenced, Writing
  <2>7. fin[Trap].pass \in SUBSET CHECKS
    BY FinalizersAssumption DEF Inv, TypeOK, LocalOK
  <2>8. fin[Trap].pass = CHECKS
    BY <2>6, <2>7
  <2>9. Status(Trap) = "PASS"
    BY <2>6, <2>8 DEF Status
  <2> QED BY <2>2, <2>3, <2>9
<1> QED BY <1>2, <1>3

\* A run that nobody disturbs, with a gate that passes, is not reported as failed.
THEOREM Undisturbed == Spec => []NoFalseFail
<1>1. Init => QuietInv
  <2> SUFFICES ASSUME Init PROVE QuietInv
    OBVIOUS
  <2>1. QuietFlow
    BY DEF Init, QuietFlow
  <2> QED BY <2>1 DEF Init, QuietInv, TrapInv, NoFalseFail, Published
<1>2. Inv /\ QuietInv /\ [Next]_vars => QuietInv'
  <2> SUFFICES ASSUME Inv, QuietInv, [Next]_vars PROVE QuietInv'
    OBVIOUS
  <2> QED BY QuietFlowStep, TrapStep, QuietReport DEF QuietInv
<1>3. QuietInv => NoFalseFail
  BY DEF QuietInv
<1> QED BY Invariant, <1>1, <1>2, <1>3, PTL DEF Spec
================================================================================
