------------------------------ MODULE EntryReport ------------------------------
(***************************************************************************)
(* One invocation of the native CARLA client and the report it leaves:      *)
(* probe-arm64-runtime.sh pins the input files (capture), installs the      *)
(* wheel, runs the gate and, in its EXIT trap, finalises the run directory  *)
(* (runtime_entry_report.py), which reads every file again and publishes    *)
(* stage-report.json with stage_report.py's write_report and os.link.       *)
(*                                                                         *)
(* Several processes share the files: the wrapper, the gate, any number of  *)
(* finalisers and somebody who edits files.  A digest reads one file in one *)
(* step, and nothing else does.  A file's content is its version; an edit   *)
(* writes a version never seen before, so an edit undone later is outside   *)
(* of this model.  SHA-256 has no collision here: a digest is the content.  *)
(***************************************************************************)
EXTENDS Integers, FiniteSets, Sequences, Functions

CONSTANTS
    Finalizers,   \* processes that run `finalize`
    Missing,      \* what a file that is not there has for content
    Trap,         \* the one the wrapper's EXIT trap starts
    MaxEdits,     \* bound: edits of the files from outside
    Terminations, \* bound: 0 or 1 SIGTERM to the wrapper
    MaxFaults     \* bound: edits, signals, aborted and hand-started finalisers

ASSUME FinalizersAssumption == Trap \in Finalizers
ASSUME EditsAssumption == MaxEdits \in Nat /\ Terminations \in {0, 1} /\ MaxFaults \in Nat

\* Two of the six labels, by the moment they are read: pip reads the wheel,
\* python the evaluator.
LABELS == <<"wheel", "evaluator">>
Labels == Range(LABELS)

CHECKS == {"outer-exit", "manifest", "endpoint"} \cup Labels

\* What the files hold: versions, the pinned versions, the gate's report, a result.
Versions  == Nat \cup {Missing}
Manifests == [files : [Labels -> Nat], edit : Nat]
Children  == [status : {"PASS", "FAIL"}, edit : Nat, evidence : [proof : Versions, evaluator : Versions]]
Results   == [pass : SUBSET CHECKS, exit : Nat]

ASSUME MissingAssumption == Missing \notin Nat \cup Manifests \cup Children \cup Results

VARIABLES
    input,      \* [Labels -> version or Missing]
    manifest,   \* inputs.json: what capture wrote, Missing, or edited
    wheelSum,   \* wheel.sha256
    proof,      \* the gate's own evidence, runtime-result.json
    child,      \* endpoint/stage-report.json
    log,        \* client.log: 0 while the gate may still write to it, then 1
    result,     \* [Finalizers -> finalize-result.json]
    output,     \* stage-report.json, or NoReport
    edits, kills, aborts,
    wrapper,    \* where the wrapper is
    identity,   \* inputs_identity
    code,       \* $? in the EXIT trap
    decision,   \* decision.md
    gate,       \* the gate's process
    used,       \* [Labels -> version that was in effect read]
    fin         \* [Finalizers -> the locals of finalize]

disk    == <<input, manifest, wheelSum, proof, child, log>>
outside == <<edits, kills, aborts>>
shell   == <<wrapper, identity, code, decision>>
vars    == <<disk, result, output, outside, shell, gate, used, fin>>

--------------------------------------------------------------------------------
(* The files as the finaliser names them.                                  *)

\* The evidence of the report in the order of its dict, and the child: the
\* inputs when the manifest is the pinned one, the log when it is there.
EvidenceNames(known, logged) ==
    <<"manifest">> \o (IF known THEN LABELS ELSE << >>)
        \o (IF logged THEN <<"log">> ELSE << >>) \o <<"result", "child">>

\* _digest; _snapshot turns the error of a file that is not there into None.
Digest(f, name) ==
    CASE name \in Labels     -> input[name]
      [] name = "manifest"   -> manifest
      [] name = "log"        -> log
      [] name = "proof"      -> proof
      [] name = "result"     -> result[f]
      [] name = "child"      -> child

\* The names of the evidence, and none of it digested yet.
Names  == Labels \cup {"manifest", "log", "result", "child"}
NoSnap == [n \in Names |-> Missing]

NoReport == [status |-> "none"]

\* Within the bound on what others may still do.
Room == edits + kills + aborts + Cardinality({f \in Finalizers \ {Trap} : fin[f].pc # "idle"}) < MaxFaults

\* The evidence of the gate's own report.
ChildEvidence == <<"proof", "evaluator">>

Locals == [pc |-> "idle", exit |-> 0, k |-> 1, pass |-> {}, expected |-> Missing,
           childSha |-> Missing, reading |-> Missing, names |-> << >>, snap |-> NoSnap, clean |-> TRUE,
           tries |-> 0, status |-> "none"]

Init ==
    /\ input = [l \in Labels |-> 0]
    /\ manifest = Missing /\ wheelSum = Missing /\ proof = Missing /\ child = Missing
    /\ log = Missing
    /\ result = [f \in Finalizers |-> Missing]
    /\ output = NoReport
    /\ edits = 0 /\ kills = 0 /\ aborts = 0
    /\ wrapper = "sum" /\ identity = Missing /\ code = 0 /\ decision = "none"
    /\ gate = "none"
    /\ used = [l \in Labels |-> Missing]
    /\ fin = [f \in Finalizers |-> Locals]

--------------------------------------------------------------------------------
(* probe-arm64-runtime.sh.  A command that fails ends the script (set -e)   *)
(* and starts the EXIT trap with its code.                                 *)

Go(next) == wrapper' = next /\ UNCHANGED <<identity, code, decision>>

Die(c) == wrapper' = "trap" /\ code' = c /\ UNCHANGED <<identity, decision>>

\* sha256sum "${wheel}" > wheel.sha256
Sha256Sum ==
    /\ wrapper = "sum"
    /\ wheelSum' = input["wheel"]
    /\ IF input["wheel"] = Missing THEN Die(1) ELSE Go("capture")
    /\ UNCHANGED <<input, manifest, proof, child, log, result, output, outside, gate, used, fin>>

\* capture(): the manifest's bytes and their digest.  Its reads are one step:
\* a file that changes among them is a file that changed before.
Capture ==
    /\ wrapper = "capture"
    /\ IF Missing \in Range(input)
       THEN Die(1) /\ UNCHANGED manifest
       ELSE /\ manifest' = [files |-> input, edit |-> 0]
            /\ identity' = manifest'
            /\ wrapper' = "verify-1" /\ UNCHANGED <<code, decision>>
    /\ UNCHANGED <<input, wheelSum, proof, child, log, result, output, outside, gate, used, fin>>

\* verify_inputs: the pinned manifest, every input, and the wheel against
\* wheel.sha256.  It is called four times; "next" is what follows each.
VerifyInputs ==
    \E v \in {[at |-> "verify-1", next |-> "install"], [at |-> "verify-2", next |-> "verify-3"],
              [at |-> "verify-3", next |-> "start"], [at |-> "verify-4", next |-> "end"]} :
        /\ wrapper = v.at
        /\ IF manifest = identity /\ input = identity.files /\ input["wheel"] = wheelSum
           THEN IF v.next = "end" THEN Die(0) ELSE Go(v.next)
           ELSE Die(1)
        /\ UNCHANGED <<disk, result, output, outside, gate, used, fin>>

\* pip install --force-reinstall "${wheel}"
Install ==
    /\ wrapper = "install"
    /\ used' = [used EXCEPT !["wheel"] = input["wheel"]]
    /\ \/ input["wheel"] # Missing /\ Go("verify-2")
       \/ Die(1)
    /\ UNCHANGED <<disk, result, output, outside, gate, fin>>

\* timeout ... python3 check_carla_runtime.py > client.log
StartGate ==
    /\ wrapper = "start"
    /\ log' = IF input["evaluator"] = Missing THEN 1 ELSE 0
    /\ used' = [used EXCEPT !["evaluator"] = input["evaluator"]]
    /\ gate' = IF input["evaluator"] = Missing THEN "failed" ELSE "running"
    /\ Go("gate")
    /\ UNCHANGED <<input, manifest, wheelSum, proof, child, result, output, outside, fin>>

\* `if "${command[@]}"`: the gate's exit code is the wrapper's, or the last
\* verification follows.
AwaitGate ==
    /\ wrapper = "gate"
    /\ gate \in {"passed", "failed"}
    /\ IF gate = "passed" THEN Go("verify-4") ELSE Die(1)
    /\ UNCHANGED <<disk, result, output, outside, gate, used, fin>>

\* A SIGTERM ends the script at once: the trap finds the code of the last
\* command that ended, which is 0, and the gate is still there.  In the trap it
\* ends the wrapper without a decision, and the finaliser goes on.
Terminate ==
    /\ kills < Terminations /\ Room
    /\ wrapper \notin {"exited", "killed"}
    /\ kills' = kills + 1
    /\ IF wrapper \in {"trap", "finalize"} THEN Go("killed") ELSE Die(0)
    /\ UNCHANGED <<disk, result, output, edits, aborts, gate, used, fin>>

\* finish(): start the finaliser ...
RunFinalizer ==
    /\ wrapper = "trap"
    /\ Go("finalize")
    /\ fin' = [fin EXCEPT ![Trap] = [Locals EXCEPT !.pc = "start", !.exit = code]]
    /\ UNCHANGED <<disk, result, output, outside, gate, used>>

\* Mutant of Decide: the finaliser's exit code is dropped.
DecideByOwnCode ==
    /\ wrapper = "finalize"
    /\ fin[Trap].pc = "ended"
    /\ decision' = IF code = 0 /\ output # NoReport THEN "PASS" ELSE "FAIL"
    /\ wrapper' = "exited"
    /\ UNCHANGED <<disk, result, output, outside, identity, code, gate, used, fin>>

\* ... and decide by its exit code and the report that is there.
Decide ==
    /\ wrapper = "finalize"
    /\ fin[Trap].pc = "ended"
    /\ LET final == IF code # 0 THEN code ELSE IF fin[Trap].status = "PASS" THEN 0 ELSE 1 IN
         /\ decision' = IF final = 0 /\ output # NoReport THEN "PASS" ELSE "FAIL"
         /\ code' = final
    /\ wrapper' = "exited"
    /\ UNCHANGED <<disk, result, output, outside, identity, gate, used, fin>>

--------------------------------------------------------------------------------
(* The gate: its result file, its own stage report, then its exit.         *)

GateResult ==
    /\ gate = "running"
    /\ proof = Missing
    /\ proof' = 0
    /\ UNCHANGED <<input, manifest, wheelSum, child, log, result, output, outside, shell, gate, used, fin>>

GateReport ==
    /\ gate = "running"
    /\ proof # Missing /\ child = Missing
    /\ \E status \in {"PASS", "FAIL"} :
         child' = [status |-> status, edit |-> 0,
                   evidence |-> [proof |-> proof, evaluator |-> input["evaluator"]]]
    /\ UNCHANGED <<input, manifest, wheelSum, proof, log, result, output, outside, shell, gate, used, fin>>

\* main() prints the verdict, which closes client.log; or the timeout kills it.
GateExit ==
    /\ gate = "running"
    /\ \/ child # Missing /\ gate' = IF child.status = "PASS" THEN "passed" ELSE "failed"
       \/ gate' = "failed"
    /\ log' = 1
    /\ UNCHANGED <<input, manifest, wheelSum, proof, child, result, output, outside, shell, used, fin>>

--------------------------------------------------------------------------------
(* finalize().                                                             *)

At(f, pc) == fin[f].pc = pc

Step(f, changes) == fin' = [fin EXCEPT ![f] = changes]

Unshared == UNCHANGED <<disk, result, output, outside, shell, gate, used>>

\* Another finaliser is started by hand for the same run directory.
StartFinalizer(f) ==
    /\ f # Trap /\ At(f, "idle") /\ Room
    /\ wrapper \notin {"sum", "capture"}
    /\ Step(f, [Locals EXCEPT !.pc = "start"])
    /\ Unshared

Ended(status) == [Locals EXCEPT !.pc = "ended", !.status = status]

\* "refusing to overwrite", and the outer exit code
FinBegin(f) ==
    LET local == fin[f] IN
    /\ At(f, "start")
    /\ Step(f, IF output # NoReport THEN Ended("none")
               ELSE [local EXCEPT !.pc = "manifest",
                                  !.pass = IF local.exit = 0 THEN {"outer-exit"} ELSE {}])
    /\ Unshared

\* Mutant of FinManifest: the manifest check is never marked PASS.
FinManifestUnmarked(f) ==
    LET local == fin[f] IN
    /\ At(f, "manifest")
    /\ Step(f, IF identity # Missing /\ manifest = identity
               THEN [local EXCEPT !.pc = "inputs", !.k = 1, !.expected = manifest]
               ELSE [local EXCEPT !.pc = "child"])
    /\ Unshared

\* _input_state: the manifest's bytes against the pinned identity ...
FinManifest(f) ==
    LET local == fin[f] IN
    /\ At(f, "manifest")
    /\ Step(f, IF identity # Missing /\ manifest = identity
               THEN [local EXCEPT !.pc = "inputs", !.k = 1, !.expected = manifest,
                                  !.pass = @ \cup {"manifest"}]
               ELSE [local EXCEPT !.pc = "child"])
    /\ Unshared

\* ... and every input against the manifest.
FinInput(f) ==
    LET local == fin[f]
        label == LABELS[local.k] IN
    /\ At(f, "inputs")
    /\ Step(f, [local EXCEPT !.pc = IF local.k < Len(LABELS) THEN "inputs" ELSE "child",
                             !.k = @ + 1,
                             !.pass = IF Digest(f, label) = local.expected.files[label]
                                      THEN @ \cup {label} ELSE @])
    /\ Unshared

\* child_sha256 = _digest(child): an error leaves it None.
FinChildDigest(f) ==
    /\ At(f, "child")
    /\ Step(f, [fin[f] EXCEPT !.pc = IF child = Missing THEN "result" ELSE "read-child",
                              !.childSha = child])
    /\ Unshared

\* validate_report(child): the bytes are read once, then its evidence.
FinReadChild(f) ==
    /\ At(f, "read-child")
    /\ Step(f, [fin[f] EXCEPT !.reading = child, !.k = 1,
                              !.pc = IF child # Missing /\ child.status = "PASS"
                                     THEN "child-evidence" ELSE "result"])
    /\ Unshared

FinChildEvidence(f) ==
    LET local == fin[f]
        name == ChildEvidence[local.k] IN
    /\ At(f, "child-evidence")
    /\ Step(f, IF Digest(f, name) = local.reading.evidence[name]
               THEN [local EXCEPT !.pc = IF local.k < Len(ChildEvidence) THEN @ ELSE "child-again",
                                  !.k = @ + 1]
               ELSE [local EXCEPT !.pc = "result"])
    /\ Unshared

\* "endpoint report changed during validation"
FinChildAgain(f) ==
    LET local == fin[f] IN
    /\ At(f, "child-again")
    /\ Step(f, [local EXCEPT !.pc = "result",
                             !.pass = IF child = local.childSha THEN @ \cup {"endpoint"} ELSE @])
    /\ Unshared

RootExit(local) == IF local.pass = CHECKS THEN 0 ELSE IF local.exit # 0 THEN local.exit ELSE 1

\* finalize-result.json, then the report is begun: pass 1.
FinResult(f) ==
    LET local == fin[f] IN
    /\ At(f, "result")
    /\ result' = [result EXCEPT ![f] = [pass |-> local.pass, exit |-> RootExit(local)]]
    /\ Step(f, [local EXCEPT !.pc = "snapshot", !.k = 1, !.tries = 1,
                  !.names = EvidenceNames(local.expected # Missing, log # Missing)])
    /\ UNCHANGED <<disk, output, outside, shell, gate, used>>

\* write_report: a snapshot of every file ...
FinSnapshot(f) ==
    LET local == fin[f]
        last  == local.k = Len(local.names) IN
    /\ At(f, "snapshot")
    /\ Step(f, [local EXCEPT !.snap[local.names[local.k]] = Digest(f, local.names[local.k]),
                             !.pc = IF last THEN "recheck" ELSE @,
                             !.k = IF last THEN 1 ELSE @ + 1])
    /\ Unshared

\* ... then _content_errors: each digest again.  For the child, the last of
\* them, its bytes and its own evidence follow.
FinRecheck(f) ==
    LET local == fin[f]
        seen  == Digest(f, local.names[local.k])
        same  == seen # Missing /\ seen = local.snap[local.names[local.k]]
        last  == local.k = Len(local.names)
        sound == IF last THEN same /\ child.status = "PASS" ELSE same IN
    /\ At(f, "recheck")
    /\ Step(f, [local EXCEPT !.clean = @ /\ sound,
                             !.reading = IF last THEN child ELSE @,
                             !.pc = IF ~last THEN @ ELSE IF sound THEN "recheck-child" ELSE "late",
                             !.k = IF last THEN 1 ELSE @ + 1])
    /\ Unshared

FinRecheckChild(f) ==
    LET local == fin[f]
        name == ChildEvidence[local.k] IN
    /\ At(f, "recheck-child")
    /\ Step(f, [local EXCEPT !.clean = @ /\ Digest(f, name) = local.reading.evidence[name],
                             !.pc = IF local.k < Len(ChildEvidence) THEN @ ELSE "late",
                             !.k = @ + 1])
    /\ Unshared

\* The status write_report gives; the root exit is that of the result file.
Status(f) ==
    IF fin[f].clean /\ result[f].exit = 0 /\ fin[f].pass = CHECKS THEN "PASS" ELSE "FAIL"

\* report["evidence"][name]["sha256"]
Recorded(f, name) == fin[f].snap[name]

\* Mutant of Late: the digests of the report are not compared with those that were checked.
NoneLate(f) == {}

\* late_errors: the checks whose file is not what was checked any more.
Late(f) ==
    LET local == fin[f]
        Was(n) == CASE n = "manifest" -> local.expected
                    [] n \in Labels   -> local.expected.files[n]
                    [] n = "child"    -> local.childSha
                    [] OTHER          -> Missing IN
    {n \in Range(local.names) : Was(n) # Missing /\ Recorded(f, n) # Was(n)}

FailedBy(late) == {IF n = "child" THEN "endpoint" ELSE n : n \in late}

\* Mutant of FinLate: only the report is written again, not the result file.
FinLateKeepsResult(f) ==
    LET local == fin[f]
        pass  == local.pass \ FailedBy(Late(f)) IN
    /\ At(f, "late")
    /\ IF local.tries = 1 /\ (Late(f) # {} \/ (Status(f) # "PASS" /\ result[f].exit = 0))
       THEN Step(f, [local EXCEPT !.pass = pass, !.pc = "snapshot", !.k = 1, !.snap = NoSnap,
                                  !.clean = TRUE, !.tries = 2])
       ELSE Step(f, [local EXCEPT !.pc = "link"])
    /\ UNCHANGED <<disk, result, output, outside, shell, gate, used>>

\* Mutant of FinLate: the report is written again until nothing is late.
FinLateUntilStable(f) ==
    LET local == fin[f]
        pass  == local.pass \ FailedBy(Late(f)) IN
    /\ At(f, "late")
    /\ IF Late(f) # {} \/ (Status(f) # "PASS" /\ result[f].exit = 0)
       THEN /\ result' = [result EXCEPT ![f] = [pass |-> pass,
                             exit |-> IF local.exit # 0 THEN local.exit ELSE 1]]
            /\ Step(f, [local EXCEPT !.pass = pass, !.pc = "snapshot", !.k = 1, !.snap = NoSnap,
                                     !.clean = TRUE, !.tries = 2])
       ELSE /\ Step(f, [local EXCEPT !.pc = "link"])
            /\ UNCHANGED result
    /\ UNCHANGED <<disk, output, outside, shell, gate, used>>

\* The first report is on disk beside the output.  A late error, or a FAIL
\* where the result says 0, rewrites the result file and the report.
FinLate(f) ==
    LET local == fin[f]
        pass  == local.pass \ FailedBy(Late(f)) IN
    /\ At(f, "late")
    /\ IF local.tries = 1 /\ (Late(f) # {} \/ (Status(f) # "PASS" /\ result[f].exit = 0))
       THEN /\ result' = [result EXCEPT ![f] = [pass |-> pass,
                             exit |-> IF local.exit # 0 THEN local.exit ELSE 1]]
            /\ Step(f, [local EXCEPT !.pass = pass, !.pc = "snapshot", !.k = 1, !.snap = NoSnap,
                                     !.clean = TRUE, !.tries = 2])
       ELSE /\ Step(f, [local EXCEPT !.pc = "link"])
            /\ UNCHANGED result
    /\ UNCHANGED <<disk, output, outside, shell, gate, used>>

\* The report; "by" and "validated", who wrote it and the child that was checked, are history.
Report(f) ==
    [status |-> Status(f), exit |-> result[f].exit, pass |-> fin[f].pass, by |-> f, validated |-> fin[f].childSha,
     evidence |-> [n \in Range(fin[f].names) |-> Recorded(f, n)]]

\* Mutant of FinLink: os.replace for os.link.
FinReplaces(f) ==
    /\ At(f, "link")
    /\ output' = Report(f) /\ Step(f, Ended(Status(f)))
    /\ UNCHANGED <<disk, result, outside, shell, gate, used>>

\* os.link(pending, output) fails when the output is there.
FinLink(f) ==
    /\ At(f, "link")
    /\ IF output = NoReport
       THEN output' = Report(f) /\ Step(f, Ended(Status(f)))
       ELSE Step(f, Ended("none")) /\ UNCHANGED output
    /\ UNCHANGED <<disk, result, outside, shell, gate, used>>

\* A file cannot be read or written where the code lets the error through, or
\* the process is killed: nothing is published.
FinAborts(f) ==
    /\ ~At(f, "idle") /\ ~At(f, "ended") /\ Room
    /\ aborts' = aborts + 1
    /\ Step(f, Ended("none"))
    /\ UNCHANGED <<disk, result, output, edits, kills, shell, gate, used>>

Finalize(f) ==
    \/ FinBegin(f) \/ FinManifest(f) \/ FinInput(f) \/ FinChildDigest(f) \/ FinReadChild(f)
    \/ FinChildEvidence(f) \/ FinChildAgain(f) \/ FinResult(f) \/ FinSnapshot(f)
    \/ FinRecheck(f) \/ FinRecheckChild(f) \/ FinLate(f) \/ FinLink(f)

--------------------------------------------------------------------------------
(* Somebody edits or removes a file.                                       *)

EditInput(l) ==
    /\ \E v \in {edits + 1, Missing} : input' = [input EXCEPT ![l] = v]
    /\ UNCHANGED <<manifest, wheelSum, proof, child, log>>

EditManifest ==
    /\ manifest # Missing
    /\ manifest' = [manifest EXCEPT !.edit = edits + 1]
    /\ UNCHANGED <<input, wheelSum, proof, child, log>>

EditProof ==
    /\ proof # Missing
    /\ proof' \in {edits + 1, Missing}
    /\ UNCHANGED <<input, manifest, wheelSum, child, log>>

EditChild ==
    /\ child # Missing
    /\ child' = [child EXCEPT !.edit = edits + 1]
    /\ UNCHANGED <<input, manifest, wheelSum, proof, log>>

Edit ==
    /\ edits < MaxEdits /\ Room
    /\ edits' = edits + 1
    /\ (\E l \in Labels : EditInput(l)) \/ EditManifest \/ EditProof \/ EditChild
    /\ UNCHANGED <<result, output, kills, aborts, shell, gate, used, fin>>

--------------------------------------------------------------------------------
WrapperStep ==
    Sha256Sum \/ Capture \/ VerifyInputs \/ Install \/ StartGate \/ AwaitGate \/ RunFinalizer \/ Decide

GateStep == GateResult \/ GateReport \/ GateExit

Over == wrapper \in {"exited", "killed"} /\ UNCHANGED vars

Next ==
    \/ WrapperStep \/ GateStep \/ Terminate \/ Edit \/ Over
    \/ \E f \in Finalizers : StartFinalizer(f) \/ Finalize(f) \/ FinAborts(f)

\* The wrapper and what it waits for are scheduled; a second finaliser, the
\* editor and signals are not.
Spec == Init /\ [][Next]_vars /\ WF_vars(WrapperStep) /\ WF_vars(GateExit) /\ WF_vars(Finalize(Trap))

--------------------------------------------------------------------------------
(* Properties.                                                             *)

\* A digest in `snap` is of a version, a manifest, a report or a result.
Places   == {"idle", "start", "manifest", "inputs", "child", "read-child", "child-evidence", "child-again",
             "result", "snapshot", "recheck", "recheck-child", "late", "link", "ended"}
Statuses == {"none", "PASS", "FAIL"}

LocalOK(local) ==
    /\ local \in [pc : Places,
                  exit : Nat, k : Nat, pass : SUBSET CHECKS, expected : Manifests \cup {Missing},
                  childSha : Children \cup {Missing}, reading : Children \cup {Missing},
                  names : Seq(Names), snap : {local.snap}, clean : BOOLEAN, tries : Nat,
                  status : Statuses]
    /\ local.snap = [n \in Names |-> local.snap[n]]

TypeOK ==
    /\ edits \in Nat /\ kills \in Nat /\ aborts \in Nat
    /\ input \in [Labels -> Versions] /\ used \in [Labels -> Versions]
    /\ wheelSum \in Versions /\ proof \in Versions /\ log \in {Missing, 0, 1}
    /\ manifest \in Manifests \cup {Missing} /\ identity \in Manifests \cup {Missing}
    /\ child \in Children \cup {Missing}
    /\ result \in [Finalizers -> Results \cup {Missing}]
    /\ wrapper \in {"sum", "capture", "verify-1", "install", "verify-2", "verify-3", "start", "gate",
                     "verify-4", "trap", "finalize", "exited", "killed"}
    /\ code \in Nat
    /\ gate \in {"none", "running", "passed", "failed"}
    /\ decision \in {"none", "PASS", "FAIL"}
    /\ fin = [f \in Finalizers |-> fin[f]] /\ \A f \in Finalizers : LocalOK(fin[f])

Published == output # NoReport
PublishedPass == Published /\ output.status = "PASS"

\* A PASS report names the manifest that was pinned, every input as it was
\* pinned, and those are the files pip and python read.  Its child is the very
\* report that finalize validated, a PASS over the pinned evaluator, whatever is
\* edited after the validation.  (An edit of the child before finalize reads it,
\* which leaves it valid, finalize cannot tell from the gate's own writing.)
PassMeansPinned ==
    PublishedPass =>
        /\ output.evidence["manifest"] = identity
        /\ \A l \in Labels : output.evidence[l] = identity.files[l] /\ used[l] = identity.files[l]
        /\ output.evidence["child"] = output.validated
        /\ output.validated.status = "PASS"
        /\ output.validated.evidence["evaluator"] = identity.files["evaluator"]

\* The report and the result file it hashes say the same: the checks and the
\* exit code, also after the second writing.
ReportMatchesResult ==
    Published =>
        /\ output.evidence["result"] = result[output.by]
        /\ output.pass = result[output.by].pass
        /\ output.status = "PASS" => output.exit = 0 /\ output.pass = CHECKS

\* "a concurrent finalizer cannot clobber it": whoever ends with a verdict has
\* published that verdict, so two finalisers never report two.
OneVerdict ==
    \A f \in Finalizers : fin[f].status # "none" =>
        Published /\ output.by = f /\ output.status = fin[f].status

\* decision.md says PASS only over a published PASS, whoever published it.
DecisionMatchesReport == decision = "PASS" => PublishedPass

\* When nothing was edited, nobody was killed and no second finaliser ran, a
\* gate that passed is a PASS.
NoFalseFail ==
    /\ Published
    /\ edits = 0 /\ kills = 0
    /\ output.by = Trap /\ gate = "passed"
    => output.status = "PASS"

\* The wrapper ends with a decision, unless a signal ends its trap.
DecisionIsMade == <>(decision # "none" \/ wrapper = "killed")
================================================================================
