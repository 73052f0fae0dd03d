------------------------------- MODULE SdkBinding -------------------------------
(***************************************************************************)
(* prepare_native_usd_sdk.py: binds a verified OpenUSD to the engine.      *)
(* prepare links the prefixes of the reports into a directory of its own,  *)
(* patches the engine's files one by one and leaves a receipt; verify      *)
(* looks at all of it again.  Several SDKs may be prepared on one engine   *)
(* at once, while the engine's sources are edited: a file that one of them *)
(* is writing is cut short for everybody else.                             *)
(***************************************************************************)
EXTENDS NativeStage, Sequences

CONSTANTS Sdks,        \* directories native-usd-sdk-*
          Files        \* the engine's files to patch, in their order

Engine == 1 .. Len(Files)

ASSUME FilesAssumption == Len(Files) \in Nat \ {0}

VARIABLES engine,   \* [Engine -> what stands in each file: an edit, its state and whether it is patched]
          sdk       \* [Sdks -> one prepare and what it left]

sdkVars == <<engine, sdk>>

\* A file as of one edit: `whole`, the text that the patch looks for is there; `patched`, the
\* patch's text is; `torn`, the file has lost its end, or has the end of another text.
Source == [edit : 0 .. MaxEdits, whole : BOOLEAN, patched : BOOLEAN, torn : BOOLEAN]

Original == [edit |-> 0, whole |-> TRUE, patched |-> FALSE, torn |-> FALSE]

NoReceipt == << >>
NoUsd == "none"

FreshSdk == [pc |-> "start", usd |-> NoUsd, deps |-> [python |-> "none", boost |-> "none"],
             before |-> << >>, k |-> 1, receipt |-> NoReceipt, linked |-> FALSE]

SdkInit ==
    /\ engine = [f \in Engine |-> Original]
    /\ sdk = [s \in Sdks |-> FreshSdk]

\* Mutant of Patchable: `once` refuses a file that is patched already.
PatchableOnce == \A f \in Engine : ~engine[f].patched /\ engine[f].whole

\* once: a file that is patched stays as it is; one without the anchor is refused.
Patchable == \A f \in Engine : engine[f].patched \/ engine[f].whole

Patched(source) == [source EXCEPT !.patched = TRUE]

\* What stands in a file while it is written anew: nothing, or any length of the new text, in
\* which the patch finds its own text, the text to replace, or neither.
Torn(source) == {x \in Source : x.torn /\ x.edit = source.edit /\ (x.patched => x.whole)}

At(s, pc) == sdk[s].pc = pc

SdkStep(s, new) == sdk' = [sdk EXCEPT ![s] = new]

\* It raises; but for the text that it may have written, what it knew is forgotten.
SdkFails(s) ==
    /\ SdkStep(s, [FreshSdk EXCEPT !.pc = "failed", !.before = sdk[s].before])
    /\ UNCHANGED <<engine, stageVars>>

\* The report and the reports of the map, which must be those that it was built on;
\* then all five files are read and their patched text made.  A prepare that raises up to here
\* has made no directory: it leaves nothing behind and may be started again.
PrepareReads(s) ==
    /\ At(s, "start")
    /\ \E u \in UsdRuns :
        /\ SoundUsd(u) /\ Dependencies(map) /\ {map.python, map.boost} \subseteq report[u].on
        /\ Patchable
        /\ SdkStep(s, [sdk[s] EXCEPT !.pc = "check", !.usd = u, !.deps = map, !.before = engine])
    /\ UNCHANGED <<engine, stageVars>>

\* (A prepare that dies between two steps, or cannot write, takes no more of them.)
\* A file that is not what was read stops the whole, with the files before it patched.
PrepareChecks(s) ==
    /\ At(s, "check") /\ sdk[s].k \in Engine
    /\ IF engine[sdk[s].k] = sdk[s].before[sdk[s].k]
       THEN SdkStep(s, [sdk[s] EXCEPT !.pc = "write"]) /\ UNCHANGED <<engine, stageVars>>
       ELSE SdkFails(s)

\* write_bytes opens the file, which empties it, whatever stands there by now; a file that
\* was patched already is left alone.
PrepareOpens(s) ==
    /\ At(s, "write")
    /\ LET k == sdk[s].k   before == sdk[s].before[k] IN
        IF before.patched
        THEN SdkStep(s, [sdk[s] EXCEPT !.pc = "check", !.k = k + 1]) /\ UNCHANGED engine
        ELSE /\ SdkStep(s, [sdk[s] EXCEPT !.pc = "writing"])
             /\ \E torn \in Torn(before) : engine' = [engine EXCEPT ![k] = torn]
    /\ UNCHANGED stageVars

\* Another prepare has made another text of the same file, which may be longer.
Competes(s, k) ==
    \E t \in Sdks : sdk[t].before # << >> /\ Patched(sdk[t].before[k]) # Patched(sdk[s].before[k])

\* The rest of the text; what another prepare wrote beyond its end meanwhile stays.
PrepareWrites(s) ==
    /\ At(s, "writing")
    /\ LET k == sdk[s].k   after == Patched(sdk[s].before[k]) IN
        /\ SdkStep(s, [sdk[s] EXCEPT !.pc = "check", !.k = k + 1])
        /\ \/ engine' = [engine EXCEPT ![k] = after]
           \/ Competes(s, k) /\ engine' = [engine EXCEPT ![k] = [after EXCEPT !.torn = TRUE]]
    /\ UNCHANGED stageVars

\* The receipt has the digests of the engine as it is now, not as it was written.
PrepareReceipt(s) ==
    /\ At(s, "check") /\ sdk[s].k \notin Engine
    /\ SdkStep(s, [sdk[s] EXCEPT !.pc = "done", !.receipt = engine, !.linked = TRUE])
    /\ UNCHANGED <<engine, stageVars>>

--------------------------------------------------------------------------------
\* Mutant of SourcesVerified: the copy under after/ is not compared.
SourcesAsReceipted(s) == \A f \in Engine : engine[f] = sdk[s].receipt[f]

\* verify(): report, reports of the map, links, and for each file the receipt's digest
\* of the engine and of the copy that prepare keeps under after/.
SourcesVerified(s) ==
    \A f \in Engine : engine[f] = sdk[s].receipt[f] /\ Patched(sdk[s].before[f]) = sdk[s].receipt[f]

Verifies(s) ==
    /\ sdk[s].receipt # NoReceipt
    /\ SoundUsd(sdk[s].usd) /\ Dependencies(sdk[s].deps)
    /\ sdk[s].linked
    /\ Patchable
    /\ SourcesVerified(s)

--------------------------------------------------------------------------------
\* The engine's sources are edited, patched or not, or checked out again.
EditEngine ==
    /\ edits < MaxEdits /\ edits' = edits + 1
    /\ \E f \in Engine :
          \/ engine' = [engine EXCEPT ![f] = Original]
          \/ \E whole \in BOOLEAN : engine' = [engine EXCEPT ![f].edit = edits', ![f].whole = whole]
    /\ UNCHANGED <<build, report, intact, map, tool, sdk>>

\* A link of the SDK is turned to another prefix or removed, or its dependency map rewritten.
EditSdk ==
    /\ edits < MaxEdits /\ edits' = edits + 1
    /\ \E s \in Sdks : sdk[s].linked /\ SdkStep(s, [sdk[s] EXCEPT !.linked = FALSE])
    /\ UNCHANGED <<build, report, intact, map, tool, engine>>

Prepare(s) ==
    \/ PrepareReads(s) \/ PrepareChecks(s) \/ PrepareOpens(s) \/ PrepareWrites(s) \/ PrepareReceipt(s)

SdkNext == (\E s \in Sdks : Prepare(s)) \/ EditEngine \/ EditSdk

SdkType ==
    /\ engine \in [Engine -> Source]
    /\ sdk \in [Sdks -> [pc : {"start", "check", "write", "writing", "done", "failed"}, usd : UsdRuns \cup {NoUsd},
                         deps : [python : PythonRuns \cup {"none"}, boost : BoostRuns \cup {"none"}],
                         before : [Engine -> Source] \cup {<< >>}, k : 1 .. Len(Files) + 1,
                         receipt : [Engine -> Source] \cup {NoReceipt}, linked : BOOLEAN]]
================================================================================
