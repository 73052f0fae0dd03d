---------------------------- MODULE NativeSdkProofs ----------------------------
(***************************************************************************)
(* What holds of the native stages and of the SDK for every number of run  *)
(* directories, SDKs, engine files and edits.                              *)
(*                                                                         *)
(* The invariant follows one builder at a time: LocalOK ties how far a     *)
(* stage has come to what it has hashed and read, ReportOK a report to the *)
(* stage that wrote it.  Edits only ever raise `tool` and lower `intact`,  *)
(* so what is still as it was hashed has been so all along.                *)
(***************************************************************************)
EXTENDS NativeSdk, TLAPS

Pcs == {"start", "dependencies", "preflight", "source", "configure", "build",
        "check", "python-after", "retention", "pass", "fail", "done"}

Local == [pc : Pcs, python : PythonRuns \cup {"none"}, boost : BoostRuns \cup {"none"},
          tool : 0 .. MaxEdits, used : 0 .. MaxEdits, fed : BOOLEAN]

\* A stage that was fed by other stages: what it has read is a run of theirs.
FedBy(b, n) ==
    /\ b \in BoostRuns /\ n.pc \in {"preflight", "source", "build", "check", "python-after", "retention", "pass"}
       => n.python \in PythonRuns
    /\ b \in UsdRuns /\ n.pc \in {"source", "configure", "build", "check", "retention", "pass"}
       => n.python \in PythonRuns /\ n.boost \in BoostRuns

\* The tools: hashed before the build, used in it, compared after it.
ToolsOK(b, n) ==
    /\ n.tool <= tool
    /\ b \notin PythonRuns /\ n.pc \in {"check", "python-after", "retention", "pass"}
       => n.tool <= n.used /\ n.used <= tool
    /\ b \notin PythonRuns /\ n.pc = "pass" => n.used = n.tool

\* The prefixes: whatever is untouched now was untouched when it was compiled against.
PrefixesOK(b, n) ==
    /\ b \in BoostRuns /\ n.pc \in {"check", "python-after"} /\ intact[n.python] => n.fed
    /\ b \in BoostRuns /\ n.pc \in {"retention", "pass"} => n.fed
    /\ b \in UsdRuns /\ n.pc \in {"check", "retention"} /\ intact[n.python] /\ intact[n.boost] => n.fed
    /\ b \in UsdRuns /\ n.pc = "pass" => n.fed

\* An OpenUSD about to pass has seen that its Boost was built on its CPython.
OnTop(n) == report[n.boost].status = "PASS" /\ n.python \in report[n.boost].on

LocalOK(b, n) ==
    /\ FedBy(b, n) /\ ToolsOK(b, n) /\ PrefixesOK(b, n)
    /\ b \in UsdRuns /\ n.pc = "pass" => OnTop(n)

ReportOK(b) ==
    LET n == build[b] IN
    /\ n.pc # "done" => report[b] = NoReport
    /\ report[b].status = "PASS" =>
          /\ b \in BoostRuns \cup UsdRuns => n.used = n.tool /\ n.fed
          /\ b \in BoostRuns => n.python \in PythonRuns /\ report[b].on = {n.python}
          /\ b \in UsdRuns =>
                /\ n.python \in PythonRuns /\ n.boost \in BoostRuns
                /\ report[b].on = {n.python, n.boost} /\ OnTop(n)

StageInv ==
    /\ StageType
    /\ tool <= edits
    /\ \A b \in Builders : LocalOK(b, build[b]) /\ ReportOK(b)

--------------------------------------------------------------------------------
(* A step of one stage.                                                    *)

\* A stage that only changes what it remembers keeps the invariant, if what it then
\* remembers is in order.
LEMMA StepKeepsInv ==
    ASSUME StageInv, NEW b \in Builders, NEW n \in Local, build[b].pc # "done", n.pc # "done",
           Step(b, n), LocalOK(b, n)
    PROVE  StageInv'
<1>1. /\ build' = [build EXCEPT ![b] = n]
      /\ report' = report /\ intact' = intact /\ map' = map /\ tool' = tool /\ edits' = edits
    BY DEF Step
<1>2. build \in [Builders -> Local]
    BY DEF StageInv, StageType, Local, Pcs
<1>3. build'[b] = n /\ \A c \in Builders \ {b} : build'[c] = build[c]
    BY <1>1, <1>2
<1>4. StageType' /\ (tool <= edits)'
    BY <1>1, <1>2 DEF StageInv, StageType, Local, Pcs
<1>5. ASSUME NEW c \in Builders PROVE LocalOK(c, build[c])'
    <2>1. LocalOK(c, build'[c])
        BY <1>3 DEF StageInv
    <2> QED BY <2>1, <1>1 DEF LocalOK, FedBy, ToolsOK, PrefixesOK, OnTop
<1>6. ASSUME NEW c \in Builders PROVE ReportOK(c)'
    <2>1. ReportOK(c) /\ ReportOK(b)
        BY DEF StageInv
    <2>2. CASE c = b
        <3>1. report[b] = NoReport
            BY <2>1 DEF ReportOK
        <3> QED BY <3>1, <2>2, <1>1, <1>3 DEF ReportOK, NoReport
    <2>3. CASE c # b
        BY <2>1, <2>3, <1>1, <1>3 DEF ReportOK, OnTop
    <2> QED BY <2>2, <2>3
<1> QED BY <1>4, <1>5, <1>6 DEF StageInv

\* A failing stage forgets what it has hashed.
LEMMA FailKeepsInv ==
    ASSUME StageInv, NEW b \in Builders, build[b].pc # "done", Fails(b)
    PROVE  StageInv'
<1> DEFINE n == [build[b] EXCEPT !.pc = "fail", !.tool = 0, !.used = 0, !.fed = TRUE]
<1>1. build[b] \in Local /\ MaxEdits \in Nat /\ tool \in Nat
    BY BuildersAssumption DEF StageInv, StageType, Local, Pcs
<1>2. n \in Local /\ n.pc = "fail" /\ n.tool = 0
    <2>1. 0 \in 0 .. MaxEdits /\ "fail" \in Pcs
        BY <1>1 DEF Pcs
    <2>2. n \in Local
        BY <1>1, <2>1 DEF Local
    <2> QED BY <1>1, <2>2 DEF Local
<1>3. LocalOK(b, n)
    BY <1>1, <1>2 DEF LocalOK, FedBy, ToolsOK, PrefixesOK
<1>4. Step(b, n)
    BY DEF Fails
<1> HIDE DEF n
<1> QED BY <1>2, <1>3, <1>4, StepKeepsInv

\* A report is written once, by a stage at its end.
LEMMA PublishKeepsInv ==
    ASSUME StageInv, NEW b \in Builders, build[b].pc # "done", NEW passed \in BOOLEAN,
           NEW on \in SUBSET Builders, Publish(b, passed, on),
           passed =>
              /\ b \in BoostRuns \cup UsdRuns => build[b].used = build[b].tool /\ build[b].fed
              /\ b \in BoostRuns => build[b].python \in PythonRuns /\ on = {build[b].python}
              /\ b \in UsdRuns =>
                    /\ build[b].python \in PythonRuns /\ build[b].boost \in BoostRuns
                    /\ on = {build[b].python, build[b].boost} /\ OnTop(build[b])
    PROVE  StageInv'
<1> DEFINE r == [status |-> IF passed THEN "PASS" ELSE "FAIL", on |-> on]
           n == [build[b] EXCEPT !.pc = "done"]
<1>1. /\ build' = [build EXCEPT ![b] = n] /\ report' = [report EXCEPT ![b] = r]
      /\ intact' = intact /\ map' = map /\ tool' = tool /\ edits' = edits
    <2>1. [build EXCEPT ![b].pc = "done"] = [build EXCEPT ![b] = n]
        BY DEF StageInv, StageType
    <2> QED BY <2>1 DEF Publish
<1>2. build \in [Builders -> Local] /\ report \in [Builders -> [status : {"none", "PASS", "FAIL"}, on : SUBSET Builders]]
    BY DEF StageInv, StageType, Local, Pcs
<1>3. /\ build'[b] = n /\ report'[b] = r
      /\ \A c \in Builders \ {b} : build'[c] = build[c] /\ report'[c] = report[c]
    BY <1>1, <1>2
<1>4. /\ n \in Local /\ n.pc = "done" /\ n.python = build[b].python /\ n.boost = build[b].boost
      /\ n.tool = build[b].tool /\ n.used = build[b].used /\ n.fed = build[b].fed
    BY <1>2 DEF Local, Pcs
<1>5. r \in [status : {"none", "PASS", "FAIL"}, on : SUBSET Builders] /\ r.on = on /\ (r.status = "PASS" <=> passed)
    OBVIOUS
<1>6. report[b] = NoReport
    BY DEF StageInv, ReportOK
<1> HIDE DEF n, r
<1>7. StageType' /\ (tool <= edits)'
    BY <1>1, <1>2, <1>4, <1>5 DEF StageInv, StageType, Local, Pcs
<1>8. ASSUME NEW d \in Builders, report[d].status = "PASS" PROVE d # b /\ report'[d] = report[d]
    BY <1>3, <1>6, <1>8 DEF NoReport
<1>9. ASSUME NEW c \in Builders PROVE LocalOK(c, build[c])' /\ ReportOK(c)'
    <2>1. LocalOK(c, build[c]) /\ ReportOK(c) /\ LocalOK(b, build[b])
        BY DEF StageInv
    <2>2. OnTop(build[c]) /\ build[c].boost \in BoostRuns
          => report'[build[c].boost] = report[build[c].boost]
        BY <1>8 DEF OnTop, Builders
    <2>3. CASE c = b
        <3>1. LocalOK(b, build[b])'
            BY <1>1, <1>3, <1>4, <2>1 DEF LocalOK, FedBy, ToolsOK, PrefixesOK
        <3>2. passed /\ b \in UsdRuns => OnTop(build[b])'
            BY <2>2, <2>3, <1>3, <1>4 DEF OnTop
        <3>3. ReportOK(b)'
            BY <3>2, <1>3, <1>4, <1>5 DEF ReportOK
        <3> QED BY <3>1, <3>3, <2>3
    <2>4. CASE c # b
        <3>1. build'[c] = build[c] /\ report'[c] = report[c] /\ build[c] \in Local
            BY <1>2, <1>3, <2>4
        <3>2. LocalOK(c, build[c])'
            BY <3>1, <2>1, <2>2, <1>1 DEF LocalOK, FedBy, ToolsOK, PrefixesOK, OnTop
        <3>3. ReportOK(c)'
            BY <3>1, <2>1, <2>2 DEF ReportOK, OnTop
        <3> QED BY <3>2, <3>3
    <2> QED BY <2>3, <2>4
<1> QED BY <1>7, <1>9 DEF StageInv

\* A stage that goes on to `pc` with nothing new in its memory.
LEMMA GoKeepsInv ==
    ASSUME StageInv, NEW b \in Builders, NEW pc \in Pcs \ {"done"}, build[b].pc # "done",
           Go(b, pc), LocalOK(b, [build[b] EXCEPT !.pc = pc])
    PROVE  StageInv'
<1>1. [build[b] EXCEPT !.pc = pc] \in Local /\ [build[b] EXCEPT !.pc = pc].pc # "done"
    BY DEF StageInv, StageType, Local, Pcs
<1> QED BY <1>1, StepKeepsInv DEF Go

--------------------------------------------------------------------------------
(* The stages.                                                             *)

\* CPython is fed by nobody: its report promises nothing but itself.
LEMMA PythonKeepsInv ==
    ASSUME StageInv, NEW b \in PythonRuns,
           PythonPrepare(b) \/ PythonBuild(b) \/ PythonCheck(b) \/ PythonRetention(b) \/ PythonFinalize(b)
    PROVE  StageInv'
<1> USE DEF On
<1>1. b \in Builders /\ b \notin BoostRuns /\ b \notin UsdRuns /\ build[b] \in Local /\ LocalOK(b, build[b])
    BY BuildersAssumption DEF StageInv, StageType, Local, Pcs, Builders
<1>2. ASSUME NEW pc \in Pcs \ {"done"}, build[b].pc # "done", Go(b, pc) PROVE StageInv'
    <2>1. LocalOK(b, [build[b] EXCEPT !.pc = pc])
        BY <1>1 DEF LocalOK, FedBy, ToolsOK, PrefixesOK, Local
    <2> QED BY <2>1, <1>1, <1>2, GoKeepsInv
<1>3. ASSUME build[b].pc # "done", Fails(b) PROVE StageInv'
    BY <1>1, <1>3, FailKeepsInv
<1>4. CASE PythonPrepare(b)
    BY <1>2, <1>3, <1>4 DEF PythonPrepare, Pcs
<1>5. CASE PythonBuild(b)
    BY <1>2, <1>3, <1>5 DEF PythonBuild, Pcs
<1>6. CASE PythonCheck(b)
    BY <1>2, <1>3, <1>6 DEF PythonCheck, Pcs
<1>7. CASE PythonRetention(b)
    BY <1>2, <1>3, <1>7 DEF PythonRetention, Pcs
<1>8. CASE PythonFinalize(b)
    <2>1. Publish(b, On(b, "pass"), {}) /\ build[b].pc # "done"
        BY <1>8 DEF PythonFinalize
    <2> QED BY <2>1, <1>1, PublishKeepsInv
<1> QED BY <1>4, <1>5, <1>6, <1>7, <1>8

\* Boost: hashed before the build, its CPython and the tools looked at again after it.
LEMMA BoostKeepsInv ==
    ASSUME StageInv, NEW b \in BoostRuns,
           \/ BoostPythonBefore(b) \/ BoostToolchain(b) \/ BoostPrepare(b) \/ BoostBuild(b)
           \/ BoostCheck(b) \/ BoostPythonAfter(b) \/ BoostRetention(b) \/ BoostFinalize(b)
    PROVE  StageInv'
<1> USE DEF On
<1> DEFINE n == build[b]
<1>1. b \in Builders /\ b \notin PythonRuns /\ b \notin UsdRuns /\ n \in Local /\ LocalOK(b, n)
    BY BuildersAssumption DEF StageInv, StageType, Local, Pcs, Builders
<1>2. MaxEdits \in Nat /\ tool \in 0 .. MaxEdits /\ intact \in [Builders -> BOOLEAN]
    BY BuildersAssumption DEF StageInv, StageType
<1>3. ASSUME n.pc # "done", Fails(b) PROVE StageInv'
    BY <1>1, <1>3, FailKeepsInv
<1>4. CASE BoostPythonBefore(b)
    <2>1. ASSUME NEW p \in PythonRuns, Step(b, [build[b] EXCEPT !.pc = "preflight", !.python = p]) PROVE StageInv'
        <3> DEFINE m == [build[b] EXCEPT !.pc = "preflight", !.python = p]
        <3>1. m \in Local /\ m.pc = "preflight" /\ m.python = p /\ m.tool = n.tool
            BY <1>1 DEF Local, Pcs
        <3>2. LocalOK(b, m)
            BY <1>1, <3>1 DEF LocalOK, FedBy, ToolsOK, PrefixesOK
        <3> HIDE DEF m
        <3> QED BY <1>1, <1>4, <2>1, <3>1, <3>2, StepKeepsInv DEF BoostPythonBefore, m
    <2> QED BY <1>3, <1>4, <2>1 DEF BoostPythonBefore
<1>5. CASE BoostToolchain(b)
    <2>1. ASSUME Step(b, [build[b] EXCEPT !.pc = "source", !.tool = tool]) PROVE StageInv'
        <3> DEFINE m == [build[b] EXCEPT !.pc = "source", !.tool = tool]
        <3>1. m \in Local /\ m.pc = "source" /\ m.python = n.python /\ m.tool = tool
            BY <1>1, <1>2 DEF Local, Pcs
        <3>2. LocalOK(b, m)
            BY <1>1, <1>2, <1>5, <3>1 DEF BoostToolchain, LocalOK, FedBy, ToolsOK, PrefixesOK
        <3> HIDE DEF m
        <3> QED BY <1>1, <1>5, <2>1, <3>1, <3>2, StepKeepsInv DEF BoostToolchain, m
    <2> QED BY <1>3, <1>5, <2>1 DEF BoostToolchain
<1>6. CASE BoostPrepare(b)
    <2>1. LocalOK(b, [build[b] EXCEPT !.pc = "build"])
        BY <1>1, <1>6 DEF BoostPrepare, LocalOK, FedBy, ToolsOK, PrefixesOK, Local
    <2> QED BY <1>1, <1>3, <1>6, <2>1, GoKeepsInv DEF BoostPrepare, Pcs
<1>7. CASE BoostBuild(b)
    <2>1. ASSUME Compile(b, intact[n.python]) PROVE StageInv'
        <3> DEFINE m == [build[b] EXCEPT !.pc = "check", !.used = tool, !.fed = intact[n.python]]
        <3>1. n.python \in PythonRuns
            BY <1>1, <1>7 DEF BoostBuild, LocalOK, FedBy
        <3>2. intact[n.python] \in BOOLEAN
            BY <3>1, <1>2 DEF Builders
        <3>3. m \in Local /\ m.pc = "check" /\ m.python = n.python /\ m.tool = n.tool /\ m.used = tool
            BY <1>1, <1>2, <3>2 DEF Local, Pcs
        <3>4. intact[m.python] => m.fed
            BY <1>1, <3>2, <3>3 DEF Local
        <3> HIDE DEF m
        <3>5. LocalOK(b, m)
            BY <1>1, <1>2, <3>1, <3>3, <3>4 DEF LocalOK, FedBy, ToolsOK, PrefixesOK
        <3> QED BY <1>1, <1>7, <2>1, <3>3, <3>5, StepKeepsInv DEF BoostBuild, Compile, m
    <2> QED BY <1>3, <1>7, <2>1 DEF BoostBuild
<1>8. CASE BoostCheck(b)
    <2>1. LocalOK(b, [build[b] EXCEPT !.pc = "python-after"])
        BY <1>1, <1>8 DEF BoostCheck, LocalOK, FedBy, ToolsOK, PrefixesOK, Local
    <2> QED BY <1>1, <1>3, <1>8, <2>1, GoKeepsInv DEF BoostCheck, Pcs
<1>9. CASE BoostPythonAfter(b)
    <2>1. SoundLeaf(n.python) => LocalOK(b, [build[b] EXCEPT !.pc = "retention"])
        BY <1>1, <1>9 DEF BoostPythonAfter, SoundLeaf, LocalOK, FedBy, ToolsOK, PrefixesOK, Local
    <2> QED BY <1>1, <1>3, <1>9, <2>1, GoKeepsInv DEF BoostPythonAfter, Pcs
<1>10. CASE BoostRetention(b)
    <2>1. n.tool = tool => LocalOK(b, [build[b] EXCEPT !.pc = "pass"])
        BY <1>1, <1>2, <1>10 DEF BoostRetention, LocalOK, FedBy, ToolsOK, PrefixesOK, Local
    <2> QED BY <1>1, <1>3, <1>10, <2>1, GoKeepsInv DEF BoostRetention, Pcs
<1>11. CASE BoostFinalize(b)
    <2> DEFINE passed == On(b, "pass") /\ SoundLeaf(n.python)
               on == {n.python} \ {"none"}
    <2>1. Publish(b, passed, on) /\ n.pc # "done"
        BY <1>11 DEF BoostFinalize
    <2>2. on \in SUBSET Builders
        BY <1>1 DEF Local, Builders
    <2>3. passed => n.used = n.tool /\ n.fed /\ n.python \in PythonRuns /\ on = {n.python}
        BY <1>1, BuildersAssumption DEF SoundLeaf, LocalOK, ToolsOK, PrefixesOK, Builders
    <2> HIDE DEF passed, on
    <2>4. passed \in BOOLEAN
        BY DEF passed
    <2> QED BY <1>1, <2>1, <2>2, <2>3, <2>4, PublishKeepsInv
<1> QED BY <1>4, <1>5, <1>6, <1>7, <1>8, <1>9, <1>10, <1>11

\* OpenUSD: its retention compares the tools, the map and the reports of the map.
LEMMA UsdKeepsInv ==
    ASSUME StageInv, NEW b \in UsdRuns,
           \/ UsdPreflight(b) \/ UsdDependencies(b) \/ UsdSource(b) \/ UsdConfigure(b) \/ UsdBuild(b)
           \/ UsdCheck(b) \/ UsdRetention(b) \/ UsdFinish(b)
    PROVE  StageInv'
<1> USE DEF On
<1> DEFINE n == build[b]
<1>1. b \in Builders /\ b \notin PythonRuns /\ b \notin BoostRuns /\ n \in Local /\ LocalOK(b, n)
    BY BuildersAssumption DEF StageInv, StageType, Local, Pcs, Builders
<1>2. /\ MaxEdits \in Nat /\ tool \in 0 .. MaxEdits /\ intact \in [Builders -> BOOLEAN]
      /\ map \in [python : PythonRuns \cup {"none"}, boost : BoostRuns \cup {"none"}]
    BY BuildersAssumption DEF StageInv, StageType
<1>3. ASSUME n.pc # "done", Fails(b) PROVE StageInv'
    BY <1>1, <1>3, FailKeepsInv
<1>4. CASE UsdPreflight(b)
    <2>1. LocalOK(b, [build[b] EXCEPT !.pc = "dependencies"])
        BY <1>1, <1>4 DEF UsdPreflight, LocalOK, FedBy, ToolsOK, PrefixesOK, Local
    <2> QED BY <1>1, <1>3, <1>4, <2>1, GoKeepsInv DEF UsdPreflight, Pcs
<1>5. CASE UsdDependencies(b)
    <2> DEFINE m == [build[b] EXCEPT !.pc = "source", !.python = map.python, !.boost = map.boost]
    <2>1. ASSUME Dependencies(map), Step(b, m) PROVE StageInv'
        <3>1. map.python \in PythonRuns /\ map.boost \in BoostRuns
            BY <2>1 DEF Dependencies, SoundLeaf, SoundBoost
        <3>2. m \in Local /\ m.pc = "source" /\ m.python = map.python /\ m.boost = map.boost /\ m.tool = n.tool
            BY <1>1, <3>1 DEF Local, Pcs
        <3> HIDE DEF m
        <3>3. LocalOK(b, m)
            BY <1>1, <3>1, <3>2 DEF LocalOK, FedBy, ToolsOK, PrefixesOK
        <3> QED BY <1>1, <1>5, <2>1, <3>2, <3>3, StepKeepsInv DEF UsdDependencies
    <2> QED BY <1>3, <1>5, <2>1 DEF UsdDependencies
<1>6. CASE UsdSource(b)
    <2> DEFINE m == [build[b] EXCEPT !.pc = "configure", !.tool = tool]
    <2>1. ASSUME Step(b, m) PROVE StageInv'
        <3>1. m \in Local /\ m.pc = "configure" /\ m.python = n.python /\ m.boost = n.boost /\ m.tool = tool
            BY <1>1, <1>2 DEF Local, Pcs
        <3> HIDE DEF m
        <3>2. LocalOK(b, m)
            BY <1>1, <1>2, <1>6, <3>1 DEF UsdSource, LocalOK, FedBy, ToolsOK, PrefixesOK
        <3> QED BY <1>1, <1>6, <2>1, <3>1, <3>2, StepKeepsInv DEF UsdSource
    <2> QED BY <1>3, <1>6, <2>1 DEF UsdSource
<1>7. CASE UsdConfigure(b)
    <2>1. LocalOK(b, [build[b] EXCEPT !.pc = "build"])
        BY <1>1, <1>7 DEF UsdConfigure, LocalOK, FedBy, ToolsOK, PrefixesOK, Local
    <2> QED BY <1>1, <1>3, <1>7, <2>1, GoKeepsInv DEF UsdConfigure, Pcs
<1>8. CASE UsdBuild(b)
    <2> DEFINE fed == intact[n.python] /\ intact[n.boost]
               m == [build[b] EXCEPT !.pc = "check", !.used = tool, !.fed = fed]
    <2>1. ASSUME Compile(b, fed) PROVE StageInv'
        <3>1. n.python \in PythonRuns /\ n.boost \in BoostRuns
            BY <1>1, <1>8 DEF UsdBuild, LocalOK, FedBy
        <3>2. fed \in BOOLEAN
            OBVIOUS
        <3> HIDE DEF fed
        <3>3. /\ m \in Local /\ m.pc = "check" /\ m.python = n.python /\ m.boost = n.boost
              /\ m.tool = n.tool /\ m.used = tool
            BY <1>1, <1>2, <3>2 DEF Local, Pcs
        <3>4. m.fed = fed
            BY <1>1 DEF Local
        <3>5. Step(b, m)
            BY <2>1 DEF Compile
        <3> HIDE DEF m
        <3>6. intact[m.python] /\ intact[m.boost] => m.fed
            BY <3>3, <3>4 DEF fed
        <3>7. LocalOK(b, m)
            BY <1>1, <1>2, <3>1, <3>3, <3>6 DEF LocalOK, FedBy, ToolsOK, PrefixesOK
        <3> QED BY <1>1, <1>8, <3>3, <3>5, <3>7, StepKeepsInv DEF UsdBuild
    <2> QED BY <1>3, <1>8, <2>1 DEF UsdBuild
<1>9. CASE UsdCheck(b)
    <2>1. LocalOK(b, [build[b] EXCEPT !.pc = "retention"])
        BY <1>1, <1>9 DEF UsdCheck, LocalOK, FedBy, ToolsOK, PrefixesOK, Local
    <2> QED BY <1>1, <1>3, <1>9, <2>1, GoKeepsInv DEF UsdCheck, Pcs
<1>10. CASE UsdRetention(b)
    <2>1. ASSUME n.tool = tool, map = [python |-> n.python, boost |-> n.boost], Dependencies(map)
          PROVE  LocalOK(b, [build[b] EXCEPT !.pc = "pass"])
        <3> DEFINE m == [build[b] EXCEPT !.pc = "pass"]
        <3>1. /\ m.pc = "pass" /\ m.python = n.python /\ m.boost = n.boost /\ m.tool = n.tool
              /\ m.used = n.used /\ m.fed = n.fed
            BY <1>1 DEF Local
        <3>2. map.python = n.python /\ map.boost = n.boost
            BY <2>1
        <3>3. /\ n.python \in PythonRuns /\ n.boost \in BoostRuns /\ intact[n.python] /\ intact[n.boost]
              /\ report[n.boost].status = "PASS" /\ n.python \in report[n.boost].on
            BY <2>1, <3>2 DEF Dependencies, SoundLeaf, SoundBoost
        <3>4. n.fed /\ n.used = n.tool
            BY <1>1, <1>2, <1>10, <2>1, <3>3 DEF UsdRetention, LocalOK, ToolsOK, PrefixesOK, Local
        <3> HIDE DEF m
        <3>5. LocalOK(b, m)
            BY <1>1, <1>2, <3>1, <3>3, <3>4 DEF LocalOK, FedBy, ToolsOK, PrefixesOK, OnTop, Local
        <3> QED BY <3>5 DEF m
    <2> QED BY <1>1, <1>3, <1>10, <2>1, GoKeepsInv DEF UsdRetention, Pcs
<1>11. CASE UsdFinish(b)
    <2> DEFINE on == {n.python, n.boost} \ {"none"}
               passed == On(b, "pass") /\ \A d \in on : SoundLeaf(d) \/ SoundBoost(d)
    <2>1. Publish(b, passed, on) /\ n.pc # "done"
        BY <1>11 DEF UsdFinish
    <2>2. on \in SUBSET Builders
        BY <1>1 DEF Local, Builders
    <2>3. passed => /\ n.used = n.tool /\ n.fed /\ n.python \in PythonRuns /\ n.boost \in BoostRuns
                    /\ on = {n.python, n.boost} /\ OnTop(n)
        BY <1>1, BuildersAssumption DEF LocalOK, FedBy, ToolsOK, PrefixesOK, Builders
    <2>4. passed \in BOOLEAN
        OBVIOUS
    <2> HIDE DEF passed, on
    <2> QED BY <1>1, <2>1, <2>2, <2>3, <2>4, PublishKeepsInv
<1> QED BY <1>4, <1>5, <1>6, <1>7, <1>8, <1>9, <1>10, <1>11

--------------------------------------------------------------------------------
(* The rest of the world, and the theorems about the stages.               *)

\* What is replaced raises `tool` or lowers `intact`.
LEMMA ReplaceKeepsInv == ASSUME StageInv, Replace PROVE StageInv'
<1>1. /\ MaxEdits \in Nat /\ build \in [Builders -> Local] /\ intact \in [Builders -> BOOLEAN]
      /\ tool \in Nat /\ edits \in Nat
    BY BuildersAssumption DEF StageInv, StageType, Local, Pcs
<1>2. build' = build /\ report' = report /\ map' = map /\ edits' = edits + 1
    BY DEF Replace
<1>3. tool' \in {tool, tool + 1}
    BY DEF Replace
<1>4. intact' \in [Builders -> BOOLEAN] /\ \A d \in Builders : intact'[d] => intact[d]
    BY <1>1 DEF Replace
<1>5. StageType' /\ (tool <= edits)'
    BY <1>1, <1>2, <1>3, <1>4 DEF Replace, StageInv, StageType
<1>6. ASSUME NEW c \in Builders PROVE LocalOK(c, build[c])' /\ ReportOK(c)'
    <2>1. LocalOK(c, build[c]) /\ ReportOK(c) /\ build[c] \in Local
        BY <1>1 DEF StageInv
    <2>2. FedBy(c, build[c])' /\ (c \in UsdRuns /\ build[c].pc = "pass" => OnTop(build[c]))'
        BY <2>1, <1>2 DEF LocalOK, FedBy, OnTop
    <2>3. ToolsOK(c, build[c])'
        BY <2>1, <1>1, <1>2, <1>3 DEF LocalOK, ToolsOK, Local
    <2>4. PrefixesOK(c, build[c])'
        BY <2>1, <1>2, <1>4 DEF LocalOK, FedBy, PrefixesOK, Builders
    <2> QED BY <2>1, <2>2, <2>3, <2>4, <1>2 DEF LocalOK, ReportOK, OnTop
<1> QED BY <1>5, <1>6 DEF StageInv

\* No stage relies on the map once it has read it.
LEMMA EditMapKeepsInv == ASSUME StageInv, EditMap PROVE StageInv'
<1>1. build' = build /\ report' = report /\ intact' = intact /\ tool' = tool /\ edits' = edits
    BY DEF EditMap
<1>2. map' \in [python : PythonRuns \cup {"none"}, boost : BoostRuns \cup {"none"}]
    BY DEF EditMap
<1> QED BY <1>1, <1>2 DEF StageInv, StageType, LocalOK, FedBy, ToolsOK, PrefixesOK, OnTop, ReportOK

\* The stages keep the invariant, whatever the SDKs do.
LEMMA StageInvIsInvariant == Spec => []StageInv
<1>1. Init => StageInv
    <2> SUFFICES ASSUME Init PROVE StageInv
        OBVIOUS
    <2>1. StageType /\ tool <= edits
        BY BuildersAssumption DEF Init, StageInit, StartedBuild, NoReport, StageType
    <2>2. ASSUME NEW b \in Builders PROVE LocalOK(b, build[b]) /\ ReportOK(b)
        BY DEF Init, StageInit, StartedBuild, NoReport, LocalOK, FedBy, ToolsOK, PrefixesOK, ReportOK
    <2> QED BY <2>1, <2>2 DEF StageInv
<1>2. StageInv /\ [Next]_vars => StageInv'
    <2> SUFFICES ASSUME StageInv, [Next]_vars PROVE StageInv'
        OBVIOUS
    <2>1. ASSUME NEW b \in Builders, BuilderStep(b) PROVE StageInv'
        <3>1. CASE b \in PythonRuns
            BY <3>1, <2>1, BuildersAssumption, PythonKeepsInv DEF BuilderStep,
               BoostPythonBefore, BoostToolchain, BoostPrepare, BoostBuild, BoostCheck, BoostPythonAfter,
               BoostRetention, BoostFinalize, UsdPreflight, UsdDependencies, UsdSource, UsdConfigure,
               UsdBuild, UsdCheck, UsdRetention, UsdFinish
        <3>2. CASE b \in BoostRuns
            BY <3>2, <2>1, BuildersAssumption, BoostKeepsInv DEF BuilderStep,
               PythonPrepare, PythonBuild, PythonCheck, PythonRetention, PythonFinalize,
               UsdPreflight, UsdDependencies, UsdSource, UsdConfigure, UsdBuild, UsdCheck, UsdRetention, UsdFinish
        <3>3. CASE b \in UsdRuns
            BY <3>3, <2>1, BuildersAssumption, UsdKeepsInv DEF BuilderStep,
               PythonPrepare, PythonBuild, PythonCheck, PythonRetention, PythonFinalize,
               BoostPythonBefore, BoostToolchain, BoostPrepare, BoostBuild, BoostCheck, BoostPythonAfter,
               BoostRetention, BoostFinalize
        <3> QED BY <3>1, <3>2, <3>3 DEF Builders
    <2>2. CASE StageNext
        BY <2>1, <2>2, ReplaceKeepsInv, EditMapKeepsInv DEF StageNext
    <2>3. ASSUME UNCHANGED <<build, report, intact, map, tool>>, edits' \in edits .. MaxEdits PROVE StageInv'
        <3>1. StageType' /\ (tool <= edits)'
            BY <2>3, BuildersAssumption DEF StageInv, StageType
        <3> QED BY <2>3, <3>1 DEF StageInv, LocalOK, FedBy, ToolsOK, PrefixesOK, OnTop, ReportOK
    <2>4. edits \in Nat /\ MaxEdits \in Nat /\ edits \in edits .. MaxEdits
        BY BuildersAssumption DEF StageInv, StageType
    <2>5. CASE SdkNext
        <3>1. CASE EditEngine \/ EditSdk
            BY <3>1, <2>3, <2>4 DEF EditEngine, EditSdk
        <3>2. ASSUME NEW s \in Sdks, Prepare(s) PROVE UNCHANGED stageVars
            BY <3>2 DEF Prepare, PrepareReads, PrepareChecks, PrepareOpens, PrepareWrites, PrepareReceipt, SdkFails
        <3> QED BY <2>5, <3>1, <3>2, <2>3, <2>4 DEF SdkNext, stageVars
    <2>6. CASE UNCHANGED vars
        BY <2>6, <2>3, <2>4 DEF vars, stageVars
    <2> QED BY <2>2, <2>5, <2>6 DEF Next
<1> QED BY <1>1, <1>2, PTL DEF Spec

\* A Boost or an OpenUSD that passes was compiled with the tools and the untouched prefixes
\* that its report binds, for any number of stages and edits (python_after and retention
\* of boost_stage.py, the retention step of openusd_stage.py).
THEOREM UsedIsBound == Spec => []PassUsedWhatItBinds
<1>1. StageInv => PassUsedWhatItBinds
    BY DEF StageInv, ReportOK, PassUsedWhatItBinds, Builders
<1> QED BY <1>1, StageInvIsInvariant, PTL

\* No OpenUSD passes over two CPythons (read_dependencies and the retention step of
\* openusd_stage.py).
THEOREM OnePython == Spec => []OnePythonBelow
<1>1. ASSUME StageInv, NEW u \in UsdRuns, report[u].status = "PASS", NEW b \in report[u].on \cap BoostRuns
      PROVE  report[b].on = report[u].on \cap PythonRuns
    <2>1. /\ build[u].python \in PythonRuns /\ build[u].boost \in BoostRuns
          /\ report[u].on = {build[u].python, build[u].boost} /\ OnTop(build[u])
        BY <1>1 DEF StageInv, ReportOK, Builders
    <2>2. b = build[u].boost /\ report[u].on \cap PythonRuns = {build[u].python}
        BY <2>1, BuildersAssumption
    <2>3. report[b].on = {build[b].python} /\ build[u].python \in report[b].on
        BY <1>1, <2>1, <2>2 DEF StageInv, ReportOK, OnTop, Builders
    <2> QED BY <2>2, <2>3
<1>2. StageInv => OnePythonBelow
    BY <1>1 DEF OnePythonBelow
<1> QED BY <1>2, StageInvIsInvariant, PTL

--------------------------------------------------------------------------------
(* The SDK.                                                                *)

SdkShape == [pc : {"start", "check", "write", "writing", "done", "failed"}, usd : UsdRuns \cup {NoUsd},
             deps : [python : PythonRuns \cup {"none"}, boost : BoostRuns \cup {"none"}],
             before : [Engine -> Source] \cup {<< >>}, k : Nat,
             receipt : [Engine -> Source] \cup {NoReceipt}, linked : BOOLEAN]

\* What a prepare that has read its inputs goes on.
BoundOK(n) ==
    /\ n.receipt # NoReceipt => n.pc = "done"
    /\ n.pc \in {"write", "writing"} => n.k \in Engine
    /\ n.pc \in {"check", "write", "writing", "done"} =>
          /\ n.before \in [Engine -> Source]
          /\ n.usd \in UsdRuns /\ n.deps.python \in PythonRuns /\ n.deps.boost \in BoostRuns
          /\ report[n.usd].status = "PASS" /\ report[n.usd].on = {n.deps.python, n.deps.boost}

SdkInv ==
    /\ engine \in [Engine -> Source]
    /\ sdk \in [Sdks -> SdkShape]
    /\ \A s \in Sdks : BoundOK(sdk[s])

\* Reports of run directories are never written again.
LEMMA PassStays ==
    ASSUME StageInv, [Next]_vars, NEW u \in Builders, report[u].status = "PASS"
    PROVE  report'[u] = report[u]
<1>1. ASSUME NEW b \in Builders, NEW passed, NEW on, Publish(b, passed, on), build[b].pc # "done"
      PROVE  report'[u] = report[u]
    <2>1. report[b] = NoReport
        BY <1>1 DEF StageInv, ReportOK
    <2> QED BY <2>1, <1>1 DEF Publish, NoReport, StageInv, StageType
<1>2. ASSUME NEW b \in Builders, BuilderStep(b) PROVE report'[u] = report[u]
    <2>1. CASE PythonFinalize(b) \/ BoostFinalize(b) \/ UsdFinish(b)
        BY <2>1, <1>1 DEF PythonFinalize, BoostFinalize, UsdFinish
    <2>2. CASE ~(PythonFinalize(b) \/ BoostFinalize(b) \/ UsdFinish(b))
        <3>1. report' = report
            BY <2>2, <1>2 DEF BuilderStep, Go, Step, Fails, Compile,
               PythonPrepare, PythonBuild, PythonCheck, PythonRetention,
               BoostPythonBefore, BoostToolchain, BoostPrepare, BoostBuild, BoostCheck, BoostPythonAfter,
               BoostRetention, UsdPreflight, UsdDependencies, UsdSource, UsdConfigure, UsdBuild, UsdCheck,
               UsdRetention
        <3> QED BY <3>1
    <2> QED BY <2>1, <2>2
<1>3. CASE UNCHANGED report
    BY <1>3
<1>4. ASSUME NEW s \in Sdks, Prepare(s) PROVE UNCHANGED report
    BY <1>4 DEF Prepare, PrepareReads, PrepareChecks, PrepareOpens, PrepareWrites, PrepareReceipt, SdkFails, stageVars
<1>5. EditMap \/ Replace \/ EditEngine \/ EditSdk \/ UNCHANGED vars => UNCHANGED report
    BY DEF EditMap, Replace, EditEngine, EditSdk, vars, stageVars
<1> QED BY <1>2, <1>3, <1>4, <1>5 DEF Next, StageNext, SdkNext

\* One prepare that changes its own record only.
LEMMA SdkStepKeepsInv ==
    ASSUME SdkInv, NEW s \in Sdks, NEW n \in SdkShape, SdkStep(s, n), BoundOK(n),
           report' = report, engine' \in [Engine -> Source]
    PROVE  SdkInv'
<1>1. sdk' \in [Sdks -> SdkShape] /\ sdk'[s] = n /\ \A t \in Sdks \ {s} : sdk'[t] = sdk[t]
    BY DEF SdkStep, SdkInv
<1>2. ASSUME NEW t \in Sdks PROVE BoundOK(sdk[t])'
    <2>1. BoundOK(sdk'[t])
        BY <1>1 DEF SdkInv
    <2>2. BoundOK(sdk'[t]) => BoundOK(sdk[t])'
        BY DEF BoundOK
    <2> QED BY <2>1, <2>2
<1>3. (engine \in [Engine -> Source])' /\ (sdk \in [Sdks -> SdkShape])'
    BY <1>1 DEF SdkShape
<1> QED BY <1>2, <1>3 DEF SdkInv

\* The steps of a prepare: what it binds is read once, and the receipt comes last.
LEMMA PrepareKeepsInv ==
    ASSUME StageInv, SdkInv, NEW s \in Sdks, Prepare(s) PROVE SdkInv'
<1> DEFINE n == sdk[s]
<1> USE DEF At
<1>1. n \in SdkShape /\ BoundOK(n) /\ engine \in [Engine -> Source] /\ StageType
    BY DEF SdkInv, StageInv
<1>2. ASSUME SdkFails(s) PROVE SdkInv'
    <2> DEFINE m == [FreshSdk EXCEPT !.pc = "failed", !.before = n.before]
    <2>1. m \in SdkShape /\ m.pc = "failed" /\ m.receipt = NoReceipt
        BY <1>1 DEF SdkShape, FreshSdk
    <2>2. SdkStep(s, m) /\ report' = report /\ engine' = engine
        BY <1>2 DEF SdkFails, stageVars
    <2> HIDE DEF m
    <2>3. BoundOK(m)
        BY <2>1 DEF BoundOK
    <2> QED BY <1>1, <2>1, <2>2, <2>3, SdkStepKeepsInv
<1>3. CASE PrepareReads(s)
    <2>1. ASSUME NEW u \in UsdRuns, SoundUsd(u), Dependencies(map), {map.python, map.boost} \subseteq report[u].on,
                 SdkStep(s, [sdk[s] EXCEPT !.pc = "check", !.usd = u, !.deps = map, !.before = engine]),
                 UNCHANGED <<engine, stageVars>>
          PROVE  SdkInv'
        <3> DEFINE m == [sdk[s] EXCEPT !.pc = "check", !.usd = u, !.deps = map, !.before = engine]
        <3>1. map.python \in PythonRuns /\ map.boost \in BoostRuns
            BY <2>1 DEF Dependencies, SoundLeaf, SoundBoost
        <3>2. report[u].status = "PASS" /\ report[u].on = {map.python, map.boost}
            <4>1. /\ report[u].status = "PASS" /\ report[u].on = {build[u].python, build[u].boost}
                  /\ build[u].python \in PythonRuns /\ build[u].boost \in BoostRuns
                BY <2>1 DEF SoundUsd, StageInv, ReportOK, Builders
            <4>2. map.python = build[u].python /\ map.boost = build[u].boost
                BY <4>1, <3>1, <2>1, BuildersAssumption
            <4> QED BY <4>1, <4>2
        <3>3. /\ m \in SdkShape /\ m.pc = "check" /\ m.usd = u /\ m.deps = map /\ m.before = engine
              /\ m.receipt = n.receipt
            BY <1>1, <2>1 DEF SdkShape, StageType
        <3>4. n.receipt = NoReceipt
            BY <1>1, <1>3 DEF PrepareReads, BoundOK
        <3>5. SdkStep(s, m) /\ report' = report /\ engine' = engine
            BY <2>1 DEF stageVars
        <3> HIDE DEF m
        <3>6. BoundOK(m)
            BY <1>1, <2>1, <3>1, <3>2, <3>3, <3>4 DEF BoundOK
        <3> QED BY <1>1, <3>3, <3>5, <3>6, SdkStepKeepsInv
    <2> QED BY <1>2, <1>3, <2>1 DEF PrepareReads
<1>4. ASSUME NEW m \in SdkShape, SdkStep(s, m), UNCHANGED stageVars, engine' \in [Engine -> Source],
             n.pc \in {"check", "write", "writing"}, m.pc \in {"check", "write", "writing", "done"},
             m.usd = n.usd, m.deps = n.deps, m.before = n.before,
             m.receipt # NoReceipt => m.pc = "done", m.pc \in {"write", "writing"} => m.k \in Engine
      PROVE  SdkInv'
    <2>1. BoundOK(m)
        BY <1>1, <1>4 DEF BoundOK
    <2> QED BY <1>4, <2>1, SdkStepKeepsInv DEF stageVars
<1>5. CASE PrepareChecks(s)
    <2>1. ASSUME SdkStep(s, [sdk[s] EXCEPT !.pc = "write"]), UNCHANGED <<engine, stageVars>> PROVE SdkInv'
        <3> DEFINE m == [sdk[s] EXCEPT !.pc = "write"]
        <3>1. /\ m \in SdkShape /\ m.pc = "write" /\ m.k = n.k /\ m.usd = n.usd /\ m.deps = n.deps
              /\ m.before = n.before /\ m.receipt = n.receipt
            BY <1>1 DEF SdkShape
        <3>2. n.pc = "check" /\ n.k \in Engine /\ n.receipt = NoReceipt
            BY <1>1, <1>5 DEF PrepareChecks, BoundOK
        <3>3. SdkStep(s, m)
            BY <2>1
        <3> HIDE DEF m
        <3> QED BY <1>1, <2>1, <3>1, <3>2, <3>3, <1>4
    <2> QED BY <1>2, <1>5, <2>1 DEF PrepareChecks
<1>6. ASSUME SdkStep(s, [n EXCEPT !.pc = "check", !.k = n.k + 1]), UNCHANGED stageVars,
             n.pc \in {"write", "writing"}, engine' \in [Engine -> Source]
      PROVE  SdkInv'
    <2> DEFINE m == [n EXCEPT !.pc = "check", !.k = n.k + 1]
    <2>1. /\ m \in SdkShape /\ m.pc = "check" /\ m.usd = n.usd /\ m.deps = n.deps
          /\ m.before = n.before /\ m.receipt = n.receipt
        <3>1. PICK i \in Nat : i = n.k + 1
            BY <1>1 DEF SdkShape
        <3> QED BY <3>1, <1>1 DEF SdkShape
    <2>2. n.receipt = NoReceipt
        BY <1>1, <1>6 DEF BoundOK
    <2>3. SdkStep(s, m)
        BY <1>6
    <2> HIDE DEF m
    <2> QED BY <1>6, <2>1, <2>2, <2>3, <1>4
<1>7. CASE PrepareOpens(s)
    <2>1. n.pc = "write" /\ n.k \in Engine /\ n.before \in [Engine -> Source] /\ n.receipt = NoReceipt
        BY <1>1, <1>7 DEF PrepareOpens, BoundOK
    <2>2. ASSUME NEW torn \in Torn(n.before[n.k]), engine' = [engine EXCEPT ![n.k] = torn],
                 SdkStep(s, [n EXCEPT !.pc = "writing"])
          PROVE  SdkInv'
        <3> DEFINE m == [n EXCEPT !.pc = "writing"]
        <3>1. /\ m \in SdkShape /\ m.pc = "writing" /\ m.k = n.k /\ m.usd = n.usd /\ m.deps = n.deps
              /\ m.before = n.before /\ m.receipt = n.receipt
            BY <1>1 DEF SdkShape
        <3>2. SdkStep(s, m)
            BY <2>2
        <3>3. torn \in Source
            BY <2>2 DEF Torn
        <3> HIDE DEF m
        <3>4. engine' \in [Engine -> Source]
            BY <3>3, <2>2, <1>1
        <3> QED BY <1>4, <1>7, <2>1, <3>1, <3>2, <3>4 DEF PrepareOpens
    <2> QED BY <1>1, <1>6, <1>7, <2>1, <2>2 DEF PrepareOpens
<1>8. CASE PrepareWrites(s)
    <2>1. n.pc = "writing" /\ n.k \in Engine /\ n.before \in [Engine -> Source]
        BY <1>1, <1>8 DEF PrepareWrites, BoundOK
    <2>2. PICK after \in Source : engine' = [engine EXCEPT ![n.k] = after]
        <3>1. /\ Patched(n.before[n.k]) \in Source
              /\ [Patched(n.before[n.k]) EXCEPT !.torn = TRUE] \in Source
            BY <2>1 DEF Patched, Source
        <3> QED BY <3>1, <1>8 DEF PrepareWrites
    <2>3. engine' \in [Engine -> Source]
        BY <2>2, <1>1
    <2> QED BY <1>6, <1>8, <2>1, <2>3 DEF PrepareWrites
<1>9. CASE PrepareReceipt(s)
    <2> DEFINE m == [n EXCEPT !.pc = "done", !.receipt = engine, !.linked = TRUE]
    <2>1. /\ m \in SdkShape /\ m.pc = "done" /\ m.before = n.before /\ m.usd = n.usd /\ m.deps = n.deps
        BY <1>1 DEF SdkShape
    <2>2. SdkStep(s, m) /\ UNCHANGED stageVars /\ engine' = engine /\ n.pc = "check"
        BY <1>9 DEF PrepareReceipt
    <2> HIDE DEF m
    <2> QED BY <1>1, <1>4, <2>1, <2>2
<1> QED BY <1>3, <1>5, <1>7, <1>8, <1>9 DEF Prepare

\* Both invariants together, of every behaviour.
LEMMA SdkInvIsInvariant == Spec => [](StageInv /\ SdkInv)
<1>1. Init => SdkInv
    <2> SUFFICES ASSUME Init PROVE SdkInv
        OBVIOUS
    <2>1. Original \in Source
        BY BuildersAssumption DEF Original, Source
    <2>2. engine \in [Engine -> Source] /\ FreshSdk \in SdkShape
        BY <2>1 DEF Init, SdkInit, FreshSdk, SdkShape
    <2>3. sdk = [s \in Sdks |-> FreshSdk] /\ BoundOK(FreshSdk)
        BY DEF Init, SdkInit, FreshSdk, BoundOK
    <2> QED BY <2>2, <2>3 DEF SdkInv
<1>2. StageInv /\ SdkInv /\ [Next]_vars => SdkInv'
    <2> SUFFICES ASSUME StageInv, SdkInv, [Next]_vars PROVE SdkInv'
        OBVIOUS
    <2>1. ASSUME NEW s \in Sdks, UNCHANGED sdk PROVE BoundOK(sdk[s])'
        <3>1. BoundOK(sdk[s])
            BY DEF SdkInv
        <3> QED BY <3>1, <2>1, PassStays DEF BoundOK, Builders
    <2>2. ASSUME UNCHANGED sdk, engine' \in [Engine -> Source] PROVE SdkInv'
        <3>1. (engine \in [Engine -> Source])' /\ (sdk \in [Sdks -> SdkShape])'
            BY <2>2 DEF SdkInv, SdkShape
        <3> QED BY <2>1, <2>2, <3>1 DEF SdkInv
    <2>3. CASE EditEngine
        <3>1. edits' \in 0 .. MaxEdits /\ Original \in Source
            BY <2>3, BuildersAssumption DEF EditEngine, StageInv, StageType, Original, Source
        <3>2. ASSUME NEW f \in Engine, NEW whole \in BOOLEAN
              PROVE  [engine[f] EXCEPT !.edit = edits', !.whole = whole] \in Source
            BY <3>1 DEF SdkInv, Source
        <3>3. ASSUME NEW f \in Engine, NEW whole \in BOOLEAN
              PROVE  [engine EXCEPT ![f].edit = edits', ![f].whole = whole] \in [Engine -> Source]
            BY <3>2 DEF SdkInv
        <3>4. engine' \in [Engine -> Source]
            <4>1. PICK f \in Engine :
                     \/ engine' = [engine EXCEPT ![f] = Original]
                     \/ \E whole \in BOOLEAN : engine' = [engine EXCEPT ![f].edit = edits', ![f].whole = whole]
                BY <2>3 DEF EditEngine
            <4>2. [engine EXCEPT ![f] = Original] \in [Engine -> Source]
                BY <3>1 DEF SdkInv
            <4>3. CASE engine' = [engine EXCEPT ![f] = Original]
                BY <4>2, <4>3
            <4>4. ASSUME NEW whole \in BOOLEAN, engine' = [engine EXCEPT ![f].edit = edits', ![f].whole = whole]
                  PROVE  engine' \in [Engine -> Source]
                BY <3>3, <4>4, Zenon
            <4> QED BY <4>1, <4>3, <4>4
        <3> QED BY <2>2, <2>3, <3>4 DEF EditEngine
    <2>4. CASE UNCHANGED <<engine, sdk>>
        BY <2>2, <2>4 DEF SdkInv
    <2>6. CASE EditSdk
        <3>1. PICK s \in Sdks : SdkStep(s, [sdk[s] EXCEPT !.linked = FALSE])
            BY <2>6 DEF EditSdk
        <3> DEFINE m == [sdk[s] EXCEPT !.linked = FALSE]
        <3>2. sdk[s] \in SdkShape /\ BoundOK(sdk[s]) /\ report' = report /\ engine' \in [Engine -> Source]
            BY <2>6 DEF EditSdk, SdkInv
        <3>3. /\ m \in SdkShape /\ m.pc = sdk[s].pc /\ m.k = sdk[s].k /\ m.usd = sdk[s].usd /\ m.deps = sdk[s].deps
              /\ m.before = sdk[s].before /\ m.receipt = sdk[s].receipt
            BY <3>2 DEF SdkShape
        <3>4. SdkStep(s, m)
            BY <3>1
        <3> HIDE DEF m
        <3>5. BoundOK(m)
            BY <3>2, <3>3 DEF BoundOK
        <3> QED BY <3>2, <3>3, <3>4, <3>5, SdkStepKeepsInv
    <2>5. CASE \E s \in Sdks : Prepare(s)
        BY <2>5, PrepareKeepsInv
    <2> QED BY <2>3, <2>4, <2>5, <2>6 DEF Next, SdkNext, sdkVars, vars
<1> QED BY <1>1, <1>2, StageInvIsInvariant, PTL DEF Spec

\* An SDK that verifies is one piece, whatever was edited or prepared meanwhile: the engine's
\* files are patched and OpenUSD stands on the linked Boost and one CPython (prepare and
\* verify of prepare_native_usd_sdk.py).
THEOREM VerifiedSdk == Spec => []VerifiedSdkIsWhole
<1>1. ASSUME StageInv, SdkInv, NEW s \in Sdks, Verifies(s)
      PROVE  /\ \A f \in Engine : engine[f].patched
             /\ sdk[s].linked
             /\ report[sdk[s].usd].on = {sdk[s].deps.python, sdk[s].deps.boost}
             /\ report[sdk[s].deps.boost].on = {sdk[s].deps.python}
    <2> DEFINE n == sdk[s]
    <2>1. n.pc = "done" /\ BoundOK(n)
        BY <1>1 DEF SdkInv, Verifies, BoundOK
    <2>2. ASSUME NEW f \in Engine PROVE engine[f].patched
        <3>1. n.before[f] \in Source
            BY <2>1 DEF BoundOK
        <3>2. engine[f] = Patched(n.before[f])
            BY <1>1 DEF Verifies, SourcesVerified
        <3> QED BY <3>1, <3>2 DEF Patched, Source
    <2>3. report[n.deps.boost].on = {n.deps.python}
        <3>1. n.deps.boost \in BoostRuns /\ report[n.deps.boost].status = "PASS"
              /\ n.deps.python \in report[n.deps.boost].on
            BY <1>1 DEF Verifies, Dependencies, SoundBoost
        <3> QED BY <3>1, <1>1 DEF StageInv, ReportOK, Builders
    <2> QED BY <1>1, <2>1, <2>2, <2>3 DEF BoundOK, Verifies
<1>2. StageInv /\ SdkInv => VerifiedSdkIsWhole
    BY <1>1 DEF VerifiedSdkIsWhole
<1> QED BY <1>2, SdkInvIsInvariant, PTL

--------------------------------------------------------------------------------
(* The SDK while nothing is edited.                                        *)

AsPatched == Patched(Original)

\* A prepare finds a file as it was checked out, as a prepare has left it, or torn.
QuietText == {Original, AsPatched} \cup {x \in Source : x.torn}

\* What a prepare has been through, or has found patched, is patched or torn.
QuietOK(n, files) ==
    /\ n.pc = "start" => n.k = 1
    /\ n.pc \in {"check", "write", "writing", "done"} =>
          /\ SoundUsd(n.usd) /\ Dependencies(n.deps)
          /\ \A f \in Engine : n.before[f] \in QuietText
          /\ n.k \in 1 .. Len(Files) + 1
          /\ \A f \in Engine : f < n.k \/ n.before[f].patched => files[f] # Original
    /\ n.pc = "done" =>
          /\ n.linked /\ n.receipt # NoReceipt
          /\ \A f \in Engine : n.receipt[f] \in QuietText \ {Original} /\ f < n.k

QuietInv == edits = 0 =>
    /\ \A b \in Builders : intact[b]
    /\ \A f \in Engine : engine[f] \in QuietText
    /\ \A s \in Sdks : QuietOK(sdk[s], engine)

\* While nothing is edited, what is sound remains so: reports that pass are not written again.
LEMMA SoundStays ==
    ASSUME StageInv, [Next]_vars, intact' = intact
    PROVE  /\ \A u : SoundUsd(u) => SoundUsd(u)'
           /\ \A m : Dependencies(m) => Dependencies(m)'
<1>1. ASSUME NEW b, SoundLeaf(b) PROVE SoundLeaf(b)'
    BY <1>1, PassStays DEF SoundLeaf, Builders
<1>2. ASSUME NEW b, SoundBoost(b) PROVE SoundBoost(b)' /\ report'[b] = report[b]
    <2>1. report'[b] = report[b] /\ b \in Builders
        BY <1>2, PassStays DEF SoundBoost, Builders
    <2> QED BY <2>1, <1>1, <1>2 DEF SoundBoost
<1>3. ASSUME NEW u, SoundUsd(u) PROVE SoundUsd(u)'
    <2>1. report'[u] = report[u] /\ u \in Builders
        BY <1>3, PassStays DEF SoundUsd, Builders
    <2> QED BY <2>1, <1>1, <1>2, <1>3 DEF SoundUsd
<1>4. ASSUME NEW m, Dependencies(m) PROVE Dependencies(m)'
    BY <1>4, <1>1, <1>2 DEF Dependencies
<1> QED BY <1>3, <1>4

\* A prepare keeps its own promises and, since it never writes the original text, those of
\* the others.
LEMMA QuietStep ==
    ASSUME SdkInv, QuietInv, edits = 0, NEW s \in Sdks, NEW n,
           SdkStep(s, n), UNCHANGED stageVars, QuietOK(n, engine'),
           \A f \in Engine : engine'[f] \in {engine[f]} \cup (QuietText \ {Original})
    PROVE  QuietInv'
<1>1. /\ intact' = intact /\ edits' = edits /\ report' = report
      /\ \A f \in Engine : engine'[f] \in QuietText
      /\ \A f \in Engine : engine[f] # Original => engine'[f] # Original
    BY DEF stageVars, QuietInv
<1>2. sdk'[s] = n /\ \A t \in Sdks \ {s} : sdk'[t] = sdk[t]
    BY DEF SdkStep, SdkInv
<1>3. ASSUME NEW t \in Sdks PROVE QuietOK(sdk'[t], engine')
    <2>1. QuietOK(sdk[t], engine)
        BY DEF QuietInv
    <2>2. CASE t = s
        BY <2>2, <1>2
    <2>3. CASE t # s
        BY <2>1, <2>3, <1>1, <1>2 DEF QuietOK
    <2> QED BY <2>2, <2>3
<1>4. QuietText' = QuietText /\ Original' = Original
    BY DEF QuietText, AsPatched, Patched, Original, Source
<1>5. ASSUME NEW t \in Sdks PROVE QuietOK(sdk[t], engine)'
    BY <1>3, <1>1, <1>4 DEF QuietOK, SoundUsd, SoundLeaf, SoundBoost, Dependencies
<1> QED BY <1>1, <1>4, <1>5 DEF QuietInv

\* The text that a prepare writes over another is never the original one.
LEMMA QuietWrites ==
    ASSUME NEW x \in Source, x \in QuietText
    PROVE  /\ Patched(x) \in QuietText \ {Original}
           /\ [Patched(x) EXCEPT !.torn = TRUE] \in QuietText \ {Original}
           /\ Torn(x) \subseteq QuietText \ {Original}
           /\ x.patched => x # Original
<1>1. Original.patched = FALSE /\ Original.torn = FALSE
    BY DEF Original
<1>2. /\ Patched(x) \in Source /\ Patched(x).patched = TRUE
      /\ Patched(x).torn = x.torn
    BY DEF Patched, Source
<1>3. [Patched(x) EXCEPT !.torn = TRUE] \in Source /\ [Patched(x) EXCEPT !.torn = TRUE].torn = TRUE
    BY <1>2 DEF Source
<1>4. ASSUME NEW y \in Torn(x) PROVE y \in Source /\ y.torn = TRUE
    BY <1>4 DEF Torn, Source
<1>5. x = Original => Patched(x) = AsPatched
    BY DEF AsPatched
<1>6. x = AsPatched => Patched(x) = AsPatched
    BY DEF AsPatched, Patched, Original
<1>7. Patched(x) \in QuietText
    BY <1>2, <1>5, <1>6 DEF QuietText
<1> QED BY <1>1, <1>2, <1>3, <1>4, <1>7 DEF QuietText

\* The steps of a prepare.
LEMMA PrepareStaysQuiet ==
    ASSUME StageInv, SdkInv, QuietInv, edits = 0, NEW s \in Sdks, Prepare(s) PROVE QuietInv'
<1> DEFINE n == sdk[s]
<1> USE DEF At
<1>1. n \in SdkShape /\ BoundOK(n) /\ QuietOK(n, engine) /\ engine \in [Engine -> Source]
      /\ \A f \in Engine : engine[f] \in QuietText
    BY DEF SdkInv, QuietInv
<1>2. Len(Files) \in Nat \ {0} /\ Engine = 1 .. Len(Files)
    BY FilesAssumption DEF Engine
<1>3. ASSUME SdkFails(s) PROVE QuietInv'
    <2> DEFINE m == [FreshSdk EXCEPT !.pc = "failed", !.before = n.before]
    <2>1. m.pc = "failed"
        BY DEF FreshSdk
    <2>2. SdkStep(s, m) /\ UNCHANGED stageVars /\ engine' = engine
        BY <1>3 DEF SdkFails
    <2> HIDE DEF m
    <2>3. QuietOK(m, engine')
        BY <2>1 DEF QuietOK
    <2> QED BY <2>2, <2>3, QuietStep
<1>4. CASE PrepareReads(s)
    <2>1. PICK u \in UsdRuns :
             /\ SoundUsd(u) /\ Dependencies(map)
             /\ SdkStep(s, [sdk[s] EXCEPT !.pc = "check", !.usd = u, !.deps = map, !.before = engine])
        BY <1>4 DEF PrepareReads
    <2> DEFINE m == [sdk[s] EXCEPT !.pc = "check", !.usd = u, !.deps = map, !.before = engine]
    <2>2. m.pc = "check" /\ m.usd = u /\ m.deps = map /\ m.before = engine /\ m.k = n.k
        BY <1>1 DEF SdkShape
    <2>3. n.k = 1 /\ UNCHANGED <<engine, stageVars>>
        BY <1>1, <1>4 DEF QuietOK, PrepareReads
    <2>4. SdkStep(s, m)
        BY <2>1
    <2> HIDE DEF m
    <2>5. \A f \in Engine : ~(f < 1) /\ (engine[f].patched => engine[f] # Original)
        BY <1>2 DEF Original
    <2>6. QuietOK(m, engine')
        BY <2>1, <2>2, <2>3, <2>5, <1>1, <1>2 DEF QuietOK
    <2> QED BY <2>3, <2>4, <2>6, QuietStep
<1>5. CASE PrepareChecks(s)
    <2>1. CASE SdkStep(s, [sdk[s] EXCEPT !.pc = "write"]) /\ UNCHANGED <<engine, stageVars>>
        <3> DEFINE m == [sdk[s] EXCEPT !.pc = "write"]
        <3>1. m.pc = "write" /\ m.k = n.k /\ m.usd = n.usd /\ m.deps = n.deps /\ m.before = n.before
            BY <1>1 DEF SdkShape
        <3>2. SdkStep(s, m) /\ n.pc = "check"
            BY <2>1, <1>5 DEF PrepareChecks
        <3> HIDE DEF m
        <3>3. QuietOK(m, engine')
            BY <2>1, <3>1, <3>2, <1>1 DEF QuietOK
        <3> QED BY <2>1, <3>2, <3>3, QuietStep
    <2> QED BY <2>1, <1>3, <1>5 DEF PrepareChecks
<1>6. ASSUME SdkStep(s, [n EXCEPT !.pc = "check", !.k = n.k + 1]), UNCHANGED stageVars,
             n.pc \in {"write", "writing"}, engine'[n.k] # Original,
             \A f \in Engine : engine'[f] \in {engine[f]} \cup (QuietText \ {Original})
      PROVE  QuietInv'
    <2>1. PICK i \in Nat : i = n.k + 1
        BY <1>1 DEF SdkShape
    <2> DEFINE m == [n EXCEPT !.pc = "check", !.k = i]
    <2>2. m.pc = "check" /\ m.k = i /\ m.before = n.before /\ m.usd = n.usd /\ m.deps = n.deps
        BY <1>1 DEF SdkShape
    <2>3. n.k \in Engine /\ i \in 1 .. Len(Files) + 1
        BY <1>1, <1>2, <1>6, <2>1 DEF BoundOK
    <2>4. ASSUME NEW f \in Engine, f < i PROVE engine'[f] # Original
        <3>1. f = n.k \/ f < n.k
            BY <2>1, <2>3, <2>4, <1>2
        <3>2. f < n.k => engine[f] # Original
            BY <1>1, <1>6 DEF QuietOK
        <3> QED BY <3>1, <3>2, <1>6
    <2>5. SdkStep(s, m)
        BY <1>6, <2>1
    <2> HIDE DEF m
    <2>6. ASSUME NEW f \in Engine, n.before[f].patched PROVE engine'[f] # Original
        BY <2>6, <1>1, <1>6 DEF QuietOK
    <2>7. QuietOK(m, engine')
        BY <1>1, <1>6, <2>2, <2>3, <2>4, <2>6 DEF QuietOK
    <2> QED BY <1>6, <2>5, <2>7, QuietStep
<1>7. CASE PrepareOpens(s)
    <2>1. /\ n.pc = "write" /\ n.k \in Engine /\ n.before[n.k] \in Source /\ n.before[n.k] \in QuietText
          /\ UNCHANGED stageVars
        BY <1>1, <1>7 DEF PrepareOpens, BoundOK, QuietOK
    <2>2. CASE n.before[n.k].patched /\ UNCHANGED engine /\ SdkStep(s, [n EXCEPT !.pc = "check", !.k = n.k + 1])
        <3>1. engine[n.k] # Original
            BY <1>1, <2>1, <2>2 DEF QuietOK
        <3>2. \A f \in Engine : engine'[f] = engine[f]
            BY <2>2
        <3> QED BY <3>1, <3>2, <2>1, <2>2, <1>6
    <2>3. ASSUME NEW torn \in Torn(n.before[n.k]), engine' = [engine EXCEPT ![n.k] = torn],
                 SdkStep(s, [n EXCEPT !.pc = "writing"])
          PROVE  QuietInv'
        <3> DEFINE m == [n EXCEPT !.pc = "writing"]
        <3>1. m.pc = "writing" /\ m.k = n.k /\ m.usd = n.usd /\ m.deps = n.deps /\ m.before = n.before
            BY <1>1 DEF SdkShape
        <3>2. SdkStep(s, m)
            BY <2>3
        <3>3. torn \in QuietText \ {Original}
            BY <2>1, <2>3, QuietWrites
        <3>4. \A f \in Engine : engine'[f] \in {engine[f]} \cup (QuietText \ {Original})
            BY <1>1, <2>3, <3>3
        <3> HIDE DEF m
        <3>5. QuietOK(m, engine')
            BY <1>1, <2>1, <3>1, <3>4 DEF QuietOK
        <3> QED BY <2>1, <3>2, <3>4, <3>5, QuietStep
    <2> QED BY <1>7, <2>2, <2>3 DEF PrepareOpens
<1>8. CASE PrepareWrites(s)
    <2>1. /\ n.pc = "writing" /\ n.k \in Engine /\ n.before[n.k] \in Source /\ n.before[n.k] \in QuietText
          /\ UNCHANGED stageVars
        BY <1>1, <1>8 DEF PrepareWrites, BoundOK, QuietOK
    <2>2. PICK after \in QuietText \ {Original} : engine' = [engine EXCEPT ![n.k] = after]
        BY <1>8, <2>1, QuietWrites DEF PrepareWrites
    <2>3. /\ engine'[n.k] # Original
          /\ \A f \in Engine : engine'[f] \in {engine[f]} \cup (QuietText \ {Original})
        BY <1>1, <2>1, <2>2
    <2> QED BY <1>6, <1>8, <2>1, <2>3 DEF PrepareWrites
<1>9. CASE PrepareReceipt(s)
    <2> DEFINE m == [n EXCEPT !.pc = "done", !.receipt = engine, !.linked = TRUE]
    <2>1. n.pc = "check" /\ n.k \in 1 .. Len(Files) + 1 /\ n.k \notin Engine
        BY <1>1, <1>9 DEF PrepareReceipt, QuietOK
    <2>2. \A f \in Engine : f < n.k /\ engine[f] # Original
        <3>1. \A f \in Engine : f < n.k
            BY <2>1, <1>2
        <3> QED BY <3>1, <2>1, <1>1 DEF QuietOK
    <2>3. /\ m.pc = "done" /\ m.k = n.k /\ m.before = n.before /\ m.usd = n.usd /\ m.deps = n.deps
          /\ m.receipt = engine /\ m.linked
        BY <1>1 DEF SdkShape
    <2>4. SdkStep(s, m) /\ UNCHANGED stageVars /\ engine' = engine
        BY <1>9 DEF PrepareReceipt
    <2>5. engine # NoReceipt
        <3>1. 1 \in DOMAIN engine
            BY <1>1, <1>2
        <3>2. 1 \notin DOMAIN << >>
            OBVIOUS
        <3> QED BY <3>1, <3>2 DEF NoReceipt
    <2> HIDE DEF m
    <2>6. QuietOK(m, engine')
        BY <2>1, <2>2, <2>3, <2>4, <2>5, <1>1 DEF QuietOK
    <2> QED BY <2>4, <2>6, QuietStep
<1> QED BY <1>4, <1>5, <1>7, <1>8, <1>9 DEF Prepare

\* An edit is never taken back, and while there is none the stages leave the SDKs alone.
LEMMA QuietInvIsInvariant == Spec => [](StageInv /\ SdkInv /\ QuietInv)
<1>1. Init => QuietInv
    BY DEF Init, StageInit, SdkInit, FreshSdk, QuietInv, QuietOK, QuietText
<1>2. StageInv /\ SdkInv /\ QuietInv /\ [Next]_vars => QuietInv'
    <2> SUFFICES ASSUME StageInv, SdkInv, QuietInv, [Next]_vars, edits' = 0 PROVE QuietInv'
        BY DEF QuietInv
    <2>1. edits \in Nat
        BY BuildersAssumption DEF StageInv, StageType
    <2>2. ASSUME UNCHANGED <<intact, edits, sdkVars>> PROVE QuietInv'
        <3>1. /\ \A u : SoundUsd(u) => SoundUsd(u)'
              /\ \A m : Dependencies(m) => Dependencies(m)'
            BY <2>2, SoundStays
        <3>2. ASSUME NEW s \in Sdks PROVE QuietOK(sdk[s], engine)'
            <4>1. QuietOK(sdk[s], engine)
                BY <2>2 DEF QuietInv
            <4>2. sdk' = sdk /\ engine' = engine
                BY <2>2 DEF sdkVars
            <4> QED BY <3>1, <4>1, <4>2 DEF QuietOK, QuietText, AsPatched, Patched, Original, Source
        <3> QED BY <2>2, <3>2 DEF QuietInv, sdkVars, QuietText, AsPatched, Patched, Original, Source
    <2>3. CASE StageNext /\ UNCHANGED sdkVars
        <3>1. ASSUME NEW b \in Builders, BuilderStep(b) PROVE UNCHANGED <<intact, edits>>
            BY <3>1 DEF BuilderStep, Go, Step, Fails, Compile, Publish,
               PythonPrepare, PythonBuild, PythonCheck, PythonRetention, PythonFinalize,
               BoostPythonBefore, BoostToolchain, BoostPrepare, BoostBuild, BoostCheck, BoostPythonAfter,
               BoostRetention, BoostFinalize, UsdPreflight, UsdDependencies, UsdSource, UsdConfigure,
               UsdBuild, UsdCheck, UsdRetention, UsdFinish
        <3>2. ~Replace
            BY <2>1 DEF Replace
        <3>3. EditMap => UNCHANGED <<intact, edits>>
            BY DEF EditMap
        <3> QED BY <2>2, <2>3, <3>1, <3>2, <3>3 DEF StageNext
    <2>4. CASE SdkNext
        <3>1. ~EditEngine /\ ~EditSdk
            BY <2>1 DEF EditEngine, EditSdk
        <3>2. ASSUME NEW s \in Sdks, Prepare(s) PROVE QuietInv'
            <4>1. edits' = edits
                BY <3>2 DEF Prepare, PrepareReads, PrepareChecks, PrepareOpens, PrepareWrites, PrepareReceipt, SdkFails, stageVars
            <4> QED BY <3>2, <4>1, PrepareStaysQuiet
        <3> QED BY <2>4, <3>1, <3>2 DEF SdkNext
    <2>5. CASE UNCHANGED vars
        BY <2>2, <2>5 DEF vars, stageVars
    <2> QED BY <2>3, <2>4, <2>5 DEF Next
<1> QED BY <1>1, <1>2, SdkInvIsInvariant, PTL DEF Spec

\* As long as nothing is edited, an SDK that was prepared verifies, however many prepares
\* patch the same files at once, unless it met a file that one of them was writing (once,
\* prepare and verify of prepare_native_usd_sdk.py).
THEOREM QuietBinding == Spec => []QuietBindingVerifies
<1>1. ASSUME SdkInv, QuietInv, edits = 0, NEW s \in Sdks, At(s, "done"), MetNoWrite(s) PROVE Verifies(s)
    <2> DEFINE n == sdk[s]
    <2>1. n.pc = "done" /\ QuietOK(n, engine) /\ \A f \in Engine : engine[f] \in QuietText
        BY <1>1 DEF At, QuietInv
    <2>2. \A f \in Engine : engine[f] # Original
        BY <2>1 DEF QuietOK
    <2>3. \A f \in Engine : n.receipt[f] = AsPatched /\ engine[f] = AsPatched /\ n.before[f] \in {Original, AsPatched}
        BY <1>1, <2>1, <2>2 DEF QuietOK, QuietText, MetNoWrite
    <2>4. Patched(AsPatched) = AsPatched /\ AsPatched.patched
        BY DEF AsPatched, Patched, Original
    <2>5. Patchable
        BY <2>3, <2>4 DEF Patchable
    <2>6. SourcesVerified(s)
        BY <2>3, <2>4 DEF SourcesVerified, AsPatched
    <2> QED BY <2>1, <2>5, <2>6 DEF QuietOK, Verifies
<1>2. SdkInv /\ QuietInv => QuietBindingVerifies
    BY <1>1 DEF QuietBindingVerifies
<1> QED BY <1>2, QuietInvIsInvariant, PTL
================================================================================
