-------------------------------- MODULE NativeSdk --------------------------------
(***************************************************************************)
(* The whole way of a native OpenUSD into the engine: NativeStage builds   *)
(* the reports, SdkBinding binds the engine to them.                       *)
(***************************************************************************)
EXTENDS SdkBinding

vars == <<stageVars, sdkVars>>

Init == StageInit /\ SdkInit

Next == (StageNext /\ UNCHANGED sdkVars) \/ SdkNext

Spec == Init /\ [][Next]_vars

TypeOK == StageType /\ SdkType

--------------------------------------------------------------------------------
\* An SDK that verifies, at whatever moment, is one piece: every file of the engine is
\* patched, and what is linked is what OpenUSD was built on, down to one CPython.
VerifiedSdkIsWhole ==
    \A s \in Sdks : Verifies(s) =>
        /\ \A f \in Engine : engine[f].patched
        /\ sdk[s].linked
        /\ report[sdk[s].usd].on = {sdk[s].deps.python, sdk[s].deps.boost}
        /\ report[sdk[s].deps.boost].on = {sdk[s].deps.python}

\* No file was torn when this prepare read it or took its digest, and none is now.
MetNoWrite(s) == \A f \in Engine : ~sdk[s].before[f].torn /\ ~sdk[s].receipt[f].torn /\ ~engine[f].torn

\* As long as nothing is edited, an SDK that was prepared verifies, whoever else prepares or
\* builds meanwhile, unless one of its readings fell into another prepare's writing: the files
\* have no lock, and a digest taken of a file cut short stays in the receipt.
QuietBindingVerifies ==
    \A s \in Sdks : edits = 0 /\ At(s, "done") /\ MetNoWrite(s) => Verifies(s)
================================================================================
