-------------------------------- MODULE GdbProbes --------------------------------
(***************************************************************************)
(* The probes of the engine that run a script in gdb, one of them in a run *)
(* of gdb, under the watchdog of the shell script that starts it: timeout  *)
(* terminates gdb, and 5 seconds later kills it.                           *)
(***************************************************************************)
EXTENDS ShutdownCapture, PipelineCapture, FaultCapture

vars == <<gdbVars, shutdownVars, pipelineVars, faultVars>>

\* What the other probes are set to does not matter to the one that is loaded.
Init ==
    /\ GdbInit /\ ShutdownInit /\ PipelineInit /\ FaultInit
    /\ probe # "pipeline" => mode = "entry"
    /\ probe # "fault" => ~tracing

\* The files are what was written last; a file that is not replaced as a whole may be torn.
Killed ==
    /\ ~Ended /\ session' = "killed"
    /\ IF probe = "pipeline" THEN PipelineKilled ELSE UNCHANGED pipelineVars
    /\ UNCHANGED <<probe, shutdownVars, faultVars>>

Next ==
    \/ ShutdownNext /\ UNCHANGED <<pipelineVars, faultVars>>
    \/ PipelineNext /\ UNCHANGED <<shutdownVars, faultVars>>
    \/ FaultNext /\ UNCHANGED <<shutdownVars, pipelineVars>>
    \/ Killed

Spec == Init /\ [][Next]_vars
================================================================================
