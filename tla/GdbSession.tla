------------------------------- MODULE GdbSession -------------------------------
(***************************************************************************)
(* What the gdb probes of the engine have in common: gdb in batch mode     *)
(* loads one Python script, runs the engine until it stops for good, calls *)
(* finish() and quits.  Hooks that return False let the engine go on.  A   *)
(* watchdog may kill gdb, and the engine with it, at any moment.           *)
(***************************************************************************)
EXTENDS Naturals, Sequences

CONSTANT Threads     \* the engine's threads that a probe tells apart

VARIABLES probe,      \* which script is loaded
          session     \* "run", "finish", "done" or "killed"

gdbVars == <<probe, session>>

Probes == {"shutdown", "pipeline", "fault"}

GdbInit == probe \in Probes /\ session = "run"

Running(script) == probe = script /\ session = "run"
Finishing(script) == probe = script /\ session = "finish"

\* The run command is over: a hook asked for a stop, a signal came or the engine ended.
Stops(yes) == session' = IF yes THEN "finish" ELSE session

Ended == session \in {"done", "killed"}

GdbType == probe \in Probes /\ session \in {"run", "finish", "done", "killed"}
================================================================================
