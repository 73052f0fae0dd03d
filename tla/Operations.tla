------------------------------ MODULE Operations ------------------------------
(***************************************************************************)
(* Operators start modes with run-dgx-mode.sh and check them with          *)
(* harness/run.sh, on the one autoware container of a host.  The two       *)
(* scripts share nothing but docker: a container that one has just listed  *)
(* may be recreated by the other before it is inspected.                   *)
(***************************************************************************)
EXTENDS DgxMode, Harness

vars == <<service, runner, harnessVars>>

Init == ServiceInit /\ RunnerInit /\ HarnessInit

\* `make record`: compose starts the recorder's dependency again, and recreates
\* it, because AUTOWARE_COMMAND is not what the mode's runner set.
RecordRecreates == current # 0 /\ \E c \in Configs : c # config /\ Replaced(c, TRUE)

Next ==
    \/ (ServiceNext \/ RecordRecreates) /\ UNCHANGED <<runner, harnessVars>>
    \/ (\E r \in Runners : RunnerStep(r)) /\ UNCHANGED harnessVars
    \/ (\E h \in Runs : HarnessStep(h)) /\ UNCHANGED <<service, runner>>

\* docker answers the polls; nothing else is promised.
Fairness == \A r \in Runners : WF_vars(WaitStep(r) /\ UNCHANGED harnessVars)

Spec == Init /\ [][Next]_vars /\ Fairness

TypeOK == ServiceType /\ RunnerType /\ HarnessType
================================================================================
