----------------------------- MODULE ShutdownCapture -----------------------------
(***************************************************************************)
(* The probe of the crash at shutdown: gdb_ue_shutdown_capture.py hooks    *)
(* the engine and keeps a journal, analyze_ue_shutdown_capture.py reads it *)
(* after gdb has gone.  The question is whether the check in               *)
(* RemoveHandler failed, and whether its map had been emptied before.      *)
(*                                                                         *)
(* The engine is what the script says of it: handlers are registered and   *)
(* removed, a teardown may empty the map behind them, and exit() runs      *)
(* static destructors.  While one hook runs, no other event is reported.   *)
(***************************************************************************)
EXTENDS GdbSession, FiniteSetsExt, Functions

CONSTANTS MaxListed,    \* MAX_EVENTS (64) and MAX_WATCH_EVENTS (8)
          MaxHappens,   \* bound: events of the engine
          MaxFailures   \* bound: reads, observations and writes that fail

VARIABLES ue,         \* the engine, and what has really happened in it
          armed,      \* the kinds of hooks that resolved
          capture,    \* the script's state: its lists and counters
          journal     \* shutdown-capture.json

shutdownVars == <<ue, armed, capture, journal>>

Kinds == {"check", "watch", "socket", "exit"}

\* The list that an event goes to.
ListOf(role) == CASE role \in {"target", "other", "unread"} -> "check"
                  [] role \in {"set", "cleared"} -> "watch"
                  [] OTHER -> "socket"

KindOf(role) == IF role = "exit" THEN "exit" ELSE ListOf(role)

NoJournal == [started |-> FALSE]
Nobody == [role |-> "none"]

ShutdownInit ==
    /\ ue = [map |-> 0, exiting |-> FALSE, logged |-> FALSE, over |-> "no", todo |-> << >>,
             clock |-> 0, target |-> 0]
    /\ armed = {}
    /\ capture = [started |-> FALSE, resolved |-> {}, check |-> << >>, watch |-> << >>, socket |-> << >>, sequence |-> 0,
                  truncated |-> FALSE, errors |-> FALSE, signals |-> FALSE, exit |-> FALSE, observing |-> Nobody,
                  complete |-> FALSE, failures |-> 0]
    /\ journal = NoJournal

\* Something of the script that fails: a write, an observation, the reading of a text.
Failing(new) == [new EXCEPT !.failures = @ + 1]

\* write(): a temporary file and os.replace.  After one that fails the journal is what it was
\* until the next one.
Writes(new) ==
    /\ new.failures <= MaxFailures
    /\ \/ capture' = new /\ journal' = new
       \/ new.failures < MaxFailures /\ capture' = Failing(new) /\ UNCHANGED journal

\* _install, before the engine runs: for each role the first candidate that resolves, or
\* none; the watchpoint may fail to arm, and exit stays pending until libc is there.
Install ==
    /\ Running("shutdown") /\ ~capture.started
    /\ armed' \in SUBSET Kinds
    /\ Writes([capture EXCEPT !.started = TRUE, !.resolved = armed'])
    /\ UNCHANGED <<ue, gdbVars>>

--------------------------------------------------------------------------------
(* The engine.                                                             *)

Awake == Running("shutdown") /\ capture.started /\ capture.observing = Nobody /\ ue.over = "no"

Free == Awake /\ ue.todo = << >> /\ ue.clock < MaxHappens

\* The events that a call in the engine brings about, one after the other.
Calls(events) ==
    /\ Free
    /\ ue' = [ue EXCEPT !.todo = events]
    /\ UNCHANGED <<armed, capture, journal, gdbVars>>

Register == ue.map = 0 /\ Calls(<<"register", "set">>)

\* RemoveHandler: check(MessageHandlers.Contains(MessageId)).
Remove == Calls(IF ue.map = 1 THEN <<"remove", "cleared">> ELSE <<"remove", "target">>)

\* A teardown empties the map without RemoveHandler.
Clear == ue.map = 1 /\ Calls(<<"cleared">>)

OtherCheck == Calls(<<"other">>)

Exit == ~ue.exiting /\ Calls(<<"exit">>)

\* ReleaseRHI, called by somebody or by a static destructor inside exit().
Release == Calls(<<"release">>) \/ (ue.exiting /\ Calls(<<"static-release">>))

LogShutdown ==
    /\ Awake /\ ~ue.logged
    /\ ue' = [ue EXCEPT !.logged = TRUE]
    /\ UNCHANGED <<armed, capture, journal, gdbVars>>

--------------------------------------------------------------------------------
(* The hooks.                                                              *)

\* Hook.stop and the head of observe: the shared order is given out.
Hit ==
    /\ Awake /\ ue.todo # << >>
    /\ LET role == Head(ue.todo)   at == ue.clock + 1 IN
        /\ ue' = [ue EXCEPT !.todo = Tail(@), !.clock = at,
                            !.map = CASE role = "set" -> 1 [] role = "cleared" -> 0 [] OTHER -> @,
                            !.exiting = @ \/ role = "exit",
                            !.target = IF role = "target" /\ @ = 0 THEN at ELSE @]
        /\ capture' = IF KindOf(role) \in armed
                      THEN [capture EXCEPT !.sequence = @ + 1,
                                           !.observing = [role |-> role, order |-> capture.sequence + 1, at |-> at]]
                      ELSE capture
    /\ UNCHANGED <<armed, journal, gdbVars>>

\* _map_state: the number of handlers in the map, if it can be read.  (Of the events in the
\* other lists it is only printed.)
MapState(role) == IF ListOf(role) = "watch" THEN {{ue.map}, {}} ELSE {{}}

\* An entry of a list: the event, what its map was seen to hold, and its number in the list.
Entry(event, handlers, number) ==
    [role |-> event.role, order |-> event.order, at |-> event.at, handlers |-> handlers, seq |-> number]

\* Mutant of Listed: a check that finds its list full is not reported
ListedSilently(event, handlers) ==
    LET list == ListOf(event.role)   number == Len(capture[list]) IN
    [capture EXCEPT ![list] = IF number >= MaxListed THEN @ ELSE Append(@, Entry(event, handlers, number)),
                    !.truncated = @ \/ (number >= MaxListed /\ list # "check"),
                    !.observing = Nobody]

\* observe_check, observe_socket and observe_watch: a full list drops the event.
Listed(event, handlers) ==
    LET list == ListOf(event.role)   number == Len(capture[list]) IN
    [capture EXCEPT ![list] = IF number >= MaxListed THEN @ ELSE Append(@, Entry(event, handlers, number)),
                    !.truncated = @ \/ number >= MaxListed,
                    !.observing = Nobody]

Observe ==
    /\ Running("shutdown") /\ capture.observing # Nobody
    /\ \E handlers \in MapState(capture.observing.role) : Writes(Listed(capture.observing, handlers))
    /\ UNCHANGED <<ue, armed, gdbVars>>

\* observe_check, where _cstring cannot read the check's text or its file: the check is
\* listed, and not taken for the one in question.
Unreadable ==
    /\ Running("shutdown") /\ ListOf(capture.observing.role) = "check"
    /\ Writes(Failing(Listed([capture.observing EXCEPT !.role = "unread"], {})))
    /\ UNCHANGED <<ue, armed, gdbVars>>

\* Hook.stop, where observe raises: the event is lost, its number with it, and the note is an
\* error that names the hook.  (A release is in its list before its stack is read.)
ObserveFails ==
    /\ Running("shutdown") /\ capture.observing # Nobody
    /\ Writes(Failing([capture EXCEPT !.observing = Nobody, !.errors = @ \/ ListOf(capture.observing.role) = "check"]))
    /\ UNCHANGED <<ue, armed, gdbVars>>

\* on_stop: a signal that gdb keeps to itself.  The run command returns.
SignalStops ==
    /\ Awake
    /\ ue' = [ue EXCEPT !.over = "stopped"]
    /\ Writes([capture EXCEPT !.signals = TRUE])
    /\ Stops(TRUE) /\ UNCHANGED <<armed, probe>>

\* on_exited: the exit code, which gdb may not know; its transcript has it then.
Exited ==
    /\ Awake
    /\ \E over \in {"code", "signal"}, known \in BOOLEAN :
        /\ ue' = [ue EXCEPT !.over = over]
        /\ Writes([capture EXCEPT !.exit = over = "code" /\ known])
    /\ Stops(TRUE) /\ UNCHANGED <<armed, probe>>

\* _refresh: the hooks are asked again, and one that cannot tell counts as unresolved.
Refreshed == {armed, armed \ {"check"}}

\* state.finish(): the last write.
FinishShutdown ==
    /\ Finishing("shutdown")
    /\ \E resolved \in Refreshed : Writes([capture EXCEPT !.resolved = resolved, !.complete = TRUE])
    /\ session' = "done" /\ UNCHANGED <<ue, armed, probe>>

ShutdownNext ==
    \/ Install \/ Register \/ Remove \/ Clear \/ OtherCheck \/ Exit \/ Release \/ LogShutdown
    \/ Hit \/ Observe \/ Unreadable \/ ObserveFails \/ SignalStops \/ Exited \/ FinishShutdown

--------------------------------------------------------------------------------
(* analyze_ue_shutdown_capture.py, over the journal and the two logs.      *)

First(list, roles) == LET found == {i \in DOMAIN list : list[i].role \in roles} IN
                      IF found = {} THEN Nobody ELSE list[Min(found)]

TargetEvent == First(journal.check, {"target"})

\* watch_summary: the last write after which the map was seen to be empty.
Cleared == LET empty == {i \in DOMAIN journal.watch :
                             journal.watch[i].role = "cleared" /\ journal.watch[i].handlers = {0}} IN
           IF empty = {} THEN Nobody ELSE journal.watch[Max(empty)]

\* Mutant of MapClearedBeforeCheck: the two events are compared by the numbers of their own lists
MapClearedBySeq == Cleared.seq < TargetEvent.seq

MapClearedBeforeCheck == Cleared.order < TargetEvent.order

Events == Range(journal.check) \cup Range(journal.watch) \cup Range(journal.socket)

\* build_timeline: everything in one list, by the shared order.  (Which comes before which.)
Timeline == {pair \in Events \X Events : pair[1].order < pair[2].order}

\* release_phases, by the shared order.
Phase(release) ==
    LET exit == First(journal.socket, {"exit"}) IN
    IF exit = Nobody THEN "unknown"
    ELSE IF release.order < exit.order THEN "before-exit" ELSE "inside-exit-handlers"

\* exit_evidence: the event, or the line of the transcript.
ExitCodeKnown == journal.exit \/ ue.over = "code"

ShutdownObserved == ue.logged \/ ExitCodeKnown \/ journal.signals

Verdict ==
    IF journal = NoJournal \/ "check" \notin journal.resolved THEN "INVALID_INSTRUMENTATION"
    ELSE IF TargetEvent # Nobody THEN "CAPTURED_TARGET_ASSERT"
    ELSE IF ShutdownObserved THEN "NO_TARGET_ASSERT" ELSE "INCONCLUSIVE"

--------------------------------------------------------------------------------
\* What the journal has to say against itself.  The analyser reads none of it: truncated,
\* capture_complete and capture_errors are not looked at, and a check without a text is
\* listed with the other checks.
Doubtful ==
    \/ ~journal.complete \/ journal.truncated \/ journal.errors
    \/ \E i \in DOMAIN journal.check : journal.check[i].role = "unread"

\* A measurement that has lost the failed check is a broken one by its own journal: where
\* the verdict is that no check failed and one did, the journal is not complete, or has
\* dropped events, or notes a hook that raised, or lists a check that could not be read.
LossIsRecorded ==
    probe = "shutdown" /\ Ended /\ Verdict = "NO_TARGET_ASSERT" /\ ue.target # 0 => Doubtful

\* Whatever was dropped or cut off, what the report says of before and after is how it
\* was: the map and the check, the releases and exit(), and the whole timeline.
OrderIsTheOrder ==
    probe = "shutdown" /\ Ended /\ journal # NoJournal =>
        /\ TargetEvent # Nobody /\ Cleared # Nobody =>
              (MapClearedBeforeCheck <=> Cleared.at < TargetEvent.at)
        /\ \A one, other \in Events : one # other =>
              (<<one, other>> \in Timeline <=> one.at < other.at)
        /\ \A i \in 1 .. Len(journal.socket) :
              LET event == journal.socket[i] IN
              /\ event.role = "static-release" => Phase(event) # "before-exit"
              /\ event.role \in {"release", "static-release"} /\ Phase(event) = "inside-exit-handlers" =>
                     First(journal.socket, {"exit"}).at < event.at
================================================================================
