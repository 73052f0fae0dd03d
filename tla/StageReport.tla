------------------------------ MODULE StageReport ------------------------------
(***************************************************************************)
(* Stage reports (scripts/carla/stage_report.py): a report names a stage,    *)
(* the digests of its evidence and the reports it was built on, each with    *)
(* the digest it had.  write_report gives a status by the same recursive     *)
(* check with which validate_report accepts a report later; writers, builds  *)
(* and clean-ups share the directory without a lock.                         *)
(*                                                                         *)
(* A digest is the content.  A report holds the time it was made, so no two  *)
(* are written alike: its digest is its serial number.  Evidence may get any *)
(* content again, and a file of reports an earlier one (from a backup or a   *)
(* checkout).  The reads of one check are one step here; EntryReport takes   *)
(* them apart.                                                               *)
(***************************************************************************)
EXTENDS Integers, FiniteSets, Sequences

CONSTANTS
    Paths,      \* where reports are written; each has one evidence file
    Stages,     \* what a report is about: a stage_id with a scope
    StageId(_), \* the stage_id of a stage
    Contents,   \* what an evidence file may hold
    Missing,    \* the content of a file that is not there
    MaxDepth,   \* MAX_PREREQUISITE_DEPTH, 32 in the code
    MaxNeeds,   \* bound: prerequisites of one report
    MaxWrites,  \* bound: reports written
    MaxChanges  \* bound: reports written, and files built, removed or put back

ASSUME BoundsAssumption == {MaxDepth, MaxNeeds, MaxWrites, MaxChanges} \subseteq Nat

\* A report: digests are serial numbers, a prerequisite is a stage and a path
\* with the digest it had (0 if it was not there).
Reports == [serial : 1 .. MaxWrites, stage : Stages, good : BOOLEAN,
            evidence : Contents \cup {Missing},
            needs : SUBSET [stage : Stages, path : Paths, serial : 0 .. MaxWrites],
            status : {"PASS", "FAIL"}]

ASSUME DirectoryAssumption == IsFiniteSet(Paths) /\ MaxDepth # 0 /\ Missing \notin Reports

VARIABLES
    evidence,   \* [Paths -> content or Missing]
    report,     \* [Paths -> the report or Missing]
    copies,     \* [Paths -> the reports that were in place, of which a copy may exist]
    pending,    \* [Paths -> the report a writer holds and has not yet put in place]
    writes, builds,
    settled     \* history: nothing else has changed since the writer of p looked

vars == <<evidence, report, copies, pending, writes, builds, settled>>

\* A prerequisite is the expected stage and a path, with the digest it had.
Needs == {n \in SUBSET (Stages \X Paths) : Cardinality(n) <= MaxNeeds}

Init ==
    /\ \E c \in Contents : evidence = [p \in Paths |-> c]
    /\ report = [p \in Paths |-> Missing]
    /\ copies = [p \in Paths |-> {}]
    /\ pending = [p \in Paths |-> Missing]
    /\ writes = 0 /\ builds = 0
    /\ settled = [p \in Paths |-> FALSE]

\* Mutant of Serial: the digest does not tell two reports apart.
SerialOfAny(p) == IF report[p] = Missing THEN 0 ELSE 1

\* _digest of a report; _snapshot records nothing for one that is not there.
Serial(p) == IF report[p] = Missing THEN 0 ELSE report[p].serial

\* _content_errors without the prerequisites: exit code, required checks, and
\* the evidence against its digest.
OwnContentOK(r, p) == r.good /\ evidence[p] # Missing /\ r.evidence = evidence[p]

\* "duplicate prerequisite stage_id"
NoDuplicates(r) == \A m, n \in r.needs : StageId(m.stage) = StageId(n.stage) => m = n

\* What is validated: the file of a path, as a stage, reached through these ancestors.
Visits == [path : Paths, stage : Stages, above : SUBSET Paths]

\* The visit to a prerequisite: the file becomes one of the ancestors.
Visit(x, n) == [path |-> n.path, stage |-> n.stage, above |-> x.above \cup {x.path}]

\* _validate_file without the recursion: the file, then its content, then the
\* digest of every prerequisite.
FileOK(x) ==
    LET r == report[x.path] IN
    /\ x.path \notin x.above
    /\ Cardinality(x.above) < MaxDepth
    /\ r # Missing
    /\ r.status = "PASS"
    /\ r.stage = x.stage
    /\ OwnContentOK(r, x.path)
    /\ NoDuplicates(r)
    /\ \A n \in r.needs : n.serial # 0 /\ n.serial = Serial(n.path)

\* _validate_file.
Check[x \in Visits] == FileOK(x) /\ \A n \in report[x.path].needs : Check[Visit(x, n)]

\* _validate_file(path, stage, ancestors).
ValidFile(p, stage, ancestors) == Check[[path |-> p, stage |-> stage, above |-> ancestors]]

\* validate_report
Valid(p, stage) == ValidFile(p, stage, {})

\* The ancestors write_report starts with.
WriterAncestors(p) == {p}

ContentOK(r, p) ==
    /\ OwnContentOK(r, p)
    /\ NoDuplicates(r)
    /\ \A n \in r.needs :
         /\ n.serial # 0
         /\ ValidFile(n.path, n.stage, WriterAncestors(p))

Others(p) == [q \in Paths |-> q = p /\ settled[p]]

\* The report that write_report begins with: nothing is shown yet.
Draft(p, stage, good, asked) ==
    [serial |-> writes + 1, stage |-> stage, good |-> good, evidence |-> evidence[p],
     needs |-> {[stage |-> a[1], path |-> a[2], serial |-> Serial(a[2])] : a \in asked},
     status |-> "FAIL"]

Decided(r, p) == IF ContentOK(r, p) THEN [r EXCEPT !.status = "PASS"] ELSE r

\* write_report up to the encoded report: snapshots, check, status.
Write(p) ==
    /\ writes < MaxWrites /\ writes + builds < MaxChanges /\ pending[p] = Missing
    /\ writes' = writes + 1
    /\ \E stage \in Stages, good \in BOOLEAN, asked \in Needs :
         /\ good \/ asked = {}    \* bound: a failed stage names no prerequisites
         /\ Cardinality(asked) <= 1 \/ (writes = MaxWrites - 1 /\ \A a \in asked : a[2] # p)
            \* bound: only the last report names several prerequisites
         /\ pending' = [pending EXCEPT ![p] = Decided(Draft(p, stage, good, asked), p)]
    /\ settled' = [settled EXCEPT ![p] = TRUE]
    /\ UNCHANGED <<evidence, report, copies, builds>>

\* pending.replace(path)
Replace(p) ==
    /\ pending[p] # Missing
    /\ report' = [report EXCEPT ![p] = pending[p]]
    /\ copies' = [copies EXCEPT ![p] = @ \cup {pending[p]}]
    /\ pending' = [pending EXCEPT ![p] = Missing]
    /\ settled' = Others(p)
    /\ UNCHANGED <<evidence, writes, builds>>

\* The writer dies, or the directory cannot be written: nothing is replaced.
WriterDies(p) ==
    /\ pending[p] # Missing
    /\ pending' = [pending EXCEPT ![p] = Missing]
    /\ settled' = [settled EXCEPT ![p] = FALSE]
    /\ UNCHANGED <<evidence, report, copies, writes, builds>>

Unsettled == settled' = [q \in Paths |-> FALSE]

\* A build writes its logs again, alike or not; somebody removes them or a report,
\* or puts an earlier report back.
Build(p) ==
    /\ writes + builds < MaxChanges
    /\ builds' = builds + 1
    /\ \/ \E v \in (Contents \cup {Missing}) \ {evidence[p]} :
            evidence' = [evidence EXCEPT ![p] = v] /\ UNCHANGED report
       \/ \E r \in (copies[p] \cup {Missing}) \ {report[p]} :
            report' = [report EXCEPT ![p] = r] /\ UNCHANGED evidence
    /\ Unsettled
    /\ UNCHANGED <<copies, pending, writes>>

Next == \E p \in Paths : Write(p) \/ Replace(p) \/ WriterDies(p) \/ Build(p)

Spec == Init /\ [][Next]_vars

--------------------------------------------------------------------------------
(* Properties.                                                             *)

TypeOK ==
    /\ evidence \in [Paths -> Contents \cup {Missing}]
    /\ report \in [Paths -> Reports \cup {Missing}]
    /\ copies \in [Paths -> SUBSET Reports]
    /\ pending \in [Paths -> Reports \cup {Missing}]
    /\ writes \in 0 .. MaxWrites /\ builds \in 0 .. MaxChanges
    /\ settled \in [Paths -> BOOLEAN]

Edge(p, q) == report[p] # Missing /\ \E n \in report[p].needs : n.path = q

\* Chains of reports, each with the next as a prerequisite.
Chains(k) == {c \in [1 .. k -> Paths] : \A i \in 1 .. k - 1 : Edge(c[i], c[i + 1])}

\* What a report stands on: itself and every report a chain reaches.
Below(p) == UNION {{c[k] : c \in {d \in Chains(k) : d[1] = p}} : k \in 1 .. Cardinality(Paths)}

\* What "verified PASS" should mean, without the order of the recursion: every
\* report below is a PASS over evidence that has not changed, every edge holds
\* the digest and the stage of the report it leads to, and no chain is too long.
Sound(p, stage) ==
    /\ report[p] # Missing /\ report[p].stage = stage
    /\ \A q \in Below(p) :
         /\ report[q] # Missing
         /\ report[q].status = "PASS" /\ report[q].good
         /\ evidence[q] # Missing /\ report[q].evidence = evidence[q]
         /\ \A m, n \in report[q].needs : m # n => StageId(m.stage) # StageId(n.stage)
         /\ \A n \in report[q].needs :
              report[n.path] # Missing /\ n.serial = report[n.path].serial /\ n.stage = report[n.path].stage
    /\ \A c \in Chains(MaxDepth + 1) : c[1] # p

\* A PASS that was put in place with nothing changed since its writer looked is
\* accepted: the writer passes nothing the reader refuses (cycles, depth).
WriterAgreesWithReader ==
    \A p \in Paths :
        settled[p] /\ pending[p] = Missing /\ report[p] # Missing /\ report[p].status = "PASS"
            => Valid(p, report[p].stage)

\* validate_report accepts exactly the sound reports, whatever was rebuilt, removed,
\* overwritten or passed under a wrong name, and the writer agrees with it.
AcceptsTheSound ==
    /\ \A p \in Paths, stage \in Stages : Valid(p, stage) <=> Sound(p, stage)
    /\ WriterAgreesWithReader

\* The reports a PASS was accepted on are older than it, all the way down.
PassIsNewest ==
    \A p \in Paths : report[p] # Missing /\ Valid(p, report[p].stage) =>
        \A q \in Below(p) \ {p} : report[q].serial < report[p].serial

\* A build or a copy gives the files of p a content that may be an earlier one.
PutBack(p) ==
    \/ evidence'[p] # evidence[p]
    \/ report'[p] # report[p] /\ report'[p] \in copies[p]

\* A report that was not accepted is accepted, and was not written again itself.
Revived(p) ==
    /\ report[p] # Missing /\ report'[p] = report[p]
    /\ ~Valid(p, report[p].stage)
    /\ Valid(p, report[p].stage)'

\* Only putting back the very bytes a report stands on brings it back: no new report
\* below it, whatever it says, revives what was built on the old one.
OnlyOldBytesRevive == [][\A p \in Paths : Revived(p) => \E q \in Below(p)' : PutBack(q)]_vars
================================================================================
