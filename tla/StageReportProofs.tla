--------------------------- MODULE StageReportProofs ---------------------------
(***************************************************************************)
(* What an accepted report is worth, for every directory, depth limit and  *)
(* number of prerequisites, reports and builds.                            *)
(*                                                                         *)
(* The check is recursive.  That its definition is one (CheckSteps) is     *)
(* shown with the union of all sets of visits that pass as a whole, and    *)
(* that nothing else is to be shown of a set but that (ClosedPasses) by    *)
(* the ancestors, of which every prerequisite has one more.  With the two, *)
(* no property needs the recursion: each says which set of visits passes.  *)
(***************************************************************************)
EXTENDS StageReport, TLAPS, FiniteSetTheorems, WellFoundedInduction

LEMMA LeastExists ==
  ASSUME NEW S \in SUBSET Nat, S # {}
  PROVE  \E i \in S : \A j \in S : i <= j
<1>1. PICK x \in S : \A y \in S : ~(<<y, x>> \in OpToRel(<, Nat))
  BY WFMin, NatLessThanWellFounded, Zenon
<1>2. \A y \in S : ~(y < x)
  BY <1>1, Zenon DEF OpToRel
<1> QED BY <1>2

--------------------------------------------------------------------------------
(* The recursion of _validate_file.                                        *)

\* The prerequisites of a report are paths and stages.
NeedsOK ==
    \A p \in Paths : report[p] # Missing =>
        \A n \in report[p].needs : n.path \in Paths /\ n.stage \in Stages

\* A set of visits that passes as a whole.
Closed(visits) ==
    \A x \in visits : FileOK(x) /\ \A n \in report[x.path].needs : Visit(x, n) \in visits

Accepts == [x \in Visits |-> \E visits \in SUBSET Visits : x \in visits /\ Closed(visits)]

LEMMA VisitType ==
  ASSUME NeedsOK, NEW x \in Visits, report[x.path] # Missing, NEW n \in report[x.path].needs
  PROVE  Visit(x, n) \in Visits
<1>1. x.path \in Paths /\ x.above \in SUBSET Paths
  BY DEF Visits
<1>2. n.path \in Paths /\ n.stage \in Stages
  BY <1>1 DEF NeedsOK
<1> QED BY <1>1, <1>2 DEF Visits, Visit

\* Check is what its definition says: the set of all visits that are in some
\* closed set is one such function.
CheckSteps ==
    \A x \in Visits : Check[x] <=> FileOK(x) /\ \A n \in report[x.path].needs : Check[Visit(x, n)]

LEMMA CheckIs == NeedsOK => CheckSteps
<1> SUFFICES ASSUME NeedsOK
    PROVE  CheckSteps
  OBVIOUS
<1> DEFINE Steps(c, x) == FileOK(x) /\ \A n \in report[x.path].needs : c[Visit(x, n)]
<1>1. ASSUME NEW x \in Visits
      PROVE  Accepts[x] = Steps(Accepts, x)
  <2>1. ASSUME Accepts[x]
        PROVE  Steps(Accepts, x)
    <3>1. PICK visits \in SUBSET Visits : x \in visits /\ Closed(visits)
      BY <2>1 DEF Accepts
    <3>2. FileOK(x)
      BY <3>1 DEF Closed
    <3>3. ASSUME NEW n \in report[x.path].needs
          PROVE  Accepts[Visit(x, n)]
      BY <3>1, <3>3 DEF Closed, Accepts
    <3> QED BY <3>2, <3>3
  <2>2. ASSUME Steps(Accepts, x)
        PROVE  Accepts[x]
    <3> DEFINE V == {y \in Visits : y = x \/ Accepts[y]}
    <3>1. ASSUME NEW y \in V, NEW n \in report[y.path].needs
          PROVE  FileOK(y) /\ Visit(y, n) \in V
      <4>1. CASE y = x
        <5>1. FileOK(x) /\ Accepts[Visit(x, n)]
          BY <2>2, <3>1, <4>1
        <5>2. report[x.path] # Missing
          BY <5>1 DEF FileOK
        <5>3. Visit(x, n) \in Visits
          BY <5>2, <3>1, <4>1, VisitType
        <5> QED BY <4>1, <5>1, <5>3
      <4>2. CASE Accepts[y]
        <5>1. PICK visits \in SUBSET Visits : y \in visits /\ Closed(visits)
          BY <4>2 DEF Accepts
        <5>2. FileOK(y) /\ Visit(y, n) \in visits
          BY <5>1, <3>1 DEF Closed
        <5>3. Accepts[Visit(y, n)]
          BY <5>1, <5>2 DEF Accepts
        <5> QED BY <5>1, <5>2, <5>3
      <4> QED BY <3>1, <4>1, <4>2
    <3>2. ASSUME NEW y \in V
          PROVE  FileOK(y)
      <4>1. CASE y = x
        BY <4>1, <2>2
      <4>2. CASE Accepts[y]
        BY <4>2 DEF Accepts, Closed
      <4> QED BY <3>2, <4>1, <4>2
    <3>3. Closed(V)
      BY <3>1, <3>2 DEF Closed
    <3> QED BY <3>3 DEF Accepts
  <2>3. Accepts[x] \in BOOLEAN
    BY DEF Accepts
  <2> HIDE DEF Steps
  <2>4. Steps(Accepts, x) \in BOOLEAN
    BY DEF Steps
  <2> QED BY <2>1, <2>2, <2>3, <2>4
<1>2. Accepts = [x \in Visits |-> Steps(Accepts, x)]
  BY <1>1 DEF Accepts
<1>3. Check = [x \in Visits |-> Steps(Check, x)]
  BY <1>2, Zenon DEF Check
<1>4. ASSUME NEW x \in Visits
      PROVE  Check[x] = Steps(Check, x)
  BY <1>3, Zenon
<1> QED BY <1>4 DEF CheckSteps

LEMMA CheckIsNext == NeedsOK' => CheckSteps'
BY CheckIs, PTL

\* The ancestors of a visit that passes are fewer than MaxDepth, and every
\* prerequisite adds one: a closed set passes.
ClosedPasses == \A visits \in SUBSET Visits : Closed(visits) => \A x \in visits : Check[x]

LEMMA ClosedCheck == NeedsOK => ClosedPasses
<1> SUFFICES ASSUME NeedsOK, NEW visits \in SUBSET Visits, Closed(visits),
                    NEW x \in visits, ~Check[x]
    PROVE  FALSE
  BY DEF ClosedPasses
<1>1. CheckSteps
  BY CheckIs
<1>2. MaxDepth \in Nat
  BY BoundsAssumption
<1>3. ASSUME NEW y \in visits
      PROVE  /\ IsFiniteSet(y.above) /\ Cardinality(y.above) \in Nat
             /\ Cardinality(y.above) < MaxDepth /\ y.path \notin y.above
  <2>1. y.above \in SUBSET Paths
    BY DEF Visits
  <2>2. FileOK(y)
    BY DEF Closed
  <2> QED BY <2>1, <2>2, DirectoryAssumption, FS_Subset, FS_CardinalityType DEF FileOK
<1> DEFINE Left(y) == MaxDepth - Cardinality(y.above)
<1> DEFINE L == {k \in Nat : \E y \in visits : ~Check[y] /\ k = Left(y)}
<1>4. Left(x) \in L
  BY <1>2, <1>3
<1>5. PICK k \in L : \A j \in L : k <= j
  <2> HIDE DEF L
  <2>1. L \in SUBSET Nat /\ L # {}
    BY <1>4 DEF L
  <2> QED BY <2>1, LeastExists
<1>6. PICK y \in visits : ~Check[y] /\ k = Left(y)
  BY <1>5
<1>7. PICK n \in report[y.path].needs : ~Check[Visit(y, n)]
  BY <1>1, <1>6 DEF CheckSteps, Closed
<1>8. Visit(y, n) \in visits
  BY <1>7 DEF Closed
<1>9. Cardinality(Visit(y, n).above) = Cardinality(y.above) + 1
  BY <1>3, FS_AddElement DEF Visit
<1> QED
  <2>1. Left(Visit(y, n)) \in L /\ Left(Visit(y, n)) < k
    BY <1>2, <1>3, <1>6, <1>7, <1>8, <1>9
  <2> QED BY <1>2, <1>3, <1>5, <1>6, <2>1

LEMMA ClosedCheckNext == NeedsOK' => ClosedPasses'
BY ClosedCheck, PTL

\* Check depends on the reports and the evidence only.
LEMMA SameCheck ==
  ASSUME UNCHANGED <<report, evidence>>
  PROVE  Check' = Check
BY DEF Check, FileOK, Serial, OwnContentOK

--------------------------------------------------------------------------------
(* The invariant.                                                          *)

\* A report is older than what was built on it, and newer than what it was built on.
Aged(r) ==
    /\ r.serial <= writes
    /\ \A n \in r.needs : n.serial < r.serial

AgeInv ==
    \A p \in Paths :
        /\ report[p] # Missing => Aged(report[p])
        /\ \A r \in copies[p] : Aged(r)
        /\ pending[p] # Missing => Aged(pending[p])

\* The digest of a report that is not yet in place is not known to anyone.
Unaware(r, digest) == r.serial # digest /\ \A n \in r.needs : n.serial # digest

FreshInv ==
    \A p, q \in Paths : pending[q] # Missing =>
        /\ report[p] # Missing => Unaware(report[p], pending[q].serial)
        /\ \A r \in copies[p] : Unaware(r, pending[q].serial)
        /\ p # q /\ pending[p] # Missing => Unaware(pending[p], pending[q].serial)

\* What a writer has found of a report that says PASS.
Accepted(p, r) ==
    /\ OwnContentOK(r, p)
    /\ NoDuplicates(r)
    /\ \A n \in r.needs :
         /\ n.serial # 0 /\ n.serial = Serial(n.path)
         /\ ValidFile(n.path, n.stage, WriterAncestors(p))

SettledInv ==
    \A p \in Paths : settled[p] =>
        /\ pending[p] # Missing /\ pending[p].status = "PASS" => Accepted(p, pending[p])
        /\ pending[p] = Missing /\ report[p] # Missing /\ report[p].status = "PASS" =>
              Valid(p, report[p].stage)

Inv == TypeOK /\ AgeInv /\ FreshInv /\ SettledInv

LEMMA TypedNeeds == TypeOK => NeedsOK
BY DEF TypeOK, NeedsOK, Reports

LEMMA InitInv == Init => Inv
BY BoundsAssumption DEF Init, Inv, TypeOK, AgeInv, FreshInv, SettledInv

\* What write_report holds when it has looked.
Written(p, r) ==
    /\ pending[p] = Missing /\ writes < MaxWrites
    /\ pending' = [pending EXCEPT ![p] = r]
    /\ r \in Reports
    /\ r.serial = writes + 1 /\ r.evidence = evidence[p]
    /\ \A n \in r.needs : n.serial = Serial(n.path)
    /\ r.status = "PASS" => Accepted(p, r)
    /\ writes' = writes + 1
    /\ settled' = [settled EXCEPT ![p] = TRUE]
    /\ UNCHANGED <<evidence, report, copies, builds>>

LEMMA WriteWrites ==
  ASSUME TypeOK, NEW p \in Paths, Write(p)
  PROVE  \E r : Written(p, r)
<1>1. PICK stage \in Stages, good \in BOOLEAN, asked \in Needs :
        pending' = [pending EXCEPT ![p] = Decided(Draft(p, stage, good, asked), p)]
  BY DEF Write
<1> DEFINE needs == {[stage |-> a[1], path |-> a[2], serial |-> Serial(a[2])] : a \in asked}
           draft == Draft(p, stage, good, asked)
           r == Decided(draft, p)
<1>2. draft = [serial |-> writes + 1, stage |-> stage, good |-> good, evidence |-> evidence[p],
               needs |-> needs, status |-> "FAIL"]
  BY DEF Draft
<1> HIDE DEF draft
<1>3. \A q \in Paths : Serial(q) \in 0 .. MaxWrites
  BY BoundsAssumption DEF TypeOK, Reports, Serial
<1>4. needs \in SUBSET [stage : Stages, path : Paths, serial : 0 .. MaxWrites]
  <2>1. asked \in SUBSET (Stages \X Paths)
    BY DEF Needs
  <2> QED BY <1>3, <2>1
<1>5. \A n \in needs : n.serial = Serial(n.path)
  OBVIOUS
<1>6. writes < MaxWrites /\ writes \in Nat /\ writes + 1 \in 1 .. MaxWrites
  BY BoundsAssumption DEF Write, TypeOK
<1>7. evidence[p] \in Contents \cup {Missing}
  BY DEF TypeOK
<1> HIDE DEF needs
<1>8. draft \in Reports /\ draft.serial = writes + 1 /\ draft.evidence = evidence[p] /\ draft.needs = needs
  BY <1>2, <1>4, <1>6, <1>7 DEF Reports
<1>9. /\ r \in Reports /\ r.serial = writes + 1 /\ r.evidence = evidence[p] /\ r.needs = needs
      /\ r.status = "PASS" => Accepted(p, r)
  <2>1. CASE ContentOK(draft, p)
    <3>1. r = [draft EXCEPT !.status = "PASS"]
      BY <2>1 DEF Decided
    <3>2. /\ r \in Reports /\ r.serial = draft.serial /\ r.evidence = draft.evidence /\ r.needs = draft.needs
          /\ r.good = draft.good
      BY <1>8, <3>1 DEF Reports
    <3> HIDE DEF r
    <3>3. Accepted(p, r)
      BY <1>5, <1>8, <2>1, <3>2 DEF ContentOK, Accepted, OwnContentOK, NoDuplicates
    <3> QED BY <1>8, <3>2, <3>3
  <2>2. CASE ~ContentOK(draft, p)
    BY <1>2, <1>8, <2>2 DEF Decided
  <2> QED BY <2>1, <2>2
<1>10. /\ pending[p] = Missing /\ writes' = writes + 1
       /\ settled' = [settled EXCEPT ![p] = TRUE]
       /\ UNCHANGED <<evidence, report, copies, builds>>
  BY DEF Write
<1> HIDE DEF r
<1>11. pending' = [pending EXCEPT ![p] = r]
  BY <1>1 DEF r, draft
<1> QED BY <1>5, <1>6, <1>9, <1>10, <1>11 DEF Written

\* Reports do not get younger.
LEMMA StayAged ==
  ASSUME TypeOK, TypeOK', writes <= writes', NEW r \in Reports, Aged(r)
  PROVE  Aged(r)'
<1>1. writes \in Nat /\ writes' \in Nat /\ r.serial \in Nat
  BY BoundsAssumption DEF TypeOK, Reports
<1> QED BY <1>1 DEF Aged

\* Serial numbers are only given out.
LEMMA TypeStep ==
  ASSUME TypeOK, NEW p \in Paths, Write(p) \/ Replace(p) \/ WriterDies(p) \/ Build(p)
  PROVE  TypeOK' /\ writes <= writes'
<1>1. CASE Write(p)
  <2>1. PICK r : Written(p, r)
    BY <1>1, WriteWrites
  <2>2. pending' \in [Paths -> Reports \cup {Missing}]
    BY <2>1 DEF Written, TypeOK
  <2>3. writes' \in 0 .. MaxWrites /\ writes <= writes'
    BY <2>1, BoundsAssumption DEF Written, TypeOK
  <2>4. settled' \in [Paths -> BOOLEAN]
    BY <2>1 DEF Written, TypeOK
  <2> QED BY <2>1, <2>2, <2>3, <2>4, BoundsAssumption DEF Written, TypeOK
<1>2. CASE Replace(p)
  <2>1. pending[p] \in Reports
    BY <1>2 DEF Replace, TypeOK
  <2>2. report' \in [Paths -> Reports \cup {Missing}] /\ pending' \in [Paths -> Reports \cup {Missing}]
    BY <1>2 DEF Replace, TypeOK
  <2>3. copies' \in [Paths -> SUBSET Reports]
    BY <1>2, <2>1 DEF Replace, TypeOK
  <2>4. settled' \in [Paths -> BOOLEAN]
    BY <1>2 DEF Replace, Others, TypeOK
  <2> QED BY <1>2, <2>2, <2>3, <2>4, BoundsAssumption DEF Replace, TypeOK
<1>3. CASE WriterDies(p)
  <2>1. pending' \in [Paths -> Reports \cup {Missing}] /\ settled' \in [Paths -> BOOLEAN]
    BY <1>3 DEF WriterDies, TypeOK
  <2> QED BY <1>3, <2>1, BoundsAssumption DEF WriterDies, TypeOK
<1>4. CASE Build(p)
  <2>1. builds' \in 0 .. MaxChanges
    BY <1>4, BoundsAssumption DEF Build, TypeOK
  <2>2. evidence' \in [Paths -> Contents \cup {Missing}]
    BY <1>4 DEF Build, TypeOK
  <2>3. report' \in [Paths -> Reports \cup {Missing}]
    <3>1. copies[p] \in SUBSET Reports
      BY DEF TypeOK
    <3> QED BY <1>4, <3>1 DEF Build, TypeOK
  <2>4. settled' \in [Paths -> BOOLEAN]
    BY <1>4 DEF Build, Unsettled
  <2> QED BY <1>4, <2>1, <2>2, <2>3, <2>4, BoundsAssumption DEF Build, TypeOK
<1> QED BY <1>1, <1>2, <1>3, <1>4

\* A step of one path puts its pending report in place, or a copy of an earlier one, or
\* removes a report, or begins or drops a pending one.
LEMMA Origin ==
  ASSUME TypeOK, NEW p \in Paths, Write(p) \/ Replace(p) \/ WriterDies(p) \/ Build(p), NEW q \in Paths
  PROVE  /\ \/ report'[q] = report[q]
            \/ report'[q] = Missing
            \/ report'[q] \in copies[q]
            \/ q = p /\ Replace(p) /\ report'[q] = pending[q]
         /\ \/ pending'[q] = pending[q] /\ ~(q = p /\ Replace(p))
            \/ pending'[q] = Missing
            \/ q = p /\ pending'[q] \in Reports /\ Written(p, pending'[q])
         /\ \A r \in copies'[q] : r \in copies[q] \/ (q = p /\ Replace(p) /\ r = pending[q])
<1>1. CASE Write(p)
  <2>1. PICK r : Written(p, r)
    BY <1>1, WriteWrites
  <2>2. report'[q] = report[q] /\ copies' = copies
    BY <2>1 DEF Written
  <2>3. q # p => pending'[q] = pending[q]
    BY <2>1 DEF Written, TypeOK
  <2>4. pending'[p] = r /\ r \in Reports
    BY <2>1 DEF Written, TypeOK
  <2>5. q = p => pending'[q] = r
    BY <2>4
  <2>6. q = p => pending'[q] \in Reports /\ Written(p, pending'[q])
    BY <2>1, <2>4, <2>5
  <2> QED BY <2>2, <2>3, <2>6
<1>2. CASE Replace(p)
  BY <1>2 DEF Replace, TypeOK
<1>3. CASE WriterDies(p)
  BY <1>3 DEF WriterDies, TypeOK
<1>4. CASE Build(p)
  <2>1. pending'[q] = pending[q]
    BY <1>4 DEF Build
  <2>2. report'[q] = report[q] \/ report'[q] = Missing \/ report'[q] \in copies[q]
    BY <1>4 DEF Build, TypeOK
  <2>3. pending[p] = Missing \/ pending'[p] # Missing
    BY <1>4 DEF Build
  <2>4. copies' = copies
    BY <1>4 DEF Build
  <2> QED BY <1>4, <2>1, <2>2, <2>3, <2>4 DEF Replace, TypeOK
<1> QED BY <1>1, <1>2, <1>3, <1>4

LEMMA AgeStep ==
  ASSUME TypeOK, AgeInv, NEW p \in Paths, Write(p) \/ Replace(p) \/ WriterDies(p) \/ Build(p)
  PROVE  AgeInv'
<1>1. TypeOK' /\ writes <= writes'
  BY TypeStep
<1>2. \A q \in Paths : /\ report[q] \in Reports \cup {Missing} /\ pending[q] \in Reports \cup {Missing}
                       /\ copies[q] \in SUBSET Reports
  BY DEF TypeOK
<1>3. \A r \in Reports : Aged(r) => Aged(r)'
  BY <1>1, StayAged
<1>4. ASSUME NEW q \in Paths, NEW r, r = report'[q] \/ r \in copies'[q], r # Missing
      PROVE  Aged(r)'
  <2>1. r = report[q] \/ r \in copies[q] \/ (r = pending[q] /\ pending[q] # Missing)
    BY <1>4, Origin
  <2>2. r \in Reports /\ Aged(r)
    BY <1>2, <1>4, <2>1 DEF AgeInv
  <2> QED BY <1>3, <2>2
<1>5. ASSUME NEW q \in Paths, pending'[q] # Missing
      PROVE  Aged(pending[q])'
  <2>1. PICK r : r = pending'[q]
    OBVIOUS
  <2>2. CASE r = pending[q]
    <3>1. r \in Reports /\ Aged(r)
      BY <1>2, <1>5, <2>1, <2>2 DEF AgeInv
    <3>2. Aged(r)'
      BY <1>3, <3>1
    <3> QED BY <2>1, <3>2
  <2>3. CASE q = p /\ Written(p, r)
    <3>1. writes \in Nat /\ writes' = writes + 1 /\ r.serial = writes + 1
      BY <2>3, BoundsAssumption DEF Written, TypeOK
    <3>2. ASSUME NEW n \in r.needs
          PROVE  n.serial < r.serial
      <4>1. n.serial = Serial(n.path) /\ n.path \in Paths
        BY <2>3 DEF Written, Reports
      <4>2. report[n.path] # Missing => report[n.path].serial \in Nat /\ report[n.path].serial <= writes
        BY <1>2, <4>1, BoundsAssumption DEF AgeInv, Aged, Reports
      <4> QED BY <3>1, <4>1, <4>2 DEF Serial
    <3>3. Aged(r)'
      BY <3>1, <3>2 DEF Aged
    <3> QED BY <2>1, <3>3
  <2> QED BY <1>5, <2>1, <2>2, <2>3, Origin
<1>6. ASSUME NEW q \in Paths, report'[q] # Missing
      PROVE  Aged(report[q])'
  <2>1. PICK r : r = report'[q]
    OBVIOUS
  <2>2. Aged(r)'
    BY <1>4, <1>6, <2>1
  <2> QED BY <2>1, <2>2
<1>7. ASSUME NEW q \in Paths, NEW r \in copies'[q]
      PROVE  Aged(r)'
  <2>1. r # Missing
    BY <1>1, <1>7, DirectoryAssumption DEF TypeOK
  <2> QED BY <1>4, <1>7, <2>1
<1> QED BY <1>5, <1>6, <1>7 DEF AgeInv

LEMMA FreshStep ==
  ASSUME TypeOK, AgeInv, FreshInv, NEW p \in Paths,
         Write(p) \/ Replace(p) \/ WriterDies(p) \/ Build(p)
  PROVE  FreshInv'
<1>1. \A q \in Paths : /\ report[q] \in Reports \cup {Missing} /\ pending[q] \in Reports \cup {Missing}
                       /\ copies[q] \in SUBSET Reports
                       /\ report[q] # Missing => Aged(report[q])
                       /\ pending[q] # Missing => Aged(pending[q])
                       /\ \A r \in copies[q] : Aged(r)
  BY DEF TypeOK, AgeInv
<1>2. writes \in Nat
  BY BoundsAssumption DEF TypeOK
<1>3. ASSUME NEW r \in Reports
      PROVE  r.serial \in Nat /\ r.serial # 0 /\ \A n \in r.needs : n.serial \in Nat /\ n.path \in Paths
  BY BoundsAssumption DEF Reports
<1>4. ASSUME NEW q \in Paths, NEW s, NEW other \in Paths,
             pending'[q] # Missing, s = (pending'[q]).serial
      PROVE  /\ report'[other] # Missing => Unaware(report'[other], s)
             /\ \A r \in copies'[other] : Unaware(r, s)
             /\ other # q /\ pending'[other] # Missing => Unaware(pending'[other], s)
  <2>1. CASE q = p /\ Written(p, pending'[q])
    <3>1. s = writes + 1
      BY <1>4, <2>1 DEF Written
    <3>2. \A r \in Reports : Aged(r) => Unaware(r, s)
      BY <1>2, <1>3, <3>1 DEF Aged, Unaware
    <3>3. report'[other] = report[other] /\ copies' = copies /\ (other # q => pending'[other] = pending[other])
      BY <2>1 DEF Written, TypeOK
    <3> QED BY <1>1, <3>2, <3>3
  <2>2. CASE pending'[q] = pending[q] /\ ~(q = p /\ Replace(p))
    <3>1. /\ report[other] # Missing => Unaware(report[other], s)
          /\ \A r \in copies[other] : Unaware(r, s)
          /\ other # q /\ pending[other] # Missing => Unaware(pending[other], s)
      BY <1>4, <2>2 DEF FreshInv
    <3>2. report'[other] # Missing => Unaware(report'[other], s)
      <4>1. CASE other = p /\ Replace(p) /\ report'[other] = pending[other]
        <5>1. pending[other] # Missing /\ other # q
          BY <2>2, <4>1 DEF Replace
        <5> QED BY <3>1, <4>1, <5>1
      <4> QED BY <3>1, <4>1, Origin
    <3>3. ASSUME other # q, pending'[other] # Missing
          PROVE  Unaware(pending'[other], s)
      <4>1. CASE other = p /\ Written(p, pending'[other])
        <5>1. PICK r : r = pending'[other]
          OBVIOUS
        <5>2. r \in Reports /\ r.serial = writes + 1 /\ \A n \in r.needs : n.serial = Serial(n.path)
          BY <4>1, <5>1 DEF Written
        <5>3. s \in Nat /\ s # 0 /\ s <= writes
          BY <1>1, <1>3, <1>4, <2>2 DEF Aged
        <5>4. ASSUME NEW n \in r.needs
              PROVE  n.serial # s
          <6>1. n.serial = Serial(n.path) /\ n.path \in Paths
            BY <1>3, <5>2
          <6>2. report[n.path] # Missing => Unaware(report[n.path], s)
            BY <1>4, <2>2, <6>1 DEF FreshInv
          <6> QED BY <5>3, <6>1, <6>2 DEF Serial, Unaware
        <5> QED BY <1>2, <5>1, <5>2, <5>3, <5>4 DEF Unaware
      <4> QED BY <3>1, <3>3, <4>1, Origin
    <3>4. ASSUME NEW r \in copies'[other]
          PROVE  Unaware(r, s)
      <4>1. CASE r \in copies[other]
        BY <3>1, <4>1
      <4>2. CASE other = p /\ Replace(p) /\ r = pending[other]
        <5>1. pending[other] # Missing /\ other # q
          BY <2>2, <4>2 DEF Replace
        <5> QED BY <3>1, <4>2, <5>1
      <4> QED BY <3>4, <4>1, <4>2, Origin
    <3> QED BY <3>2, <3>3, <3>4
  <2> QED BY <1>4, <2>1, <2>2, Origin
<1>5. ASSUME NEW other \in Paths, NEW q \in Paths, pending'[q] # Missing
      PROVE  /\ report'[other] # Missing => Unaware(report'[other], (pending'[q]).serial)
             /\ \A r \in copies'[other] : Unaware(r, (pending'[q]).serial)
             /\ other # q /\ pending'[other] # Missing => Unaware(pending'[other], (pending'[q]).serial)
  BY <1>4, <1>5
<1> QED BY <1>5 DEF FreshInv, Unaware

\* A reader accepts what was put in place as its writer found it: no prerequisite
\* stands on the report's own path, so its replacement changes none of them.
LEMMA ReplacedIsValid ==
  ASSUME TypeOK, TypeOK', NEW p \in Paths, Replace(p), NEW r, r = pending[p],
         r.status = "PASS", Accepted(p, r), NEW stage, stage = r.stage
  PROVE  Valid(p, stage)'
<1>1. CheckSteps /\ CheckSteps' /\ ClosedPasses'
  <2>1. NeedsOK /\ NeedsOK'
    <3>1. TypeOK' => NeedsOK'
      BY TypedNeeds, PTL
    <3> QED BY <3>1, TypedNeeds
  <2> QED BY <2>1, CheckIs, CheckIsNext, ClosedCheckNext
<1>2. /\ r \in Reports /\ r # Missing /\ report' = [report EXCEPT ![p] = r] /\ UNCHANGED evidence
      /\ report'[p] = r /\ \A q \in Paths \ {p} : report'[q] = report[q]
  BY DirectoryAssumption DEF Replace, TypeOK
<1>3. PICK visits : visits = {x \in Visits : Check[x] /\ p \in x.above}
  OBVIOUS
<1>4. ASSUME NEW x \in visits
      PROVE  /\ FileOK(x)' /\ \A n \in (report')[x.path].needs : Visit(x, n) \in visits
  <2>1. x \in Visits /\ Check[x] /\ p \in x.above /\ x.path \in Paths
    BY <1>3 DEF Visits
  <2>2. FileOK(x) /\ \A n \in report[x.path].needs : Check[Visit(x, n)]
    BY <1>1, <2>1 DEF CheckSteps
  <2>3. x.path # p
    BY <2>1, <2>2 DEF FileOK
  <2>4. report'[x.path] = report[x.path] /\ report[x.path] # Missing
    BY <1>2, <2>1, <2>2, <2>3 DEF FileOK
  <2>5. ASSUME NEW n \in report[x.path].needs
        PROVE  Visit(x, n) \in visits /\ Serial(n.path)' = Serial(n.path)
    <3>1. Visit(x, n) \in Visits
      BY <2>1, <2>4, VisitType, TypedNeeds
    <3>2. Check[Visit(x, n)] /\ p \in Visit(x, n).above /\ Visit(x, n).path = n.path
      BY <2>1, <2>2 DEF Visit
    <3>3. n.path # p /\ n.path \in Paths
      BY <1>1, <3>1, <3>2 DEF CheckSteps, FileOK, Visits
    <3>4. Serial(n.path)' = Serial(n.path)
      BY <1>2, <3>3 DEF Serial
    <3> QED BY <1>3, <3>1, <3>2, <3>4
  <2>6. FileOK(x)'
    BY <1>2, <2>2, <2>4, <2>5 DEF FileOK, OwnContentOK
  <2> QED BY <2>4, <2>5, <2>6
<1>5. \A x \in visits : Check[x]'
  <2>1. Closed(visits)'
    BY <1>4 DEF Closed
  <2>2. visits \in SUBSET Visits
    BY <1>3
  <2> QED BY <1>1, <2>1, <2>2 DEF ClosedPasses
<1>6. PICK x : x = [path |-> p, stage |-> stage, above |-> {}]
  OBVIOUS
<1>7. x \in Visits /\ x.path = p /\ x.stage = stage /\ x.above = {}
  BY <1>2, <1>6 DEF Visits, Reports
<1>8. ASSUME NEW n \in r.needs
      PROVE  n.serial # 0 /\ n.serial = Serial(n.path)' /\ Check[Visit(x, n)]'
  <2>1. PICK y : y = [path |-> n.path, stage |-> n.stage, above |-> {p}]
    OBVIOUS
  <2>2. n.serial # 0 /\ n.serial = Serial(n.path) /\ Check[y]
    BY <2>1 DEF Accepted, ValidFile, WriterAncestors
  <2>3. n.path \in Paths /\ y \in Visits
    BY <1>2, <2>1 DEF Reports, Visits
  <2>4. n.path # p
    BY <1>1, <2>1, <2>2, <2>3 DEF CheckSteps, FileOK
  <2>5. Serial(n.path)' = Serial(n.path)
    BY <1>2, <2>3, <2>4 DEF Serial
  <2>6. Visit(x, n) = y
    BY <1>7, <2>1 DEF Visit
  <2>7. y \in visits
    BY <1>3, <2>1, <2>2, <2>3
  <2> QED BY <1>5, <2>2, <2>5, <2>6, <2>7
<1>9. FileOK(x)'
  <2>1. Cardinality({}) < MaxDepth
    BY FS_EmptySet, BoundsAssumption, DirectoryAssumption
  <2> QED BY <1>2, <1>7, <1>8, <2>1 DEF FileOK, Accepted, OwnContentOK
<1>10. Check[x]'
  BY <1>1, <1>2, <1>7, <1>8, <1>9 DEF CheckSteps
<1> QED BY <1>6, <1>10 DEF Valid, ValidFile

LEMMA SettledStep ==
  ASSUME TypeOK, SettledInv, NEW p \in Paths, Write(p) \/ Replace(p) \/ WriterDies(p) \/ Build(p)
  PROVE  SettledInv'
<1>1. TypeOK'
  BY TypeStep
<1>2. ASSUME UNCHANGED <<report, evidence>>
      PROVE  /\ \A q \in Paths : \A r : Accepted(q, r)' <=> Accepted(q, r)
             /\ \A q \in Paths : \A stage : Valid(q, stage)' <=> Valid(q, stage)
  BY <1>2, SameCheck DEF Accepted, OwnContentOK, Serial, Valid, ValidFile
<1>3. ASSUME NEW q \in Paths, settled'[q], NEW now, now = pending'[q], NEW r, r = report'[q],
             NEW stage, stage = r.stage
      PROVE  /\ now # Missing /\ now.status = "PASS" => Accepted(q, now)'
             /\ now = Missing /\ r # Missing /\ r.status = "PASS" => Valid(q, stage)'
  <2>1. CASE Write(p)
    <3>1. PICK new : Written(p, new)
      BY <2>1, WriteWrites
    <3>2. UNCHANGED <<report, evidence>>
      BY <3>1 DEF Written
    <3>3. CASE q = p
      <4>1. now # Missing /\ (now.status = "PASS" => Accepted(q, now))
        BY <1>3, <3>1, <3>3, DirectoryAssumption DEF Written, TypeOK
      <4> QED BY <1>2, <3>2, <4>1
    <3>4. CASE q # p
      <4>1. settled[q] /\ now = pending[q] /\ r = report[q]
        BY <1>3, <3>1, <3>4 DEF Written, TypeOK
      <4> QED BY <1>2, <1>3, <3>2, <4>1 DEF SettledInv
    <3> QED BY <3>3, <3>4
  <2>2. CASE Replace(p)
    <3>1. q = p /\ settled[p]
      BY <1>3, <2>2 DEF Replace, Others
    <3>2. now = Missing /\ r = pending[p] /\ pending[p] # Missing
      BY <1>3, <2>2, <3>1 DEF Replace, TypeOK
    <3>3. ASSUME r.status = "PASS"
          PROVE  Valid(q, stage)'
      <4>1. Accepted(p, r)
        BY <3>1, <3>2, <3>3 DEF SettledInv
      <4> QED BY <1>1, <1>3, <2>2, <3>1, <3>2, <3>3, <4>1, ReplacedIsValid
    <3> QED BY <3>2, <3>3
  <2>3. CASE WriterDies(p)
    <3>1. q # p
      BY <1>3, <2>3 DEF WriterDies, TypeOK
    <3>2. settled[q] /\ now = pending[q] /\ r = report[q] /\ UNCHANGED <<report, evidence>>
      BY <1>3, <2>3, <3>1 DEF WriterDies, TypeOK
    <3> QED BY <1>2, <1>3, <3>2 DEF SettledInv
  <2>4. CASE Build(p)
    BY <1>3, <2>4 DEF Build, Unsettled
  <2> QED BY <2>1, <2>2, <2>3, <2>4
<1>4. ASSUME NEW q \in Paths, settled'[q]
      PROVE  /\ pending'[q] # Missing /\ (pending'[q]).status = "PASS" => Accepted(q, pending[q])'
             /\ pending'[q] = Missing /\ report'[q] # Missing /\ (report'[q]).status = "PASS"
                  => Valid(q, report[q].stage)'
  <2>1. PICK now : now = pending'[q]
    OBVIOUS
  <2>2. PICK r : r = report'[q]
    OBVIOUS
  <2>3. PICK stage : stage = r.stage
    OBVIOUS
  <2>4. /\ now # Missing /\ now.status = "PASS" => Accepted(q, now)'
        /\ now = Missing /\ r # Missing /\ r.status = "PASS" => Valid(q, stage)'
    BY <1>3, <1>4, <2>1, <2>2, <2>3
  <2> QED BY <2>1, <2>2, <2>3, <2>4
<1> QED BY <1>4 DEF SettledInv

LEMMA NextInv == Inv /\ [Next]_vars => Inv'
<1> SUFFICES ASSUME Inv, [Next]_vars
    PROVE  Inv'
  OBVIOUS
<1>1. CASE Next
  <2>1. PICK p \in Paths : Write(p) \/ Replace(p) \/ WriterDies(p) \/ Build(p)
    BY <1>1 DEF Next
  <2> QED BY <2>1, TypeStep, AgeStep, FreshStep, SettledStep DEF Inv
<1>2. CASE UNCHANGED vars
  <2>1. UNCHANGED <<evidence, report, copies, pending, writes, builds, settled>>
    BY <1>2 DEF vars
  <2>2. TypeOK'
    BY <2>1 DEF Inv, TypeOK
  <2>3. AgeInv'
    BY <2>1 DEF Inv, AgeInv, Aged
  <2>4. FreshInv'
    BY <2>1 DEF Inv, FreshInv
  <2>5. SettledInv'
    BY <2>1, SameCheck DEF Inv, SettledInv, Accepted, OwnContentOK, Serial, Valid, ValidFile
  <2> QED BY <2>2, <2>3, <2>4, <2>5 DEF Inv
<1> QED BY <1>1, <1>2

LEMMA AlwaysInv == Spec => []Inv
BY InitInv, NextInv, PTL DEF Spec

\* write_report, validate_report: every file holds a whole report or none, and every
\* report a serial number that was given out.
THEOREM StageTypeOK == Spec => []TypeOK
<1>1. Inv => TypeOK
  BY DEF Inv
<1> QED BY <1>1, AlwaysInv, PTL

--------------------------------------------------------------------------------
(* Chains of reports.                                                      *)

Ahead(c, i) == {c[j] : j \in 1 .. i - 1}

LEMMA NextAhead ==
  ASSUME NEW i \in Nat \ {0}, NEW c
  PROVE  Ahead(c, i + 1) = Ahead(c, i) \cup {c[i]}
<1>1. 1 .. (i + 1) - 1 = (1 .. i - 1) \cup {i}
  OBVIOUS
<1> QED BY <1>1 DEF Ahead

\* The check went along the chain as far as its i-th file.
Passed(c, i) ==
    /\ \E stage \in Stages : Check[[path |-> c[i], stage |-> stage, above |-> Ahead(c, i)]]
    /\ IsFiniteSet(Ahead(c, i)) /\ Cardinality(Ahead(c, i)) = i - 1
    /\ i = 1 \/ report[c[i]].serial < report[c[1]].serial

\* What a visit that passes says of its file.
LEMMA PassedFile ==
  ASSUME TypeOK, NEW q \in Paths, NEW stage \in Stages, NEW above \in SUBSET Paths,
         Check[[path |-> q, stage |-> stage, above |-> above]]
  PROVE  /\ q \notin above /\ Cardinality(above) < MaxDepth
         /\ report[q] \in Reports /\ report[q] # Missing /\ report[q].status = "PASS" /\ report[q].stage = stage
         /\ OwnContentOK(report[q], q) /\ NoDuplicates(report[q])
<1>1. CheckSteps
  BY TypedNeeds, CheckIs
<1>2. PICK x : x = [path |-> q, stage |-> stage, above |-> above]
  OBVIOUS
<1>3. x \in Visits /\ x.path = q /\ x.stage = stage /\ x.above = above
  BY <1>2 DEF Visits
<1>4. FileOK(x)
  BY <1>1, <1>2, <1>3 DEF CheckSteps
<1> QED BY <1>3, <1>4 DEF FileOK, TypeOK

\* And of its prerequisites.
LEMMA PassedNeed ==
  ASSUME TypeOK, AgeInv, NEW q \in Paths, NEW stage \in Stages, NEW above \in SUBSET Paths,
         Check[[path |-> q, stage |-> stage, above |-> above]], NEW n \in report[q].needs
  PROVE  /\ n.path \in Paths /\ n.stage \in Stages
         /\ Check[[path |-> n.path, stage |-> n.stage, above |-> above \cup {q}]]
         /\ report[n.path] # Missing /\ n.serial = report[n.path].serial /\ n.stage = report[n.path].stage
         /\ report[n.path].serial < report[q].serial
<1>1. CheckSteps
  BY TypedNeeds, CheckIs
<1>2. PICK x : x = [path |-> q, stage |-> stage, above |-> above]
  OBVIOUS
<1>3. x \in Visits /\ x.path = q /\ x.above = above
  BY <1>2 DEF Visits
<1>4. FileOK(x) /\ Check[Visit(x, n)]
  BY <1>1, <1>2, <1>3 DEF CheckSteps
<1>5. report[q] # Missing /\ n.serial # 0 /\ n.serial = Serial(n.path)
  BY <1>3, <1>4 DEF FileOK
<1>6. n.path \in Paths /\ n.stage \in Stages
  BY <1>5, TypedNeeds DEF NeedsOK
<1>7. PICK y : y = [path |-> n.path, stage |-> n.stage, above |-> above \cup {q}]
  OBVIOUS
<1>8. y \in Visits /\ y.path = n.path /\ y.stage = n.stage /\ Check[y]
  BY <1>3, <1>4, <1>6, <1>7 DEF Visits, Visit
<1>9. FileOK(y)
  BY <1>1, <1>8 DEF CheckSteps
<1>10. report[n.path] # Missing /\ report[n.path].stage = n.stage
  BY <1>8, <1>9 DEF FileOK
<1>11. n.serial = report[n.path].serial /\ n.serial < report[q].serial
  BY <1>5, <1>10 DEF Serial, AgeInv, Aged
<1> QED BY <1>6, <1>7, <1>8, <1>10, <1>11

LEMMA ChainPasses ==
  ASSUME TypeOK, AgeInv, NEW p \in Paths, NEW stage \in Stages, Valid(p, stage),
         NEW k \in Nat \ {0}, NEW c \in Chains(k), c[1] = p, NEW i \in 1 .. k
  PROVE  Passed(c, i)
<1> DEFINE S == {j \in 1 .. k : ~Passed(c, j)}
<1>1. c \in [1 .. k -> Paths] /\ \A j \in 1 .. k - 1 : Edge(c[j], c[j + 1])
  BY DEF Chains
<1>2. Passed(c, 1)
  <2>1. Ahead(c, 1) = {}
    BY DEF Ahead
  <2> QED BY <2>1, FS_EmptySet DEF Passed, Valid, ValidFile
<1>3. ASSUME NEW j \in 1 .. k - 1, Passed(c, j)
      PROVE  Passed(c, j + 1)
  <2>1. PICK t \in Stages : Check[[path |-> c[j], stage |-> t, above |-> Ahead(c, j)]]
    BY <1>3 DEF Passed
  <2>2. c[j] \in Paths /\ c[j + 1] \in Paths /\ Ahead(c, j) \in SUBSET Paths
    BY <1>1 DEF Ahead
  <2>3. PICK n \in report[c[j]].needs : n.path = c[j + 1]
    BY <1>1 DEF Edge
  <2>4. /\ c[j] \notin Ahead(c, j) /\ n.stage \in Stages
        /\ Check[[path |-> c[j + 1], stage |-> n.stage, above |-> Ahead(c, j) \cup {c[j]}]]
        /\ report[c[j + 1]].serial < report[c[j]].serial
        /\ report[c[j]].serial \in Nat
        /\ report[c[j + 1]] # Missing
    <3>1. c[j] \notin Ahead(c, j) /\ report[c[j]] \in Reports
      BY <2>1, <2>2, PassedFile
    <3>2. /\ n.stage \in Stages
          /\ Check[[path |-> n.path, stage |-> n.stage, above |-> Ahead(c, j) \cup {c[j]}]]
          /\ report[n.path] # Missing /\ report[n.path].serial < report[c[j]].serial
      BY <2>1, <2>2, <2>3, PassedNeed
    <3>3. report[c[j]].serial \in Nat
      BY <3>1, BoundsAssumption DEF Reports
    <3> QED BY <2>3, <3>1, <3>2, <3>3
  <2>5. Ahead(c, j + 1) = Ahead(c, j) \cup {c[j]}
    BY NextAhead
  <2>6. IsFiniteSet(Ahead(c, j + 1)) /\ Cardinality(Ahead(c, j + 1)) = j
    <3>1. PICK above : above = Ahead(c, j)
      OBVIOUS
    <3>2. IsFiniteSet(above) /\ Cardinality(above) = j - 1 /\ c[j] \notin above
      BY <1>3, <2>4, <3>1 DEF Passed
    <3>3. IsFiniteSet(above \cup {c[j]}) /\ Cardinality(above \cup {c[j]}) = Cardinality(above) + 1
      BY <3>2, FS_AddElement, Zenon
    <3>4. (j - 1) + 1 = j
      OBVIOUS
    <3> QED BY <2>5, <3>1, <3>2, <3>3, <3>4
  <2>7. report[c[j + 1]].serial < report[c[1]].serial
    <3>1. report[c[j + 1]].serial \in Nat /\ report[c[1]].serial \in Nat
      <4>1. report[c[1]] # Missing
        BY <1>1, PassedFile DEF Valid, ValidFile
      <4> QED BY <1>1, <2>2, <2>4, <4>1, BoundsAssumption DEF TypeOK, Reports
    <3> QED BY <1>3, <2>4, <3>1 DEF Passed
  <2>8. (j + 1) - 1 = j
    OBVIOUS
  <2>9. PICK m : m = j + 1
    OBVIOUS
  <2>10. /\ Check[[path |-> c[m], stage |-> n.stage, above |-> Ahead(c, m)]] /\ n.stage \in Stages
         /\ IsFiniteSet(Ahead(c, m)) /\ Cardinality(Ahead(c, m)) = m - 1
         /\ report[c[m]].serial < report[c[1]].serial
    BY <2>4, <2>5, <2>6, <2>7, <2>8, <2>9
  <2>11. Passed(c, m)
    BY <2>10, Zenon DEF Passed
  <2> QED BY <2>9, <2>11
<1>4. SUFFICES ASSUME S # {}
      PROVE  FALSE
  OBVIOUS
<1>5. PICK j \in S : \A m \in S : j <= m
  <2> HIDE DEF S
  <2>1. S \in SUBSET Nat
    BY DEF S
  <2> QED BY <1>4, <2>1, LeastExists
<1>6. j # 1 /\ j - 1 \in 1 .. k - 1 /\ Passed(c, j - 1)
  BY <1>2, <1>5
<1>7. Passed(c, (j - 1) + 1)
  BY <1>3, <1>6
<1> QED BY <1>5, <1>7

LEMMA BelowIs ==
  \A p \in Paths : \A q : q \in Below(p) <=>
      \E k \in 1 .. Cardinality(Paths) : \E c \in Chains(k) : c[1] = p /\ c[k] = q
BY DEF Below

LEMMA BelowPaths == \A p \in Paths : Below(p) \in SUBSET Paths
<1> SUFFICES ASSUME NEW p \in Paths, NEW q \in Below(p)
    PROVE  q \in Paths
  OBVIOUS
<1>1. PICK k \in 1 .. Cardinality(Paths) : \E c \in Chains(k) : c[1] = p /\ c[k] = q
  BY BelowIs
<1> QED BY <1>1, DirectoryAssumption, FS_CardinalityType DEF Chains

\* Of an accepted report, every report below was looked at, from some ancestors.
LEMMA BelowPasses ==
  ASSUME TypeOK, AgeInv, NEW p \in Paths, NEW stage \in Stages, Valid(p, stage), NEW q \in Below(p)
  PROVE  /\ \E t \in Stages, above \in SUBSET Paths : Check[[path |-> q, stage |-> t, above |-> above]]
         /\ q = p \/ report[q].serial < report[p].serial
<1>0. PICK k \in 1 .. Cardinality(Paths) : \E c \in Chains(k) : c[1] = p /\ c[k] = q
  BY BelowIs
<1>1. PICK c \in Chains(k) : c[1] = p /\ c[k] = q
  BY <1>0
<1>2. k \in Nat \ {0} /\ k \in 1 .. k
  BY DirectoryAssumption, FS_CardinalityType
<1>3. Passed(c, k)
  BY <1>1, <1>2, ChainPasses
<1>4. Ahead(c, k) \in SUBSET Paths
  BY <1>1, <1>2 DEF Ahead, Chains
<1> QED BY <1>1, <1>3, <1>4 DEF Passed

LEMMA ValidIsSound ==
  ASSUME TypeOK, AgeInv, NEW p \in Paths, NEW stage \in Stages, Valid(p, stage)
  PROVE  Sound(p, stage)
<1>1. report[p] # Missing /\ report[p].stage = stage
  BY PassedFile DEF Valid, ValidFile
<1>2. ASSUME NEW q \in Below(p)
      PROVE  /\ report[q] # Missing
             /\ report[q].status = "PASS" /\ report[q].good
             /\ evidence[q] # Missing /\ report[q].evidence = evidence[q]
             /\ \A m, n \in report[q].needs : m # n => StageId(m.stage) # StageId(n.stage)
             /\ \A n \in report[q].needs :
                  report[n.path] # Missing /\ n.serial = report[n.path].serial /\ n.stage = report[n.path].stage
  <2>1. PICK t \in Stages, above \in SUBSET Paths : Check[[path |-> q, stage |-> t, above |-> above]]
    BY BelowPasses
  <2>2. q \in Paths
    BY BelowPaths
  <2>3. PICK r : r = report[q]
    OBVIOUS
  <2>4. /\ r # Missing /\ r.status = "PASS" /\ OwnContentOK(r, q) /\ NoDuplicates(r)
        /\ \A n \in r.needs :
             report[n.path] # Missing /\ n.serial = report[n.path].serial /\ n.stage = report[n.path].stage
    <3>1. report[q] # Missing /\ report[q].status = "PASS" /\ OwnContentOK(report[q], q) /\ NoDuplicates(report[q])
      BY <2>1, <2>2, PassedFile
    <3>2. ASSUME NEW n \in report[q].needs
          PROVE  report[n.path] # Missing /\ n.serial = report[n.path].serial /\ n.stage = report[n.path].stage
      BY <2>1, <2>2, <3>2, PassedNeed
    <3> QED BY <2>3, <3>1, <3>2
  <2>5. r.good /\ evidence[q] # Missing /\ r.evidence = evidence[q]
    BY <2>4 DEF OwnContentOK
  <2>6. \A m, n \in r.needs : m # n => StageId(m.stage) # StageId(n.stage)
    BY <2>4 DEF NoDuplicates
  <2> QED BY <2>3, <2>4, <2>5, <2>6
<1>3. ASSUME NEW c \in Chains(MaxDepth + 1), c[1] = p
      PROVE  FALSE
  <2>1. PICK k : k = MaxDepth + 1
    OBVIOUS
  <2>2. k \in Nat \ {0} /\ k \in 1 .. k /\ k - 1 = MaxDepth /\ MaxDepth \in Nat
    BY <2>1, BoundsAssumption
  <2>3. Passed(c, k)
    BY <1>3, <2>1, <2>2, ChainPasses
  <2>4. Ahead(c, k) \in SUBSET Paths /\ c[k] \in Paths
    BY <2>1, <2>2 DEF Ahead, Chains
  <2>5. Cardinality(Ahead(c, k)) < MaxDepth
    BY <2>3, <2>4, PassedFile DEF Passed
  <2> QED BY <2>2, <2>3, <2>5 DEF Passed
<1> QED BY <1>1, <1>2, <1>3 DEF Sound

\* A chain that the check could take from p, with older and older reports.
Descent(p, k, c) ==
    /\ c \in Chains(k) /\ c[1] = p
    /\ IsFiniteSet(Ahead(c, k)) /\ Cardinality(Ahead(c, k)) = k - 1
    /\ \A j \in 1 .. k - 1 : report[c[k]].serial < report[c[j]].serial

Descends(p, k, c, x) ==
    /\ Descent(p, k, c)
    /\ x.path = c[k] /\ x.above = Ahead(c, k)
    /\ report[x.path] # Missing /\ x.stage = report[x.path].stage

LEMMA DescentBelow ==
  ASSUME TypeOK, NEW p \in Paths, NEW k \in Nat \ {0}, NEW c, Descent(p, k, c), report[c[k]] # Missing
  PROVE  c[k] \in Below(p) /\ c[k] \in Paths /\ c[k] \notin Ahead(c, k) /\ Ahead(c, k) \in SUBSET Paths
<1>1. c \in [1 .. k -> Paths] /\ c \in Chains(k) /\ c[1] = p
  BY DEF Descent, Chains
<1>2. c[k] \in Paths /\ Ahead(c, k) \in SUBSET Paths
  BY <1>1 DEF Ahead
<1>3. c[k] \notin Ahead(c, k)
  <2>1. report[c[k]].serial \in Nat
    BY <1>2, BoundsAssumption DEF TypeOK, Reports
  <2>2. \A j \in 1 .. k - 1 : c[j] # c[k]
    BY <2>1 DEF Descent
  <2> QED BY <2>2 DEF Ahead
<1>4. k <= Cardinality(Paths) /\ Cardinality(Paths) \in Nat
  <2>1. PICK above : above = Ahead(c, k) \cup {c[k]}
    OBVIOUS
  <2>2. Cardinality(above) = Cardinality(Ahead(c, k)) + 1
    BY <1>3, <2>1, FS_AddElement DEF Descent
  <2>3. Cardinality(above) = k
    BY <2>2 DEF Descent
  <2>4. above \in SUBSET Paths
    BY <1>2, <2>1
  <2>5. Cardinality(above) <= Cardinality(Paths) /\ Cardinality(Paths) \in Nat
    BY <2>4, DirectoryAssumption, FS_Subset, FS_CardinalityType
  <2> QED BY <2>3, <2>5
<1>5. k \in 1 .. Cardinality(Paths)
  BY <1>4
<1>6. c[k] \in Below(p)
  BY <1>1, <1>2, <1>5, BelowIs
<1> QED BY <1>2, <1>3, <1>6

LEMMA SoundIsValid ==
  ASSUME TypeOK, AgeInv, NEW p \in Paths, NEW stage \in Stages, Sound(p, stage)
  PROVE  Valid(p, stage)
<1>1. ClosedPasses
  BY TypedNeeds, ClosedCheck
<1>2. MaxDepth \in Nat \ {0}
  BY BoundsAssumption, DirectoryAssumption
<1>3. PICK visits : visits = {x \in Visits : \E k \in 1 .. MaxDepth : \E c : Descends(p, k, c, x)}
  OBVIOUS
<1>4. ASSUME NEW x \in visits
      PROVE  FileOK(x) /\ \A n \in report[x.path].needs : Visit(x, n) \in visits
  <2>1. PICK k \in 1 .. MaxDepth : \E c : Descends(p, k, c, x)
    BY <1>3
  <2>2. PICK c : Descends(p, k, c, x)
    BY <2>1
  <2>3. k \in Nat \ {0} /\ k < MaxDepth + 1
    BY <1>2
  <2>4. PICK q : q = x.path
    OBVIOUS
  <2>5. Descent(p, k, c) /\ q = c[k] /\ x.above = Ahead(c, k) /\ report[q] # Missing /\ x.stage = report[q].stage
    BY <2>2, <2>4 DEF Descends
  <2>6. q \in Below(p) /\ q \in Paths /\ q \notin Ahead(c, k) /\ Ahead(c, k) \in SUBSET Paths
    BY <2>3, <2>5, DescentBelow
  <2>7. PICK r : r = report[q]
    OBVIOUS
  <2>8. /\ r.status = "PASS" /\ r.good
        /\ evidence[q] # Missing /\ r.evidence = evidence[q]
        /\ \A m, n \in r.needs : m # n => StageId(m.stage) # StageId(n.stage)
        /\ \A n \in r.needs :
             report[n.path] # Missing /\ n.serial = report[n.path].serial /\ n.stage = report[n.path].stage
    BY <2>6, <2>7 DEF Sound
  <2>9. /\ r \in Reports
        /\ \A n \in r.needs : n.path \in Paths /\ n.stage \in Stages /\ n.serial < r.serial
    BY <2>5, <2>6, <2>7, BoundsAssumption DEF TypeOK, Reports, AgeInv, Aged
  <2>10. \A n \in r.needs : n.serial # 0 /\ n.serial = Serial(n.path)
    BY <2>8, <2>9, BoundsAssumption DEF TypeOK, Reports, Serial
  <2>11. FileOK(x)
    <3>1. Cardinality(x.above) < MaxDepth
      <4>1. Cardinality(x.above) = k - 1
        BY <2>5 DEF Descent
      <4>2. k - 1 < MaxDepth
        BY <1>2
      <4> QED BY <4>1, <4>2
    <3>2. OwnContentOK(r, q) /\ NoDuplicates(r)
      BY <2>8 DEF OwnContentOK, NoDuplicates
    <3> QED BY <2>4, <2>5, <2>6, <2>7, <2>8, <2>10, <3>1, <3>2 DEF FileOK
  <2>12. ASSUME NEW n \in r.needs
         PROVE  Visit(x, n) \in visits
    <3>1. PICK m \in Nat : m = k + 1
      BY <2>3
    <3>2. PICK d : d = [i \in 1 .. m |-> IF i = m THEN n.path ELSE c[i]]
      OBVIOUS
    <3>3. c \in [1 .. k -> Paths] /\ \A i \in 1 .. k - 1 : Edge(c[i], c[i + 1])
      BY <2>5 DEF Descent, Chains
    <3>4. n.path \in Paths /\ Edge(q, n.path)
      BY <2>5, <2>7, <2>9 DEF Edge
    <3>5. d \in [1 .. m -> Paths] /\ d[m] = n.path /\ \A i \in 1 .. k : d[i] = c[i]
      BY <2>3, <3>1, <3>2, <3>3, <3>4
    <3>6. ASSUME NEW i \in 1 .. m - 1
          PROVE  Edge(d[i], d[i + 1])
      <4>1. CASE i = k
        BY <2>3, <2>5, <3>1, <3>4, <3>5, <4>1
      <4>2. CASE i # k
        <5>1. i \in 1 .. k - 1 /\ i + 1 \in 1 .. k /\ i \in 1 .. k
          BY <2>3, <3>1, <4>2
        <5> QED BY <3>3, <3>5, <5>1
      <4> QED BY <4>1, <4>2
    <3>7. d \in Chains(m) /\ d[1] = p
      <4>1. d[1] = p
        BY <2>3, <2>5, <3>5 DEF Descent
      <4> QED BY <3>5, <3>6, <4>1 DEF Chains
    <3>8. m \in 1 .. MaxDepth
      <4>1. m # MaxDepth + 1
        BY <3>7 DEF Sound
      <4> QED BY <1>2, <2>3, <3>1, <4>1
    <3>9. Ahead(d, m) = Ahead(c, k) \cup {q}
      <4>1. Ahead(d, m) = Ahead(d, k) \cup {d[k]}
        BY <2>3, <3>1, NextAhead
      <4>2. Ahead(d, k) = Ahead(c, k)
        <5>1. \A i \in 1 .. k - 1 : d[i] = c[i]
          BY <2>3, <3>5
        <5> QED BY <5>1 DEF Ahead
      <4>3. d[k] = q
        BY <2>3, <2>5, <3>5
      <4> QED BY <4>1, <4>2, <4>3
    <3>10. IsFiniteSet(Ahead(d, m)) /\ Cardinality(Ahead(d, m)) = m - 1
      <4>1. IsFiniteSet(Ahead(c, k)) /\ Cardinality(Ahead(c, k)) = k - 1
        BY <2>5 DEF Descent
      <4>2. /\ IsFiniteSet(Ahead(c, k) \cup {q})
            /\ Cardinality(Ahead(c, k) \cup {q}) = Cardinality(Ahead(c, k)) + 1
        BY <2>6, <4>1, FS_AddElement
      <4>3. (k - 1) + 1 = m - 1
        BY <2>3, <3>1
      <4> QED BY <3>9, <4>1, <4>2, <4>3
    <3>11. report[n.path] # Missing /\ n.stage = report[n.path].stage /\ report[n.path].serial < r.serial
      BY <2>8, <2>9
    <3>12. ASSUME NEW j \in 1 .. m - 1
           PROVE  report[d[m]].serial < report[d[j]].serial
      <4>1. report[d[m]].serial \in Nat /\ r.serial \in Nat
        BY <2>9, <3>4, <3>5, <3>11, BoundsAssumption DEF TypeOK, Reports
      <4>2. CASE j = k
        BY <2>3, <2>5, <2>7, <3>5, <3>11, <4>2
      <4>3. CASE j # k
        <5>1. j \in 1 .. k - 1 /\ j \in 1 .. k
          BY <2>3, <3>1, <4>3
        <5>2. r.serial < report[d[j]].serial
          BY <2>5, <2>7, <3>5, <5>1 DEF Descent
        <5>3. report[d[j]].serial \in Nat
          <6>1. d[j] \in Paths /\ Edge(d[j], d[j + 1])
            BY <2>3, <3>1, <3>5, <3>6, <5>1
          <6> QED BY <6>1, BoundsAssumption DEF Edge, TypeOK, Reports
        <5> QED BY <3>5, <3>11, <4>1, <5>2, <5>3
      <4> QED BY <4>2, <4>3
    <3>13. PICK y : y = Visit(x, n)
      OBVIOUS
    <3>14. y.path = n.path /\ y.stage = n.stage /\ y.above = Ahead(d, m)
      BY <2>4, <2>5, <3>9, <3>13 DEF Visit
    <3>15. y \in Visits
      BY <2>4, <2>5, <2>6, <2>9, <3>13 DEF Visits, Visit
    <3>16. Descends(p, m, d, y)
      BY <3>5, <3>7, <3>10, <3>11, <3>12, <3>14 DEF Descends, Descent
    <3> QED BY <1>3, <3>8, <3>13, <3>15, <3>16
  <2> QED BY <2>4, <2>7, <2>11, <2>12
<1>5. PICK x : x = [path |-> p, stage |-> stage, above |-> {}]
  OBVIOUS
<1>6. x \in visits
  <2>1. PICK c : c = [i \in 1 .. 1 |-> p]
    OBVIOUS
  <2>2. c \in Chains(1) /\ c[1] = p
    BY <2>1 DEF Chains
  <2>3. Ahead(c, 1) = {}
    BY DEF Ahead
  <2>4. Descent(p, 1, c)
    BY <2>2, <2>3, FS_EmptySet DEF Descent
  <2>5. Descends(p, 1, c, x)
    BY <1>5, <2>2, <2>3, <2>4 DEF Descends, Sound
  <2>6. x \in Visits /\ 1 \in 1 .. MaxDepth
    BY <1>2, <1>5 DEF Visits
  <2> QED BY <1>3, <2>5, <2>6
<1>7. Closed(visits) /\ visits \in SUBSET Visits
  BY <1>3, <1>4 DEF Closed
<1> QED BY <1>1, <1>5, <1>6, <1>7 DEF ClosedPasses, Valid, ValidFile

--------------------------------------------------------------------------------
(* The properties.                                                         *)

\* validate_report accepts a report if and only if everything it stands on is sound, and
\* what write_report called a PASS when nothing has changed since.
THEOREM AcceptedIsSound == Spec => []AcceptsTheSound
<1>1. ASSUME Inv
      PROVE  AcceptsTheSound
  <2>1. \A p \in Paths, stage \in Stages : Valid(p, stage) <=> Sound(p, stage)
    BY <1>1, ValidIsSound, SoundIsValid DEF Inv
  <2>2. WriterAgreesWithReader
    BY <1>1 DEF Inv, SettledInv, WriterAgreesWithReader
  <2> QED BY <2>1, <2>2 DEF AcceptsTheSound
<1>2. Inv => AcceptsTheSound
  BY <1>1
<1> QED BY <1>2, AlwaysInv, PTL

\* validate_report: whatever an accepted report stands on was written before it.
THEOREM AcceptedIsNewest == Spec => []PassIsNewest
<1>1. ASSUME Inv, NEW p \in Paths, report[p] # Missing, Valid(p, report[p].stage), NEW q \in Below(p) \ {p}
      PROVE  report[q].serial < report[p].serial
  <2>1. report[p].stage \in Stages
    BY <1>1 DEF Inv, TypeOK, Reports
  <2> QED BY <1>1, <2>1, BelowPasses DEF Inv
<1>2. Inv => PassIsNewest
  BY <1>1 DEF PassIsNewest
<1> QED BY <1>2, AlwaysInv, PTL

\* Below an accepted report are the report and the prerequisites of what is below it.
BelowClosed ==
    \A p \in Paths, stage \in Stages : Valid(p, stage) =>
        /\ p \in Below(p)
        /\ \A q \in Below(p) : \A n \in report[q].needs : n.path \in Below(p)

LEMMA BelowIsClosed == TypeOK /\ AgeInv => BelowClosed
<1> SUFFICES ASSUME TypeOK, AgeInv, NEW p \in Paths, NEW stage \in Stages, Valid(p, stage)
    PROVE  p \in Below(p) /\ \A q \in Below(p) : \A n \in report[q].needs : n.path \in Below(p)
  BY DEF BelowClosed
<1>1. Cardinality(Paths) \in Nat /\ IsFiniteSet(Paths)
  BY DirectoryAssumption, FS_CardinalityType
<1>2. p \in Below(p)
  <2>1. PICK c : c = [i \in 1 .. 1 |-> p]
    OBVIOUS
  <2>2. c \in Chains(1) /\ c[1] = p
    BY <2>1 DEF Chains
  <2>3. Cardinality(Paths) # 0
    BY <1>1, FS_EmptySet
  <2>4. 1 \in 1 .. Cardinality(Paths)
    BY <1>1, <2>3
  <2> QED BY <2>2, <2>4, BelowIs
<1>3. ASSUME NEW q \in Below(p), NEW n \in report[q].needs
      PROVE  n.path \in Below(p)
  <2>1. PICK k \in 1 .. Cardinality(Paths) : \E c \in Chains(k) : c[1] = p /\ c[k] = q
    BY BelowIs
  <2>2. PICK c \in Chains(k) : c[1] = p /\ c[k] = q
    BY <2>1
  <2>3. PICK m \in Nat : m = k + 1
    BY <1>1
  <2>4. PICK t \in Stages, above \in SUBSET Paths : Check[[path |-> q, stage |-> t, above |-> above]]
    BY BelowPasses
  <2>5. q \in Paths /\ n.path \in Paths /\ Edge(q, n.path)
    <3>1. q \in Paths
      BY BelowPaths
    <3>2. report[q] # Missing /\ n.path \in Paths
      BY <2>4, <3>1, PassedFile, PassedNeed
    <3> QED BY <3>1, <3>2 DEF Edge
  <2>6. PICK d : d = [i \in 1 .. m |-> IF i = m THEN n.path ELSE c[i]]
    OBVIOUS
  <2>7. k \in Nat \ {0} /\ m \in Nat \ {0} /\ k = m - 1 /\ m \in 1 .. m
    BY <1>1, <2>3
  <2>8. c \in [1 .. k -> Paths] /\ \A i \in 1 .. k - 1 : Edge(c[i], c[i + 1])
    BY <2>2 DEF Chains
  <2>9. d \in [1 .. m -> Paths] /\ d[m] = n.path /\ \A i \in 1 .. k : d[i] = c[i]
    BY <2>3, <2>5, <2>6, <2>7, <2>8
  <2>10. ASSUME NEW i \in 1 .. m - 1
         PROVE  Edge(d[i], d[i + 1])
    <3>1. CASE i = k
      <4>1. d[i] = q /\ d[i + 1] = n.path
        BY <2>2, <2>3, <2>7, <2>9, <3>1
      <4> QED BY <2>5, <4>1
    <3>2. CASE i # k
      <4>1. i \in 1 .. k - 1 /\ i + 1 \in 1 .. k /\ i \in 1 .. k
        BY <2>7, <3>2
      <4> QED BY <2>8, <2>9, <4>1
    <3> QED BY <3>1, <3>2
  <2>11. d \in Chains(m) /\ d[1] = p
    <3>1. d[1] = p
      BY <2>2, <2>7, <2>9
    <3> QED BY <2>9, <2>10, <3>1 DEF Chains
  <2>12. m <= Cardinality(Paths)
    <3>1. Passed(d, m)
      BY <2>7, <2>11, ChainPasses
    <3>2. PICK ahead : ahead = Ahead(d, m)
      OBVIOUS
    <3>3. PICK s \in Stages : Check[[path |-> d[m], stage |-> s, above |-> ahead]]
      BY <3>1, <3>2 DEF Passed
    <3>4. IsFiniteSet(ahead) /\ Cardinality(ahead) = m - 1 /\ ahead \in SUBSET Paths /\ d[m] \in Paths
      BY <2>7, <2>9, <3>1, <3>2 DEF Passed, Ahead
    <3>5. d[m] \notin ahead
      BY <3>3, <3>4, PassedFile
    <3>6. PICK all : all = ahead \cup {d[m]}
      OBVIOUS
    <3>7. Cardinality(all) = Cardinality(ahead) + 1
      BY <3>4, <3>5, <3>6, FS_AddElement
    <3>8. all \in SUBSET Paths
      BY <3>4, <3>6
    <3>9. Cardinality(all) <= Cardinality(Paths)
      BY <1>1, <3>8, FS_Subset
    <3>10. Cardinality(all) = m
      BY <2>7, <3>4, <3>7
    <3> QED BY <3>9, <3>10
  <2>13. m \in 1 .. Cardinality(Paths)
    BY <1>1, <2>7, <2>12
  <2> QED BY <2>9, <2>11, <2>13, BelowIs
<1> QED BY <1>2, <1>3

LEMMA BelowIsClosedNext == TypeOK' /\ AgeInv' => BelowClosed'
BY BelowIsClosed, PTL

\* What a step leaves of a report that is accepted after it, if it puts nothing back: the files of
\* its prerequisites, of which none was put in place only now.
LEMMA StepKeeps ==
  ASSUME TypeOK, FreshInv, NEW p \in Paths,
         Write(p) \/ Replace(p) \/ WriterDies(p) \/ Build(p),
         NEW q \in Paths, NEW r, r = report[q], report'[q] = r, r # Missing,
         NEW n \in r.needs, n.serial # 0, n.serial = Serial(n.path)', ~PutBack(n.path)
  PROVE  report'[n.path] = report[n.path]
<1>1. r \in Reports /\ n.path \in Paths
  BY DEF TypeOK, Reports
<1>2. CASE report'[n.path] = Missing
  BY <1>2 DEF Serial
<1>3. CASE n.path = p /\ Replace(p) /\ report'[n.path] = pending[n.path] /\ report'[n.path] # Missing
  <2>1. n.serial = pending[p].serial /\ pending[p] # Missing
    BY <1>3 DEF Serial
  <2> QED BY <2>1 DEF FreshInv, Unaware
<1>4. CASE report'[n.path] \in copies[n.path]
  BY <1>4 DEF PutBack
<1> QED BY <1>1, <1>2, <1>3, <1>4, Origin

LEMMA ValidWasValid ==
  ASSUME Inv, NEW p \in Paths, Write(p) \/ Replace(p) \/ WriterDies(p) \/ Build(p),
         NEW q \in Paths, NEW r, r = report[q], report'[q] = r, r # Missing,
         NEW stage, stage = r.stage, Valid(q, stage)',
         NEW below, below = Below(q)', \A w \in below : ~PutBack(w)
  PROVE  Valid(q, stage)
<1>1. CheckSteps' /\ ClosedPasses /\ TypeOK /\ NeedsOK' /\ BelowClosed' /\ stage \in Stages
  <2>1. TypeOK' => NeedsOK'
    BY TypedNeeds, PTL
  <2>2. TypeOK' /\ AgeInv'
    BY TypeStep, AgeStep DEF Inv
  <2>3. stage \in Stages
    BY DEF Inv, TypeOK, Reports
  <2> QED BY <2>1, <2>2, <2>3, TypedNeeds, CheckIsNext, ClosedCheck, BelowIsClosedNext DEF Inv
<1>2. q \in below /\ \A w \in below : \A n \in (report')[w].needs : n.path \in below
  BY <1>1 DEF BelowClosed
<1>3. PICK visits : visits = {x \in Visits : Check[x]' /\ report'[x.path] = report[x.path] /\ x.path \in below}
  OBVIOUS
<1>4. ASSUME NEW x \in visits
      PROVE  FileOK(x) /\ \A n \in report[x.path].needs : Visit(x, n) \in visits
  <2>1. PICK s : s = report[x.path]
    OBVIOUS
  <2>2. x \in Visits /\ x.path \in Paths /\ report'[x.path] = s /\ Check[x]' /\ x.path \in below
    BY <1>3, <2>1 DEF Visits
  <2>3. FileOK(x)' /\ \A n \in s.needs : Check[Visit(x, n)]'
    BY <1>1, <2>2 DEF CheckSteps
  <2>4. /\ x.path \notin x.above /\ Cardinality(x.above) < MaxDepth
        /\ s # Missing /\ s.status = "PASS" /\ s.stage = x.stage /\ NoDuplicates(s)
        /\ OwnContentOK(s, x.path)'
        /\ \A n \in s.needs : n.serial # 0 /\ n.serial = Serial(n.path)'
    BY <2>2, <2>3 DEF FileOK, NoDuplicates
  <2>5. OwnContentOK(s, x.path)
    BY <2>2, <2>4 DEF OwnContentOK, PutBack
  <2>6. ASSUME NEW n \in s.needs
        PROVE  n.serial = Serial(n.path) /\ Visit(x, n) \in visits
    <3>1. n.path \in below
      BY <1>2, <2>2
    <3>2. report'[n.path] = report[n.path]
      BY <2>1, <2>2, <2>4, <3>1, StepKeeps DEF Inv
    <3>3. n.serial = Serial(n.path)
      BY <2>4, <3>2 DEF Serial
    <3>4. Visit(x, n) \in Visits /\ Visit(x, n).path = n.path
      BY <1>1, <2>1, <2>2, <2>4, VisitType, TypedNeeds DEF Visit
    <3> QED BY <1>3, <2>3, <3>1, <3>2, <3>3, <3>4
  <2> QED BY <2>1, <2>4, <2>5, <2>6 DEF FileOK
<1>5. PICK x : x = [path |-> q, stage |-> stage, above |-> {}]
  OBVIOUS
<1>6. x \in visits
  <2>1. x \in Visits /\ x.path = q
    BY <1>1, <1>5 DEF Visits
  <2>2. Check[x]'
    BY <1>5 DEF Valid, ValidFile
  <2> QED BY <1>2, <1>3, <2>1, <2>2
<1>7. Closed(visits) /\ visits \in SUBSET Visits
  BY <1>3, <1>4 DEF Closed
<1> QED BY <1>1, <1>5, <1>6, <1>7 DEF ClosedPasses, Valid, ValidFile

\* validate_report: what it does not accept it accepts again only if evidence or a report below it
\* is put back; whatever write_report puts in place, for this report or for others, does not help.
THEOREM OldBytesOnly == Spec => OnlyOldBytesRevive
<1>1. ASSUME Inv, [Next]_vars, NEW q \in Paths, Revived(q)
      PROVE  \E w \in Below(q)' : PutBack(w)
  <2>1. PICK r : r = report[q]
    OBVIOUS
  <2>2. PICK stage : stage = r.stage
    OBVIOUS
  <2>3. r # Missing /\ report'[q] = r /\ ~Valid(q, stage)
    BY <1>1, <2>1, <2>2 DEF Revived
  <2>4. Valid(q, stage)'
    <3>1. Valid(q, report[q].stage)'
      BY <1>1 DEF Revived
    <3>2. (report')[q].stage = stage
      BY <2>2, <2>3
    <3> QED BY <3>1, <3>2 DEF Valid
  <2>5. CASE Next
    <3>1. PICK p \in Paths : Write(p) \/ Replace(p) \/ WriterDies(p) \/ Build(p)
      BY <2>5 DEF Next
    <3>2. PICK below : below = Below(q)'
      OBVIOUS
    <3>3. ~(\A w \in below : ~PutBack(w))
      BY <1>1, <2>1, <2>2, <2>3, <2>4, <3>1, <3>2, ValidWasValid
    <3> QED BY <3>2, <3>3
  <2>6. CASE UNCHANGED vars
    BY <2>3, <2>4, <2>6, SameCheck DEF vars, Valid, ValidFile
  <2> QED BY <1>1, <2>5, <2>6
<1> DEFINE Only == \A p \in Paths : Revived(p) => \E q \in Below(p)' : PutBack(q)
<1>2. Inv /\ [Next]_vars => [Only]_vars
  BY <1>1
<1> QED BY <1>2, AlwaysInv, PTL DEF Spec, OnlyOldBytesRevive
================================================================================
