----------------------------- MODULE Attendance ------------------------------
(***************************************************************************)
(* Attendance: the punches of a day and the minutes they add up to, and    *)
(* the requests to correct a record.                                       *)
(*                                                                         *)
(* One day is modelled; a punch that the shift or a holiday refuses does   *)
(* nothing, and is left out.  Whether a punch is late by its shift shows   *)
(* only in hasMissedPunch.  approved is history; attendanceOps bounds the  *)
(* exploration.                                                            *)
(***************************************************************************)
EXTENDS Integers, Sequences, FiniteSets, Handlers

CONSTANTS
    Worker,             \* employees
    AttendanceRecord,   \* identifiers of attendance records
    Correction,         \* identifiers of correction requests
    Second,             \* the times of punches
    Expectation,        \* what a client may say of the expected check-in
    PunchLimit,         \* bound on the punches of a record
    MaxAttendanceOps    \* bound on the requests that are handled

VARIABLES
    attendance,         \* the attendance record with an identifier, or NULL
    corrections,        \* the correction request with an identifier, or NULL
    attendanceCalls,    \* the handlers in flight
    approved,           \* history: corrections that have been APPROVED
    attendanceOps       \* the requests that were handled or are in flight

attendanceVars == <<attendance, corrections, attendanceCalls, approved, attendanceOps>>

PunchType == {"IN", "OUT"}
PunchPolicy == {"MULTIPLE", "FIRST_LAST", "ONLY_FIRST"}
Decision == {"APPROVED", "REJECTED"}

PunchDoc == [type : PunchType, time : Second]

AttendanceDoc ==
    [of : Worker, punches : Seq(PunchDoc), totalWorkMinutes : Int,
     hasMissedPunch : BOOLEAN, finalisedForPayroll : BOOLEAN]

CorrectionDoc ==
    [of : Worker, record : AttendanceRecord, status : {"SUBMITTED"} \cup Decision]

\* What a punch makes of the punches, minutes and flag of a record.
Tally == [punches : Seq(PunchDoc), total : Int, missed : BOOLEAN]

AttendanceCall ==
    [at : {"punch.create"}, of : Worker, new : Tally]
      \cup
    [at : {"punch.update"}, record : AttendanceRecord, new : Tally]
      \cup
    [at : {"apply.save"}, correction : Correction, record : AttendanceRecord]
      \cup
    [at : {"apply.approve", "review.finalise"}, correction : Correction]
      \cup
    [at : {"review.save"}, correction : Correction, decision : Decision, toPayroll : BOOLEAN]

ASSUME AttendanceAssumption ==
    /\ Second \subseteq Nat
    /\ Expectation \subseteq [checkIn : Second, grace : Nat, threshold : Nat, deduction : Nat]
    /\ PunchLimit \in Nat
    /\ MaxAttendanceOps \in Nat
    /\ NULL \notin AttendanceDoc \cup CorrectionDoc \cup AttendanceCall \cup Expectation

NoteApproved(c) ==
    approved' = IF corrections'[c].status = "APPROVED" THEN approved \cup {c} ELSE approved

-----------------------------------------------------------------------------
(* What a punch adds up to.                                                *)

\* Seconds in minutes, as Math.round does it.
Rounded(seconds) == (seconds + 30) \div 60

CalculatePenalty(type, time, expectation) ==
    IF type = "OUT" \/ expectation = NULL THEN 0
    ELSE LET late == Rounded(time - expectation.checkIn)
         IN  IF late > expectation.grace /\ late > expectation.threshold
             THEN expectation.deduction ELSE 0

\* Beyond the grace period the first punch of a day counts as missed.
IsLate(type, time, expectation) ==
    /\ type = "IN" /\ expectation # NULL
    /\ Rounded(time - expectation.checkIn) > expectation.grace

\* The place of a punch in the order of the times: of two punches of the same
\* time the one that is stored first stays in front.
Rank(punches, i) ==
    Cardinality({j \in DOMAIN punches :
        \/ punches[j].time < punches[i].time
        \/ punches[j].time = punches[i].time /\ j <= i})

Sorted(punches) ==
    [k \in DOMAIN punches |-> punches[CHOOSE i \in DOMAIN punches : Rank(punches, i) = k]]

\* Mutant: the punches are left in the order in which they arrive.
Appended(punches, punch) == Append(punches, punch)

\* All punches are sorted with the new one: two that FIRST_LAST has stored may
\* be in the wrong order.
SortedWith(punches, punch) == Sorted(Append(punches, punch))

\* Where an IN is followed by an OUT.
Pairs(punches) ==
    {i \in 1..(Len(punches) - 1) : punches[i].type = "IN" /\ punches[i + 1].type = "OUT"}

Minutes(punches, i) == Rounded(punches[i + 1].time - punches[i].time)

\* The minutes of all pairs, one element for each: a pair whose OUT is before
\* its IN adds none.
PairedMinutes(punches) ==
    Cardinality(UNION {{i} \X (1..Minutes(punches, i)) : i \in Pairs(punches)})

TimesOf(punches, type) ==
    {punches[i].time : i \in {j \in DOMAIN punches : punches[j].type = type}}

Earliest(times) == CHOOSE t \in times : \A u \in times : t <= u

Latest(times) == CHOOSE t \in times : \A u \in times : u <= t

\* The punches, minutes and flag of a day under a policy, before deductions.
Worked(punches, policy) ==
    CASE policy = "MULTIPLE" ->
           [punches |-> punches,
            total   |-> PairedMinutes(punches),
            missed  |-> 2 * Cardinality(Pairs(punches)) # Len(punches)]
      [] policy = "FIRST_LAST" ->
           IF TimesOf(punches, "IN") = {} \/ TimesOf(punches, "OUT") = {}
           THEN [punches |-> punches, total |-> 0, missed |-> TRUE]
           ELSE LET first == Earliest(TimesOf(punches, "IN"))
                    last  == Latest(TimesOf(punches, "OUT"))
                IN  [punches |-> <<[type |-> "IN", time |-> first], [type |-> "OUT", time |-> last]>>,
                     total   |-> IF Rounded(last - first) > 0 THEN Rounded(last - first) ELSE 0,
                     missed  |-> FALSE]
      [] policy = "ONLY_FIRST" ->
           [punches |-> <<Head(punches)>>, total |-> 0, missed |-> TRUE]

\* The deduction of this punch, else the one that a negative total remembers.
Deducted(doc, penalty) ==
    IF penalty > 0 THEN penalty
    ELSE IF doc.totalWorkMinutes < 0 THEN - doc.totalWorkMinutes ELSE 0

PunchedAgain(doc, punch, policy, penalty) ==
    LET worked == Worked(SortedWith(doc.punches, punch), policy)
    IN  [worked EXCEPT !.total = IF @ >= Deducted(doc, penalty) THEN @ - Deducted(doc, penalty) ELSE 0]

\* findForDay finds a record by the times of its punches.
RecordsOfDay(w) ==
    {r \in AttendanceRecord :
        attendance[r] # NULL /\ attendance[r].of = w /\ attendance[r].punches # <<>>}

-----------------------------------------------------------------------------
(* punch.                                                                  *)

\* There is no record of the day yet.
FirstPunch(a, w, type, time, expectation, lateByShift) ==
    /\ Idle(attendanceCalls, a)
    /\ RecordsOfDay(w) = {}
    /\ lateByShift => type = "IN" /\ expectation = NULL
    /\ attendanceCalls' = Begin(attendanceCalls, a,
         [at |-> "punch.create", of |-> w,
          new |-> [punches |-> <<[type |-> type, time |-> time]>>,
                   total   |-> - CalculatePenalty(type, time, expectation),
                   missed  |-> type = "OUT" \/ IsLate(type, time, expectation) \/ lateByShift]])
    /\ UNCHANGED <<attendance, corrections, approved>>

PunchCreate(a, r) ==
    /\ At(attendanceCalls, a, "punch.create")
    /\ attendance[r] = NULL
    /\ LET call == attendanceCalls[a]
       IN  attendance' = [attendance EXCEPT ![r] =
             [of |-> call.of, punches |-> call.new.punches, totalWorkMinutes |-> call.new.total,
              hasMissedPunch |-> call.new.missed, finalisedForPayroll |-> FALSE]]
    /\ attendanceCalls' = Finish(attendanceCalls, a)
    /\ UNCHANGED <<corrections, approved>>

NextPunch(a, w, type, time, expectation, policy) ==
    /\ Idle(attendanceCalls, a)
    /\ \E r \in RecordsOfDay(w) :
         /\ Len(attendance[r].punches) < PunchLimit
         /\ attendanceCalls' = Begin(attendanceCalls, a,
              [at |-> "punch.update", record |-> r,
               new |-> PunchedAgain(attendance[r], [type |-> type, time |-> time], policy,
                                    CalculatePenalty(type, time, expectation))])
    /\ UNCHANGED <<attendance, corrections, approved>>

PunchUpdate(a) ==
    /\ At(attendanceCalls, a, "punch.update")
    /\ LET call == attendanceCalls[a]
       IN  attendance' = [attendance EXCEPT
             ![call.record].punches = call.new.punches,
             ![call.record].totalWorkMinutes = call.new.total,
             ![call.record].hasMissedPunch = call.new.missed]
    /\ attendanceCalls' = Finish(attendanceCalls, a)
    /\ UNCHANGED <<corrections, approved>>

-----------------------------------------------------------------------------
(* Corrections.                                                            *)

\* submitAttendanceCorrection and submitCorrectionFromESS: the record must
\* exist, whoever it belongs to.
SubmitCorrection(c, w, r) ==
    /\ corrections[c] = NULL
    /\ attendance[r] # NULL
    /\ corrections' = [corrections EXCEPT ![c] = [of |-> w, record |-> r, status |-> "SUBMITTED"]]
    /\ UNCHANGED <<attendance, attendanceCalls, approved>>

\* Whatever the status is.
ApproveAndApplyCorrection(a, c) ==
    /\ Idle(attendanceCalls, a)
    /\ corrections[c] # NULL
    /\ attendance[corrections[c].record].of = corrections[c].of
    /\ attendanceCalls' = Begin(attendanceCalls, a,
         [at |-> "apply.save", correction |-> c, record |-> corrections[c].record])
    /\ UNCHANGED <<attendance, corrections, approved>>

\* A stored request has no punches, so that the record loses its own.
ApplyCorrection(a) ==
    /\ At(attendanceCalls, a, "apply.save")
    /\ LET call == attendanceCalls[a]
       IN  /\ attendance' = [attendance EXCEPT ![call.record].punches = <<>>]
           /\ attendanceCalls' = Begin(attendanceCalls, a,
                [at |-> "apply.approve", correction |-> call.correction])
    /\ UNCHANGED <<corrections, approved>>

ApproveApplied(a) ==
    /\ At(attendanceCalls, a, "apply.approve")
    /\ LET c == attendanceCalls[a].correction
       IN  /\ corrections' = [corrections EXCEPT ![c].status = "APPROVED"]
           /\ NoteApproved(c)
    /\ attendanceCalls' = Finish(attendanceCalls, a)
    /\ UNCHANGED attendance

\* reviewCorrectionRequest calls processApprovalDecision.
ReviewCorrectionRequest(a, c, decision, toPayroll) ==
    /\ Idle(attendanceCalls, a)
    /\ corrections[c] # NULL
    /\ corrections[c].status = "SUBMITTED"
    /\ attendanceCalls' = Begin(attendanceCalls, a,
         [at |-> "review.save", correction |-> c, decision |-> decision, toPayroll |-> toPayroll])
    /\ UNCHANGED <<attendance, corrections, approved>>

\* Mutant: the record is finalised on a rejection as well.
FinalisesAnyway(call) == call.toPayroll

Finalises(call) == call.decision = "APPROVED" /\ call.toPayroll

\* The status is written whatever it has become.
ProcessApprovalDecision(a) ==
    /\ At(attendanceCalls, a, "review.save")
    /\ LET call == attendanceCalls[a]
       IN  /\ corrections' = [corrections EXCEPT ![call.correction].status = call.decision]
           /\ NoteApproved(call.correction)
           /\ attendanceCalls' = IF Finalises(call)
                                 THEN Begin(attendanceCalls, a,
                                        [at |-> "review.finalise", correction |-> call.correction])
                                 ELSE Finish(attendanceCalls, a)
    /\ UNCHANGED attendance

FinaliseForPayroll(a) ==
    /\ At(attendanceCalls, a, "review.finalise")
    /\ attendance' = [attendance EXCEPT
         ![corrections[attendanceCalls[a].correction].record].finalisedForPayroll = TRUE]
    /\ attendanceCalls' = Finish(attendanceCalls, a)
    /\ UNCHANGED <<corrections, approved>>

-----------------------------------------------------------------------------

\* A database call throws, or the process stops.
AttendanceCallFails(a) ==
    /\ ~ Idle(attendanceCalls, a)
    /\ attendanceCalls' = Finish(attendanceCalls, a)
    /\ UNCHANGED <<attendance, corrections, approved>>

AttendanceInit ==
    /\ attendance = [r \in AttendanceRecord |-> NULL]
    /\ corrections = [c \in Correction |-> NULL]
    /\ attendanceCalls = [a \in Agent |-> NULL]
    /\ approved = {}
    /\ attendanceOps = 0

RequestAttendance ==
    \/ \E c \in Correction, w \in Worker, r \in AttendanceRecord : SubmitCorrection(c, w, r)
    \/ \E a \in Agent :
         \/ \E w \in Worker, type \in PunchType, time \in Second, expectation \in Expectation \cup {NULL} :
              \/ \E lateByShift \in BOOLEAN : FirstPunch(a, w, type, time, expectation, lateByShift)
              \/ \E policy \in PunchPolicy : NextPunch(a, w, type, time, expectation, policy)
         \/ \E c \in Correction : ApproveAndApplyCorrection(a, c)
         \/ \E c \in Correction, decision \in Decision, toPayroll \in BOOLEAN :
              ReviewCorrectionRequest(a, c, decision, toPayroll)

AttendanceStep(a) ==
    \/ \E r \in AttendanceRecord : PunchCreate(a, r)
    \/ PunchUpdate(a)
    \/ ApplyCorrection(a) \/ ApproveApplied(a)
    \/ ProcessApprovalDecision(a) \/ FinaliseForPayroll(a)
    \/ AttendanceCallFails(a)

AttendanceNext ==
    \/ /\ attendanceOps < MaxAttendanceOps
       /\ attendanceOps' = attendanceOps + 1
       /\ RequestAttendance
    \/ /\ attendanceOps' = attendanceOps
       /\ \E a \in Agent : AttendanceStep(a)

AttendanceSpec == AttendanceInit /\ [][AttendanceNext]_attendanceVars

-----------------------------------------------------------------------------
(* Properties.                                                             *)

\* Every record, request and call in flight has its type.
AttendanceTypeOK ==
    /\ attendance \in [AttendanceRecord -> AttendanceDoc \cup {NULL}]
    /\ corrections \in [Correction -> CorrectionDoc \cup {NULL}]
    /\ attendanceCalls \in [Agent -> AttendanceCall \cup {NULL}]
    /\ approved \subseteq Correction
    /\ attendanceOps \in 0..MaxAttendanceOps

\* The seconds between the earliest and the latest punch.
Span(punches) ==
    LET times == {punches[i].time : i \in DOMAIN punches} IN Latest(times) - Earliest(times)

\* Rounding adds at most half a minute to what lies between two punches.
FitsSpan(punches, total) == 60 * total <= Span(punches) + 30 * Cardinality(Pairs(punches))

\* No record that has punches counts more minutes than lie between its first
\* and its last one, but for the half minute that each of its pairs may be
\* rounded up, in whatever order the punches of the day arrive, under whatever
\* policies, and whichever of two concurrent punches is lost.
WorkWithinSpan ==
    \A r \in AttendanceRecord :
      attendance[r] # NULL /\ attendance[r].punches # <<>> =>
        FitsSpan(attendance[r].punches, attendance[r].totalWorkMinutes)

\* Only a record with a correction that was approved becomes final for
\* payroll, even if another review of the same request rejects it in between.
FinalisedWasApproved ==
    \A r \in AttendanceRecord :
      attendance[r] # NULL /\ attendance[r].finalisedForPayroll =>
        \E c \in approved : corrections[c].record = r

=============================================================================
