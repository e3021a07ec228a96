----------------------------- MODULE Appraisals ------------------------------
(***************************************************************************)
(* Performance appraisals: assignments, the records that managers submit   *)
(* and HR publishes, disputes, and the check that suspends an employee     *)
(* with too many minimum ratings and asks for a termination review.        *)
(*                                                                         *)
(* A record's ratings are abstracted to one number: the rating of all its  *)
(* criteria when they agree, else NULL.  ratedAs, reopened, byManager and  *)
(* checked are history; appraisalOps bounds the exploration.               *)
(***************************************************************************)
EXTENDS Integers, FiniteSets, Handlers

CONSTANTS
    Appraisee,       \* identifiers of employee profiles
    EmployeeNumber,  \* the employee number of each
    Assignment,      \* identifiers of appraisal assignments
    AppraisalRecord, \* identifiers of appraisal records
    AppraisalDispute,\* identifiers of disputes
    Template,        \* appraisal templates
    MinRating,       \* the least rating of a template's scale
    Rating,          \* the ratings managers give
    Threshold,       \* minimum-score appraisals that start a review: 3
    MaxAppraisalOps  \* bound on the requests that are handled

VARIABLES
    assignments,     \* the assignment with an identifier, or NULL
    records,         \* the record with an identifier, or NULL
    appraisalDisputes, \* the dispute with an identifier, or NULL
    suspended,       \* employees whose profile is SUSPENDED
    reviewed,        \* employees with a termination request
    appraisalCalls,  \* the handlers in flight
    ratedAs,         \* history: the ratings each record has had
    reopened,        \* history: assignments that an adjusted dispute reopened
    byManager,       \* history: records that were published by their update
    checked,         \* history: employees whose check ran to its end and found too many
    appraisalOps     \* the requests that were handled or are in flight

appraisalVars == <<assignments, records, appraisalDisputes, suspended, reviewed,
                   appraisalCalls, ratedAs, reopened, byManager, checked, appraisalOps>>

AssignmentStatus == {"NOT_STARTED", "IN_PROGRESS", "SUBMITTED", "PUBLISHED"}
RecordStatus == {"MANAGER_SUBMITTED", "HR_PUBLISHED"}
AppraisalDisputeStatus == {"OPEN", "UNDER_REVIEW", "ADJUSTED", "REJECTED"}

AssignmentDoc ==
    [of : Appraisee, template : Template, status : AssignmentStatus,
     publishedAt : BOOLEAN, latest : AppraisalRecord \cup {NULL}]

RecordDoc ==
    [assignment : Assignment, of : Appraisee, template : Template,
     rating : Rating \cup {NULL}, status : RecordStatus]

AppraisalDisputeDoc == [assignment : Assignment, status : AppraisalDisputeStatus]

AppraisalCall ==
    [at : {"create.assignment", "update.assignment", "publish.assignment", "check.current"},
     record : AppraisalRecord]
      \cup
    [at : {"update.save"}, record : AppraisalRecord, rating : Rating \cup {NULL}, again : BOOLEAN]
      \cup
    [at : {"check.others"}, record : AppraisalRecord, currentIsMin : BOOLEAN]
      \cup
    [at : {"check.suspend", "check.review"}, record : AppraisalRecord]
      \cup
    [at : {"resolve.reopen"}, assignment : Assignment]

ASSUME AppraisalsAssumption ==
    /\ IsFiniteSet(AppraisalRecord)
    /\ EmployeeNumber \in [Appraisee -> STRING]
    /\ MinRating \in [Template -> Rating]
    /\ Threshold \in Nat \ {0}
    /\ MaxAppraisalOps \in Nat
    /\ NULL \notin AssignmentDoc \cup RecordDoc \cup AppraisalDisputeDoc \cup AppraisalCall
                     \cup AppraisalRecord \cup Rating

RecordExists(r) == records[r] # NULL

NoteRating(r, rating) == ratedAs' = [ratedAs EXCEPT ![r] = @ \cup {rating}]

\* The handler goes on with the same record.
GoOn(a, where) ==
    appraisalCalls' = Begin(appraisalCalls, a, [at |-> where, record |-> appraisalCalls[a].record])

appraisalDocs == <<assignments, records, appraisalDisputes, suspended, reviewed>>
appraisalHistory == <<ratedAs, reopened, byManager, checked>>

-----------------------------------------------------------------------------

\* One item of bulkAssign.
BulkAssign(g, e, t) ==
    /\ assignments[g] = NULL
    /\ assignments' = [assignments EXCEPT ![g] =
         [of |-> e, template |-> t, status |-> "NOT_STARTED", publishedAt |-> FALSE, latest |-> NULL]]
    /\ UNCHANGED <<records, appraisalDisputes, suspended, reviewed, appraisalCalls, appraisalHistory>>

CreateRecord(a, r, g, rating) ==
    /\ Idle(appraisalCalls, a)
    /\ assignments[g] # NULL
    /\ ~ RecordExists(r)
    /\ records' = [records EXCEPT ![r] =
         [assignment |-> g, of |-> assignments[g].of, template |-> assignments[g].template,
          rating |-> rating, status |-> "MANAGER_SUBMITTED"]]
    /\ NoteRating(r, rating)
    /\ appraisalCalls' = Begin(appraisalCalls, a, [at |-> "create.assignment", record |-> r])
    /\ UNCHANGED <<assignments, appraisalDisputes, suspended, reviewed, reopened, byManager, checked>>

CreateRecordAssignment(a) ==
    /\ At(appraisalCalls, a, "create.assignment")
    /\ LET r == appraisalCalls[a].record
       IN  assignments' = [assignments EXCEPT
             ![records[r].assignment].status = "SUBMITTED",
             ![records[r].assignment].latest = r]
    /\ GoOn(a, "check.current")
    /\ UNCHANGED <<records, appraisalDisputes, suspended, reviewed, appraisalHistory>>

\* Mutant: any assignment that was published once is published again at once.
WasPublished(g) == assignments[g].publishedAt

\* A dispute was adjusted since the assignment was published.
IsDisputeReEvaluation(g) ==
    assignments[g].status = "IN_PROGRESS" /\ assignments[g].publishedAt

UpdateRecord(a, r, rating) ==
    /\ Idle(appraisalCalls, a)
    /\ RecordExists(r)
    /\ appraisalCalls' = Begin(appraisalCalls, a,
         [at |-> "update.save", record |-> r, rating |-> rating,
          again |-> IsDisputeReEvaluation(records[r].assignment)])
    /\ UNCHANGED <<appraisalDocs, appraisalHistory>>

UpdateRecordSave(a) ==
    /\ At(appraisalCalls, a, "update.save")
    /\ LET call == appraisalCalls[a]
       IN  /\ records' = [records EXCEPT
                ![call.record].rating = call.rating,
                ![call.record].status = IF call.again THEN "HR_PUBLISHED" ELSE "MANAGER_SUBMITTED"]
           /\ NoteRating(call.record, call.rating)
           /\ byManager' = IF call.again THEN byManager \cup {call.record} ELSE byManager
           /\ GoOn(a, IF call.again THEN "update.assignment" ELSE "check.current")
    /\ UNCHANGED <<assignments, appraisalDisputes, suspended, reviewed, reopened, checked>>

UpdateRecordAssignment(a) ==
    /\ At(appraisalCalls, a, "update.assignment")
    /\ assignments' = [assignments EXCEPT
         ![records[appraisalCalls[a].record].assignment].status = "PUBLISHED",
         ![records[appraisalCalls[a].record].assignment].publishedAt = TRUE]
    /\ GoOn(a, "check.current")
    /\ UNCHANGED <<records, appraisalDisputes, suspended, reviewed, appraisalHistory>>

PublishRecord(a, r) ==
    /\ Idle(appraisalCalls, a)
    /\ RecordExists(r)
    /\ records' = [records EXCEPT ![r].status = "HR_PUBLISHED"]
    /\ appraisalCalls' = Begin(appraisalCalls, a, [at |-> "publish.assignment", record |-> r])
    /\ UNCHANGED <<assignments, appraisalDisputes, suspended, reviewed, appraisalHistory>>

PublishRecordAssignment(a) ==
    /\ At(appraisalCalls, a, "publish.assignment")
    /\ assignments' = [assignments EXCEPT
         ![records[appraisalCalls[a].record].assignment].status = "PUBLISHED",
         ![records[appraisalCalls[a].record].assignment].publishedAt = TRUE]
    /\ appraisalCalls' = Finish(appraisalCalls, a)
    /\ UNCHANGED <<records, appraisalDisputes, suspended, reviewed, appraisalHistory>>

-----------------------------------------------------------------------------
(* checkAndTriggerTerminationReview, at the end of a creation or update.   *)

IsMinimumScoreRecord(r, minScore) == records[r].rating = minScore

CheckCurrent(a) ==
    /\ At(appraisalCalls, a, "check.current")
    /\ LET r == appraisalCalls[a].record
       IN  appraisalCalls' = Begin(appraisalCalls, a,
             [at |-> "check.others", record |-> r,
              currentIsMin |-> IsMinimumScoreRecord(r, MinRating[records[r].template])])
    /\ UNCHANGED <<appraisalDocs, appraisalHistory>>

\* Mutant: the current record is counted among the published ones as well.
MinimumPublishedToo(r) ==
    {x \in AppraisalRecord \cup {NULL} :
        \/ x = NULL /\ records[r].status = "HR_PUBLISHED"
        \/ /\ x # NULL
           /\ RecordExists(x)
           /\ x # r
           /\ records[x].of = records[r].of
           /\ records[x].status = "HR_PUBLISHED"
           /\ IsMinimumScoreRecord(x, MinRating[records[r].template])}

\* The published records of the employee, whatever their template, that have
\* the minimum of the current record's template.
MinimumPublished(r) ==
    {x \in AppraisalRecord :
        /\ RecordExists(x)
        /\ x # r
        /\ records[x].of = records[r].of
        /\ records[x].status = "HR_PUBLISHED"
        /\ IsMinimumScoreRecord(x, MinRating[records[r].template])}

CheckOthers(a) ==
    /\ At(appraisalCalls, a, "check.others")
    /\ LET call  == appraisalCalls[a]
           count == Cardinality(MinimumPublished(call.record)) + (IF call.currentIsMin THEN 1 ELSE 0)
       IN  IF count >= Threshold
           THEN GoOn(a, "check.suspend")
           ELSE appraisalCalls' = Finish(appraisalCalls, a)
    /\ UNCHANGED <<appraisalDocs, appraisalHistory>>

\* An error of the update is caught, and the check goes on.
CheckSuspend(a) ==
    /\ At(appraisalCalls, a, "check.suspend")
    /\ \/ suspended' = suspended \cup {records[appraisalCalls[a].record].of}
       \/ suspended' = suspended
    /\ GoOn(a, "check.review")
    /\ UNCHANGED <<assignments, records, appraisalDisputes, reviewed, appraisalHistory>>

\* initiateTerminationReview finds the employee by employee number.
InitiateTerminationReview(number) ==
    reviewed' = reviewed \cup {e \in Appraisee : EmployeeNumber[e] = number}

\* The employee number asked for is the identifier of the profile.  An error
\* is caught.  A check that finds no contract ends here, as one that fails.
CheckReview(a) ==
    /\ At(appraisalCalls, a, "check.review")
    /\ LET e == records[appraisalCalls[a].record].of
       IN  /\ InitiateTerminationReview(e)
           /\ checked' = checked \cup {e}
    /\ appraisalCalls' = Finish(appraisalCalls, a)
    /\ UNCHANGED <<assignments, records, appraisalDisputes, suspended, ratedAs, reopened, byManager>>

-----------------------------------------------------------------------------

CreateAppraisalDispute(d, g) ==
    /\ appraisalDisputes[d] = NULL
    /\ assignments[g] # NULL
    /\ appraisalDisputes' = [appraisalDisputes EXCEPT ![d] = [assignment |-> g, status |-> "OPEN"]]
    /\ UNCHANGED <<assignments, records, suspended, reviewed, appraisalCalls, appraisalHistory>>

\* assignReviewer and update: no status is refused.
UpdateAppraisalDispute(d, status) ==
    /\ appraisalDisputes[d] # NULL
    /\ appraisalDisputes' = [appraisalDisputes EXCEPT ![d].status = status]
    /\ UNCHANGED <<assignments, records, suspended, reviewed, appraisalCalls, appraisalHistory>>

ResolveAppraisalDispute(a, d, status) ==
    /\ Idle(appraisalCalls, a)
    /\ appraisalDisputes[d] # NULL
    /\ appraisalDisputes' = [appraisalDisputes EXCEPT ![d].status = status]
    /\ appraisalCalls' = IF status = "ADJUSTED"
                         THEN Begin(appraisalCalls, a,
                                [at |-> "resolve.reopen", assignment |-> appraisalDisputes[d].assignment])
                         ELSE appraisalCalls
    /\ UNCHANGED <<assignments, records, suspended, reviewed, appraisalHistory>>

ResolveReopen(a) ==
    /\ At(appraisalCalls, a, "resolve.reopen")
    /\ LET g == appraisalCalls[a].assignment
       IN  /\ assignments' = [assignments EXCEPT ![g].status = "IN_PROGRESS"]
           /\ reopened' = reopened \cup {g}
    /\ appraisalCalls' = Finish(appraisalCalls, a)
    /\ UNCHANGED <<records, appraisalDisputes, suspended, reviewed, ratedAs, byManager, checked>>

-----------------------------------------------------------------------------

\* A database call throws, or the process stops.
AppraisalCallFails(a) ==
    /\ ~ Idle(appraisalCalls, a)
    /\ appraisalCalls' = Finish(appraisalCalls, a)
    /\ UNCHANGED <<appraisalDocs, appraisalHistory>>

AppraisalsInit ==
    /\ assignments = [g \in Assignment |-> NULL]
    /\ records = [r \in AppraisalRecord |-> NULL]
    /\ appraisalDisputes = [d \in AppraisalDispute |-> NULL]
    /\ suspended = {}
    /\ reviewed = {}
    /\ appraisalCalls = [a \in Agent |-> NULL]
    /\ ratedAs = [r \in AppraisalRecord |-> {}]
    /\ reopened = {}
    /\ byManager = {}
    /\ checked = {}
    /\ appraisalOps = 0

RequestAppraisal ==
    \/ \E g \in Assignment, e \in Appraisee, t \in Template : BulkAssign(g, e, t)
    \/ \E d \in AppraisalDispute, g \in Assignment : CreateAppraisalDispute(d, g)
    \/ \E d \in AppraisalDispute, status \in AppraisalDisputeStatus : UpdateAppraisalDispute(d, status)
    \/ \E a \in Agent :
         \/ \E r \in AppraisalRecord, g \in Assignment, rating \in Rating \cup {NULL} :
              CreateRecord(a, r, g, rating)
         \/ \E r \in AppraisalRecord, rating \in Rating \cup {NULL} : UpdateRecord(a, r, rating)
         \/ \E r \in AppraisalRecord : PublishRecord(a, r)
         \/ \E d \in AppraisalDispute, status \in AppraisalDisputeStatus :
              ResolveAppraisalDispute(a, d, status)

AppraisalStep(a) ==
    \/ CreateRecordAssignment(a)
    \/ UpdateRecordSave(a) \/ UpdateRecordAssignment(a)
    \/ PublishRecordAssignment(a)
    \/ CheckCurrent(a) \/ CheckOthers(a) \/ CheckSuspend(a) \/ CheckReview(a)
    \/ ResolveReopen(a)
    \/ AppraisalCallFails(a)

AppraisalsNext ==
    \/ /\ appraisalOps < MaxAppraisalOps
       /\ appraisalOps' = appraisalOps + 1
       /\ RequestAppraisal
    \/ /\ appraisalOps' = appraisalOps
       /\ \E a \in Agent : AppraisalStep(a)

AppraisalsSpec == AppraisalsInit /\ [][AppraisalsNext]_appraisalVars

-----------------------------------------------------------------------------
(* Properties.                                                             *)

\* Every document, call in flight and history has its type.
AppraisalsTypeOK ==
    /\ assignments \in [Assignment -> AssignmentDoc \cup {NULL}]
    /\ records \in [AppraisalRecord -> RecordDoc \cup {NULL}]
    /\ appraisalDisputes \in [AppraisalDispute -> AppraisalDisputeDoc \cup {NULL}]
    /\ suspended \subseteq Appraisee
    /\ reviewed \subseteq Appraisee
    /\ appraisalCalls \in [Agent -> AppraisalCall \cup {NULL}]
    /\ ratedAs \in [AppraisalRecord -> SUBSET (Rating \cup {NULL})]
    /\ reopened \subseteq Assignment
    /\ byManager \subseteq AppraisalRecord
    /\ checked \subseteq Appraisee
    /\ appraisalOps \in 0..MaxAppraisalOps

\* The records of an employee that were rated at a template's minimum once.
RatedLow(e, t) ==
    {r \in AppraisalRecord : RecordExists(r) /\ records[r].of = e /\ MinRating[t] \in ratedAs[r]}

\* An employee is suspended only for Threshold different appraisals that were
\* rated at the minimum, even though the check reads the current record and
\* the published ones in two steps, while managers change the ratings.
SuspendedWasRatedLow ==
    \A e \in suspended : \E t \in Template : Cardinality(RatedLow(e, t)) >= Threshold

\* A manager's update publishes a record without HR only for an assignment
\* that an adjusted dispute had reopened.
ManagerPublishesAfterDispute ==
    \A r \in byManager : records[r].assignment \in reopened

\* "Check if an employee has received 3 minimum-score appraisals.  If so, send
\* a notification and initiate termination review": when the check of such an
\* employee has run to its end, there is a termination review.
SuspendedIsReviewed == checked \subseteq reviewed

=============================================================================
