# Verification of the HR backend

This directory specifies the backend of the HR system in TLA+
(`src/backend/src`, NestJS on MongoDB through mongoose): what its handlers do
to the database when they overlap, fail half-way or are repeated. TLC checks
the specifications on small instances, and TLAPS proves the theorems for
every value of the constants. `PROJECT.json` lists the runs, the mutants, the
lines each definition models, the findings, the hazards and the theorems.

Run a check with `tlc -config MCHiring.cfg MCHiring`, a proof with
`tlapm HiringProofs.tla`.

## 1. The system

A single Node process serves HTTP requests. A handler is an `async` method of
a service; every database call is awaited, and at each `await` any other
handler may run. Nothing uses transactions, locks or optimistic versions
(mongoose's own array versioning aside), so the state of the system is the
collections of the database plus, for every handler in flight, how far it got
and what it read before. A rejected promise that is not caught ends the
handler, and what it wrote before stays.

| component | state | operations that change it | interacts with |
|---|---|---|---|
| offers (`recruitment.service.ts` 113-443) | offer: approvers, final status, applicant's response; contract; candidate status | createOffer, addOfferApprover, approveOffer, sendOffer, candidateRespondOffer | candidates, contracts, notifications |
| signing and hiring (446-757, 1143-1305; `employee.service.ts` 45, 626) | contract signatures, files, employee profiles, onboardings, signing bonuses | signContract, hrSignContract, convertCandidateToEmployee | offers, employee, payroll, notifications |
| onboarding checklist (951-1562) | tasks and their status, documents | createOnboardingChecklist, uploadComplianceDocuments, updateTaskStatus, cancelOnboarding | hiring, documents |
| applications, interviews (1757-2570) | applications and their history, interviews, assessments | createApplication, updateApplication, createInterview, updateInterview, submitAssessment | candidates, referrals |
| offboarding (`offboarding.service.ts`) | termination requests, clearance checklists, termination benefits | initiateTerminationReview, submitResignation, initiateOffboardingChecklist, processDepartmentSignOff, updateEquipmentReturnStatus, updateAccessCardReturnStatus, approveTermination, revokeSystemAccess | contracts, employee, payroll, performance |
| employee profiles and roles (`employee.service.ts`) | profiles, system roles, change requests | onboard, updateProfile, adminUpdateProfile, updateStatus, assignRoles, createProfileChangeRequest, approve/rejectProfileChangeRequest | organization, hiring, offboarding |
| organization structure (`organization-structure.service.ts`, hooks of `position.schema.ts`) | departments and their heads, positions and whom they report to, assignments, supervisors, change requests | create/update/deactivate/remove, assignPosition, approve/rejectChangeRequest; the employee service's updatePosition, updateDepartment and convertCandidateToEmployee | employee |
| performance | templates, cycles, assignments, records, disputes | createRecord, updateRecord, publishRecord, disputes | employee, offboarding |
| leaves | policies, entitlements, requests, adjustments | submit, modify, cancel, approve, reject, finalize, override, bulk processing, balance updates, resets | time, payroll |
| attendance and corrections | attendance records, correction requests, exceptions | punch, correct, approve, escalate (cron) | leaves, payroll |
| payroll configuration and backup | configuration documents, backup files | draft, edit, approve, reject, delete; backup, restore | payroll execution |
| payroll execution | payroll runs, payroll details, payslips, bonuses | draft, publish, approvals, freeze, payslips | configuration, tracking |
| payroll tracking | disputes, claims, refunds | submit, approve, confirm, refund | payroll execution |
| notifications, analytics, reports, ATS scoring, authentication, web client | documents appended, or none | | everything |

The behaviours that are hard to test here:

- *Stale reads.* Handlers read a document, compute, and write back a field, an
  array or the whole document. What another handler wrote in between is lost
  (offer approvers, clearance checklists, task lists, leave balances).
- *Check, then create.* A uniqueness check is a query followed by an insert
  (contracts, employees, checklists, applications, refunds); only some
  collections have a unique index behind it.
- *Partial failure.* A handler writes several collections in a row and any
  call may throw: the hire (five collections), a revocation (two), a
  termination publication, a backup's restore.
- *Retries and double requests.* Handlers rarely ask whether they already ran.
- *Missing order.* Many status writes have no guard on the status before.

What makes each part correct, in one line: an offer's decisions survive and an
acceptance has a contract; a hire happens once, in the right order, and is paid
once; a termination is approved and access removed only on a clearance that was
earned; a checklist is complete only when its tasks are; a leave request is
decided by somebody and deducted only if it was approved; a payroll run is paid
only when both approvals stand; a dispute is refunded once; one backup runs at a
time, and what it restores can be worked on as before (it cannot, section 3); an
employee's supervisor is one the structure had, so are the position and department
unless they were set by hand or came with a candidate, and access follows the last
request about it.

## 2. How the code is modelled

- A collection is a function from identifiers to documents or `NULL`; the
  identifiers are a bound on how many documents are created.
- A handler in flight is a record in `offerCalls`, `signCalls` or `calls`
  (`Handler`, `Caller` and `Agent` bound how many there are). Its field `at`
  names the next awaited write; the other fields are what it read and will use.
- The reads a handler makes before its first write are joined to its first
  step when nothing can tell them apart; a later read whose result matters is a
  step (the e-mail check of `onboard`, the re-read of a checklist by the
  automatic approval, the checklist read of a revocation). Each awaited write is
  a step. Two calls with nothing but logging or a notification between them
  stay two steps, since a notification may throw.
- `updateById(id, {a, b})` writes the fields it is given, whole arrays
  included, and `updateById(id, document)` the whole document that was read.
  `document.save()` writes only the fields the handler changed: setting a field
  to the value it already had writes nothing (`Saved`).
- `Handlers.tla` holds what the modules written after the first four share: the
  idle handler, `At`, `Begin`, `Finish` and `Saved`. A module keeps its handlers
  in a function from `Agent` (`leaveCalls`, `appraisalCalls`, `runCalls`, ...) and
  counts the requests it was given (`leaveOps`, ...) up to a bound (`MaxLeaveOps`,
  ...), which stands in the guard of the requests alone: a handler in flight is
  never stopped by it.
- Arrays in a mongoose document have a version that a `$push` counts up and that
  a save of a place in the list must still find. `OnboardingChecklist` is the
  module where this matters, and models the three kinds of write.
- A failure (a call that throws, or the process stopping) drops a handler where
  it stands: `OfferCallFails`, `SignCallFails`, `CallFails`, bounded by
  `MaxFailures` (without a bound in `Reimbursements` and in the modules that use
  `Handlers`). Notifications that are not caught are such calls. Calls the
  code wraps in `try/catch` are a choice that leads on instead.
- Only the fields the properties speak of are kept: dates, texts, salaries,
  who made a request and the wording of notifications are abstracted.
- A definition introduced by `Mutant:` is a plausible bug in the definition
  after it. No specification uses it.

## 3. Modules

### Offers

`Offers.tla`: an offer document keeps `finalStatus`, `applicantResponse` and the
approvers' votes. `CreateOffer` is one write. `AddOfferApprover` reads;
`AddApproverSaveApprovers` writes the whole approvers array it read and
`AddApproverSavePending` the status. `ApproveOffer`/`ApproveSave` write
approvers and status in one `updateById`. `SendOffer`, `SendSaveStatus`,
`SendSaveCandidate` and `CandidateRespondOffer`, `RespondSaveCandidate`,
`RespondCreateContract`, `RespondSave` follow the order of awaited calls; the
answer is saved last, after the contract. A response `negotiating` passes the
request's validation but not the schema's, and writes nothing. Applicants'
statuses that no handler of the two modules sets are left out; so are deadlines,
which `candidateRespondOffer` does not look at.

`HiringProofs.tla`, first part: the inductive invariant `OffersInv` is type correctness,
what a call carries at each step (`OfferCallShape`), the property itself, and
that an acceptance about to be saved already has its contract
(`AcceptanceHasContract`): without it `AcceptedOfferHasContract` is not
inductive, since the step that breaks it does not look at contracts.

### Hiring

`Hiring.tla` extends `Offers`: the two halves share candidates and contracts and
their handlers interleave. A contract's signatures are `signature` (the file the
employee uploaded) and `countersigned`; an employee is identified with the
candidate it was, since its number is the candidate's (`EMP-x` for `CAN-x`), and
`employees` holds its e-mail. `SignContract`, `SignUpload`, `SignSave` are
`signContract` (an existing file of that name refuses the upload; the existence
test and the write are one synchronous call). `HrSignContract` to
`HrCreateBonus` are `hrSignContract`: candidate set to HIRED, `onboard`'s e-mail
check, its insert under the unique employee number, the employer's signature,
`createOnboardingWithDefaults`, the signing bonus. `ConvertCandidate`,
`ConvertCreateEmployee`, `ConvertSaveHired` are
`EmployeeService.convertCandidateToEmployee`, which makes an employee of the same
candidate by another road. People are assumed to have distinct e-mails and
national identifiers; a clash with an unrelated person is one of the failures.
A contract signed with several files is represented by the main one, and the
bonuses counted are those this pipeline makes.

`HiringPromise.tla` is what the pipeline promises without requests, files,
statuses or failures: a contract is drawn up once, the employee signs, becomes an
employee once, the employer signs once per candidate and only for an employee,
then one onboarding, then one bonus. `Hiring` implements it (`HiringKeepsPromise`,
by the mapping `Promise`): in no interleaving of requests and failures is a fact
of the hire out of order or repeated.

`HiringProofs.tla`, second part: `HiringInv` says that at most one handler is past the insert
of a candidate's employee (`OneHolder`), that what this holder has still to write
is not there yet (`HolderState`), that nothing of a hire exists before the
employee (`NothingBeforeEmployee`), and that a file being saved is nobody else's
(`FilesInFlight`). The unique employee number is what makes the holder unique;
from it follow the order and the uniqueness of everything after, and each step
of `Hiring` is a step or a stutter of `HiringPromise`.

### Offboarding

`Offboarding.tla`: `InitiateTermination`, `CreateRequest`, `CreateBenefit`,
`CreateChecklist` are `initiateTerminationReview` and `submitResignation` (the
benefit is caught, so it is made or not); `InitiateOffboardingChecklist` looks
for a checklist and creates one in a later call. `ProcessDepartmentSignOff`,
`UpdateEquipmentReturnStatus` and `UpdateAccessCardReturnStatus` read a checklist
and `ClearSave` writes all of it back; `AutoRead` and `AutoSave` are
`checkAndAutoApproveTermination`, which reads the checklist again.
`ApproveTermination`/`DecideSave` write any status over any other (approving
needs a complete checklist). `RevokeSystemAccess` checks the status,
`RevokeReadChecklist` the checklist, and `RevokeSaveProfile` and `RevokeSaveRole`
are the two writes of `EmployeeService.updateStatus`. `findByTerminationId` is a
`findOne` without an order: it returns any checklist of the request. Three
variables are history and guard nothing: `granted` (what was ever signed or
returned on a checklist), `approvals` and `overruled` (the requests that were
ever approved, or that HR ever gave another status).

`OffboardingProofs.tla`: what a checklist says, and what a handler is about to
write on it, was granted by someone (`Supported`); a handler past a check carries
what the check established (`Sound`), and since grants, approvals and owners are
never taken back (`Kept`) this stays true while other handlers change the
checklist under it. `CompletionIsNoticed` is proved on top of that: of the
handlers that overlap on a checklist, the last to save it is also the last to
look at it.

### Reimbursements

`Reimbursements.tla`: payslip disputes and expense claims follow the same path, so
both are an `Item` with a status, the approved amount and the signatures its
resolution comment carries (`Mark`, the two phrases the confirmation searches
for). `Affordable` and `RefundAmount` are where a claim, which asks for an amount,
differs from a dispute, which asks for none. `CreateDispute`/`SaveDispute` look
for an active dispute of the payslip and insert later; `CreateClaim` is one step,
since the unique claim number makes it one. `Approve`, `Reject`, `Confirm` read
the item and check it; `SaveApproval`, `SaveRejection`, `SaveConfirmation` save
the fields the handler changed, over whatever the item has become: between the two
the code awaits the role lookup and the notifications. `GenerateRefund` checks the
status it read, `LookForRefund` looks for a pending refund, `SaveRefund` inserts
one. A refund stays pending: nothing in the code writes `PAID`. `granted` is
history: the amounts an item was ever approved with.

`ReimbursementsProofs.tla`: what the documents say belongs together (`Books`): an
item that awaits the manager has an approved amount, the amount of an approved
item was granted, and nothing granted exceeds the claim. A handler past its checks
carries what they established (`Sound`): an item that is filed, an affordable
amount, an approved amount to fall back on, an authority for the refund. The item
may change under it, but not what this rests on (`Kept`): a filed item stays
filed, a claim keeps its amount, an approved amount is never removed, and nothing
is taken out of `granted`. Without these parts the properties are not inductive:
the save that could break them looks at nothing but the call.

The ten modules that follow extend `Handlers`. They share no field of a document:
`Organization`, `ReportingLines` and `Profiles` model different fields of the same
positions and profiles, which the code writes in the same calls and never reads
together. Each has `...Init`, the requests (`RequestX`), the steps of a handler in
flight (`XStep`, which contains the failure), `...Next` and `...Spec`.

### Leaves

`Leaves.tla`: `leaveRequests` and `entitlements`. The life of a request is
`SubmitLeaveRequest`, `AttachToLeaveRequest`, `ModifyPendingRequest`/`ModifySave`,
`CancelPendingRequest`/`CancelSave`, `FinalizeLeaveRequest`/`FinalizeSave`, which
check a status and write later, and `ManagerDecides`, `HrDecides` (the override and
the bulk processing) and `VerifyMedicalDocuments`, which write whatever the status
is. `AutoUpdateBalances` reads the approved requests and `UpdateBalance` is one
`$inc` of it, with the insert of a missing entitlement. `UpdateEntitlementInternal`
computes an accrual (`CalculateAccrual`, `ApplyRoundingRule`,
`CalculateCarryForward`, `ComputeRemaining`) and `AccrueSave` saves the fields that
changed; `AssignPersonalizedEntitlement`, `ManualBalanceAdjustment` and
`ExecuteAnnualReset` read and write an entitlement, or create the one that is
missing. Days are counted in halves, because a part-time employee accrues a half;
a policy is a record of what these computations read. History: `approvedFor` (what
a request asked for while it was approved), `deductions`, and `deducted` (per
entitlement, since its reset).

### Attendance

`Attendance.tla`: the records of one day and the correction requests. A punch reads
the record of the day and either creates one (`FirstPunch`, `PunchCreate`) or
computes punches, minutes and flag anew under the policy of this punch (`NextPunch`,
`PunchUpdate`). The computations: all punches are sorted by time, those of the same
time staying in their order (`Rank`, `Sorted`, `SortedWith`); the minutes of each pair
of an IN and the OUT next to it are rounded, half a minute upwards (`Pairs`, `Minutes`,
`Rounded`), and added (`PairedMinutes`, the size of a set with one element for each
minute); `Worked` has the three policies and `Deducted` the deductions, with a negative
total standing for one that is still to be made. Times are in seconds (`Second`), so
that rounding is seen.
`SubmitCorrection`, `ApproveAndApplyCorrection` (which empties the punches, since a
stored request has none) and `ReviewCorrectionRequest`, `ProcessApprovalDecision`,
`FinaliseForPayroll` are the corrections. Punches that the rules of a shift or a
holiday refuse do nothing and are left out. `approved` is history.

### Appraisals

`Appraisals.tla`: assignments, records, disputes. `CreateRecord`, `UpdateRecord`,
`PublishRecord` write the record and then its assignment; an update publishes at once
if it finds its assignment reopened by a dispute (`IsDisputeReEvaluation`).
`CheckCurrent` to `CheckReview` are `checkAndTriggerTerminationReview`: the current
record, the published ones, the suspension and the request for a review are four
calls, and the last two are caught. The ratings of a record are one number or, when
they differ, `NULL`: the check asks whether all are the minimum.
`EmployeeNumber` maps profiles to employee numbers; the code passes the former where
the latter is asked for. A record is created for an assignment that exists, and for its
employee and template, as the client fills in the request; the code takes all three
from the request and looks up the template only. History: `ratedAs`, `reopened`, `byManager`, `checked`.

### Applications

`Applications.tla`: `CreateApplication` and its save, `UpdateApplication` with the
history record that is written after it from what was read before it,
`CreateInterview` with the assessment it makes, `UpdateInterview`, and
`SubmitAssessment` with the link from the interview. `lost` is history: the documents
whose handler was cut short between the two writes.

### PayrollRuns

`PayrollRuns.tla`: every handler of the approval reads a run, checks its status and
saves what it changed (`ReadAndChange`, `RunSave`): the manager's and the finance
staff's approval, the rejection, freezing and unfreezing. `EditPayrollPeriod` writes
one field by identifier, `GenerateAndDistributePayslips` saves the payslips of a paid
run one by one. Runs are taken as given, as drafts or under review: the validation
that comes before a draft is computed refuses every one
(`payroll-run.service.ts:44`).

### Organization

`Organization.tla`: positions, the position and department of each profile, position
assignments, change requests. `AssignPosition` activates, closes the open assignment,
creates one and writes the profile (`AssignActivate` to `AssignProfile`); the employee
service's own update (`HoldPosition` to `HoldActivate`) goes the other way round.
`UpdatePosition` moves a position and then all who hold it, `RemovePosition` takes it
from them and then deletes it, `ApproveChangeRequest` applies a request in a later
call. Two handlers of the employee service write a profile without a look at the
structure: `UpdateDepartment` puts an employee in any department, whatever the position,
and `ConvertCandidateToEmployee` makes a profile with the position and the department
that the candidate registered with, either of which may be missing; it does not compare
them and makes no assignment. `employed` are those who have a profile, `assignPosition`
and `updatePosition` throw for anybody else; an employee who is onboarded has neither
position nor department, like those who are employed at the start. History:
`positionWasIn`, `placedIn` (the departments that these two handlers put employees in)
and `unrecorded` (the positions that employees were given and that nothing is going to
record: by a conversion, or by an `updatePosition` that was cut short).

### Configurations

`Configurations.tla`: one of the configuration collections (`CreateWithUser`,
`UpdateWithoutStatus`, `UpdateStatus`, `DeleteConfig`), with the scheduled and manual
backups of it (`HandleDailyBackup`, `BackupConfigSetup`, the rotation in `NewestOf`)
and their restoration, which empties the collection and inserts the file in two
calls. JSON keeps no identifiers: a restored policy has a string where `findById`
looks for an `ObjectId` (`found`), and `updateById` and `deleteById` miss it too. A draft
that came back from a backup can so be neither edited nor approved nor deleted, where the
backup's README promises to "Restore from any previous backup" and the services refuse an
edit only of what is not a draft. No property speaks of restored policies: what they should
have does not hold. The process may stop as a whole here
(`ConfigProcessStops`), because the scheduler's flag lives in memory.

### OnboardingChecklist

`OnboardingChecklist.tla`: `CreateOnboardingChecklist` and `UpdateTaskStatus` replace
the whole list they read (`ReplaceTasks`); `CreateOnboardingWithDefaults` pushes
(`PushTasks`), which counts up the version; `UploadComplianceDocuments` and
`CancelOnboarding` save the places of the list that changed, if the version is still
the one they read (`SaveFields`, `SavedPlaces`, `SaveIsAccepted`). A save behind the end
of a list that was replaced by a shorter one makes a task without a name
(`NamelessTask`), at which the next search throws, and leaves a null between the end and
itself (`Gap`): a loop over the tasks throws when it gets there (`EveryThrows`), and no
field of it can be set. Lists are never empty and tasks are added to none that would get
longer than `TaskLimit`; an upload has one document, where the code takes a list of them
and looks for the task of each in turn. History: `overwritten`,
`cancelled`, `done`, and `late`, the tasks that were added when no write to come would
wait for them: to a complete list, by a replacement while a save is on its way, or by a
push while a save is on its way that changes no place and so does not look at the
version.

### ReportingLines

`ReportingLines.tla`: the head of each department (`heads`), the department a position
is in and the position it reports to (`posts`), the position and supervisor of each
employee (`staff`). Two mongoose hooks set whom a position reports to, and nobody else
may: the one before an insert (`InsertPost`, with the request `CreatePost`) and the one
before an update, which reads the position, the department (`HookReadUnit`) and the
head (`HookReadHead`), and works out what is written (`Written`): an `undefined`
superior is dropped from an update, so a position that has become head keeps the
superior it had. Every `findOneAndUpdate` of a position passes the hook:
`UpdatePost` (which then copies the superior to the holders, `Propagate`),
`DeactivatePost`, `AssignPost`, `HoldPost`. `UpdateUnit` names a new head and touches no
position; `RemovePost` takes the position from those who have it before it is deleted.
`ConvertToStaff` is the conversion of a candidate, who brings a position and no
supervisor. `wasIn`, `headed`, `held` are history.

### Profiles

`Profiles.tla`: what a profile says in the fields a change request may ask for, whether
its status is an active one, the change requests, and the documents with an employee's
roles. `ApproveProfile` and `ApproveRequest` are the two writes of an approval,
`UpdateEmployeeStatus` and `UpdateStatusRoles` those of a change of status;
`AssignRoles` looks for roles and `SaveRoles` or `CreateRoles` writes. `findOne` and
`findOneAndUpdate` take any document of the employee. History: `had` (what profiles
ever said), `access` (what the last request about an employee's access asked for) and
`tangled` (the employees about whom two such requests overlapped or one was cut short).

### The proofs about these modules

`PayrollProofs.tla`: a run's decisions are saved over one another, field by field, but no
decision takes back a signature; whatever a handler read, the run has at least its
signatures when it is saved (`SignsStay`). For the configuration, every identifier in the
collection, in a backup or in a restore under way was used, so that a new policy is
written over none of them, and while a backup is under way the flag is up.

`ApplicationsProofs.tla`: what each handler carries fits what is stored; a change that is
not in the history is one that a handler in flight is about to record (`RecordsOf`), and an
assessment that is not linked is one that a handler is about to link.
Its second part is about `OnboardingChecklist`. What a save in flight has read is still in
its place, under its name, unless the list was overwritten (`GoesOn`); its version is at
most the list's; and if the list still has that version, or the save changes no place,
every task that the save has not read is named by `late` (`ReadIsThere`). Every place that
a save fills belongs to a list (`PlacesOfList`), and a save accepted by its version
therefore changes the task it was meant for (`SavedPlacesAre`): its document fits, and a
list that all of its tasks complete has no task that was never completed.

`PeopleProofs.tla` has four of the modules. Organization: every department that a handler
carries is one its position was in, wherever it moved, and what is set by hand or brought
along by a candidate is in the histories from then on; `assignPosition` carries a position
that it has recorded already when it writes the profile, and no assignment is ever deleted,
so a position that was recorded stays recorded. Appraisals: documents stay, and the
ratings a record has had only grow, so that what a check counted in two reads stays
counted. ReportingLines: whatever a handler carries is or was the head of a department of
the position; from this, as long as heads are settled, the positions form trees, by an
argument of three steps (a head of a settled department reports to nobody).
Profiles: a decision about to be written was applied, and an employee who is not tangled
has one handler that writes roles at most and one document of them.

`TimeProofs.tla`: a deduction on its way carries the days a request had while it was
approved, whatever becomes of the request; and what an accrual saves leaves `taken` alone,
since it computed the value it read.
Its second part is about `Attendance`, and most of it about one claim: that what `Worked`
counts fits the span of the punches. Sorting gives a list in order (`SortedOrders`: ranks
differ, since the punches up to one are strictly included in those up to the next, and n
different ranks fill n places). In a list in order, the minutes before each place fit the
time from the first punch to that place and half a minute for each pair (`FitsBefore`,
`FitsNext`), so the minutes of all pairs fit the span (`PairedMinutesFit`). This is an
induction over the places of a list. The theorems of induction cannot be used, since they
take an operator; the least-number principle can (`LeastOf`): of the sets 0..i one is
strictly included in no other, by `FS_StrictSubsetOrderingWellFounded`, and if some place
were wrong, the first wrong place would contradict `FitsNext`.

`MCServices.tla` puts the ten together for TLC (section 4), and `ServicesProofs.tla` shows
that this is sound: a step of the whole is a step or a stutter of each service, so every
behaviour of `MCServices` is one of every service's specification (`ServicesBehave`).
`TypeOK`, the type invariant of the run, follows from the ten theorems about types.

## 4. Runs

| run | question | bounds |
|---|---|---|
| `offers` | what holds of an offer while approvers, HR and candidate act at once and requests are cut short | 1 offer, 2 approvers, 2 handlers, 2 contracts, 1 failure |
| `offers_overlap` (violation) | is an offer sent only if all its approvers approved? | the same |
| `hiring` | order and uniqueness of a hire's facts; refinement of `HiringPromise` | 1 offer that may be accepted twice, 2 contracts, 2 signing requests and 1 offer request at a time, 2 file names, 1 failure |
| `hiring_progress` | does a signed contract lead to an employee, and to an onboarding? | 1 contract, 2 signing requests, 1 failure |
| `hiring_cut_short` (violation) | does a contract with both signatures always lead to an onboarding? | the same, with a bonus |
| `offboarding` | overlapping sign-offs, returns, approvals and revocations; two checklists created at once | 1 employee, 1 request, 2 checklists, 1 department, 1 item and the card, 2 handlers |
| `offboarding_progress` | does a request that stays ready lead to the revocation? | 1 checklist, 2 handlers, 1 failure |
| `offboarding_active` (violation) | does an employee have at most one active termination request? | 2 requests, 1 handler |
| `reimbursements` | what is approved, confirmed and refunded when approvals, rejections, confirmations and refunds overlap | 2 disputes of one payslip, 1 claim, 2 handlers, amounts 0 and 1 |
| `reimbursements_claims` (violation) | is a claim refunded exactly what was approved? | 1 claim, 1 handler, amounts 0 and 1 |
| `services` | what survives overlapping, repeated and cut-short requests in each of the ten services above | 2 handlers; 4 to 7 requests; 1 or 2 documents of a kind (3 appraisal records) |
| `appraisals_review` (violation) | does the check of an employee with too many minimum ratings lead to a termination review? | 1 employee, 3 records, threshold 2 |

`services` checks ten specifications in one run. They share no variable, and a
product of them would only multiply their states: `MCServices` chooses a `part` at
the start, and only this service moves (`Others`). Each part is therefore explored in
full, as in a run of its own, and the properties of the parts that rest hold of their
initial states (`ServicesBehave`, section 6). `TypeOK` is the type invariant of the part.
The whole has about 2.3 million states. The type invariants of offers,
offboarding and reimbursements, and `EditedWasRejected` of payroll runs, are in no run:
they are proved (section 6).

Why the bounds are enough. The races are between two handlers on one document:
a lost update needs one handler that reads and one that writes in between, so
two handlers reach them, and a third adds only repetitions of the same pair. Two
approvers tell unanimity from a single vote; amounts 0 and 1 tell apart the
absent, the zero and the positive amount, an amount within a claim and one beyond
it; two contracts of one candidate are
what a double acceptance makes; a department, an item of equipment and the card
are the three kinds of requirement, which different handlers write. One failure
is one cut at any step of any handler. The bounds on
requests (`MaxLeaveOps` to `MaxProfileOps`, 4 to 7) are what it takes to bring a
document into being, to bring it where two handlers overlap on it, and to let both
end: a leave is submitted, approved, deducted and meets an accrual; a run needs both
approvals, a freeze, a rejection and an edit. The threshold is 2 where the code has 3,
and one backup is kept where the code keeps seven: below the number and at it are the
same two cases. `PunchLimit` 4 is two pairs of punches, and the times 0, 30 and 60 seconds make pairs that
are rounded up and pairs that are not; `TaskLimit` 3 lets a list grow twice, so that it may
grow on either side of a read, and get a gap; `Asked` names one stage and status that a request changes to.
Symmetry is used for the sets whose
members the code does not tell apart (handlers, identifiers, approvers; in `services`
the handlers), never with a liveness property. The runs of offers and hiring set
`CHECK_DEADLOCK FALSE` because the pool of contracts is bounded: with none left
every handler may wait for one, and `MCReimbursements` and `ReimbursementsClaims`
because the pool of items is: with every item decided and refunded there is
nothing left to do. `Services` and `AppraisalsReview` set it because requests are
bounded: after the last one is answered a behaviour ends.
Offboarding starts a handler only if it will find
an identifier (`RoomForRequest`, `RoomForChecklist`), so it never stops and
deadlock is checked.

### Findings

1. `sendOffer` checks the approvers it read and writes `sent` in a later call. An
   approver added in between is still pending when the offer is sent
   (`SentOffersAreApproved`; the code's own message is "Cannot send offer until
   all approvers have approved").
2. `hrSignContract` cut short after the employer's signature (the notification or
   the onboarding call throws, or the process stops) leaves a contract with both
   signatures and no onboarding. A retry does not repair it: `onboard` refuses the
   employee that exists (`BothSignedIsOnboarded`; the comment says "Automatically
   trigger onboarding when BOTH employee and HR have signed").
3. `findActiveByEmployeeId` looks for `PENDING` and `UNDER_REVIEW` while the enum
   stores lower case, so the check behind "already has an active termination
   request" never matches, and no overlap is needed to make a second request
   (`OneActiveRequest`).
4. `generateRefundForClaim` refunds `claim.approvedAmount || claim.amount`. A claim
   that the specialist and the manager approve with 0 is refunded in full, although
   "Finance Staff can only refund the exact approved amount"
   (`ClaimRefundsAreApproved`). `RefundsAreAuthorised`, which holds, names this one
   exception. A dispute approved with 0 is refused a refund.
5. `checkAndTriggerTerminationReview` passes the identifier of the profile as
   `employeeNumber`. `initiateTerminationReview` finds nobody under it and throws, the
   error is caught, and the employee stays suspended without a review
   (`SuspendedIsReviewed`; the comment says "If so, send a notification and initiate
   termination review").

### Conditions in the properties

`DecisionsAreFinal` and `ApprovalIsUnanimous` speak of steps taken while no
handler works on a version of the offer that was overwritten since
(`ReadsAreFresh`): a stale write of the approvers array does undo a decision, and
the condition says exactly when. `CompletionIsNoticed` speaks of executions in
which nothing was cut short: a sign-off whose notification throws never gets to
the automatic approval. `SignedIsOnboarded` assumes in addition that nobody
converts the candidate by hand meanwhile, which blocks the hire for good.
`OneRefundEach` counts the refunds that one handler slot made, one after the other:
a second request that starts after the first ended is refused, while two requests
that overlap may both refund the item, since nothing but the query keeps them
apart. In `Reimbursements` the comments people type are assumed not to contain the
two phrases the code searches for, and the role lookups admit whoever calls.

In the services, `EveryChangeIsRecorded`, `SubmittedIsLinked` and
`PositionIsRecorded` except the moment between the two writes and a handler that was
cut short there (`Recording`, `Linking`, `WillRecord`, `lost`, `unrecorded`): nothing in the code would
repair it. `PositionIsRecorded` excepts the very position of the very employee that a cut
left unrecorded, or that a candidate brought along, and no other. `DepartmentWasOfPosition`
excepts, for each employee, the departments that `updateDepartment` or the conversion put
that employee in: the code compares neither with the position. An employee who is moved
along with the holders of another position still violates it. `CompletedWasDone` and `DocumentsFit` except lists that were replaced by one
read before a change (`overwritten`), and the former also tasks that come after the
completion, that a replacement brings while a save is on its way, or that a push brings
while a save that changes no place is (`late`): a replacement does not count up the
version, a save without a place does not compare it, and all three really happen. `TakenIsDeducted`
counts what was deducted, how often a request was deducted is up to HR:
`autoUpdateBalancesForApprovedRequests` deducts every approved request on every call.
It says nothing of `remaining`, which accruals and adjustments do overwrite.
`WorkWithinSpan` speaks of records that have punches: a correction empties them and
leaves the minutes. It allows half a minute for each pair: each is rounded for itself, and
three pairs of 30 seconds, with 30 seconds between them, lie within two minutes and a
half and count three minutes. `SuspendedWasRatedLow` counts ratings a record has had at
any time, as the check reads the current record and the published ones one after the
other.

`SupervisorWasHead` says *is or was*: a supervisor is a copy, and nothing updates it when
a department gets another head. `SettledHeadsMakeTrees` holds while no department has had
a second head and no head was in a second department (`HeadsAreSettled`). A change of
heads is enough to break it, without any overlap: create `p1` and make it head of its
department; create `p2`, which reports to `p1`; make `p2` the head and update `p1`, which
now reports to `p2`. `p2` still reports to `p1`, since an update of a head drops the
`undefined` superior instead of removing it. `getOrganizationHierarchy`, which starts from
the positions that report to nobody, misses both, and `getUserHierarchy` never ends.
`RolesFollowAccess` leaves out the employees who are `tangled`: two overlapping
`assignRoles` create two documents, and a termination deactivates one of them.
`ApprovedWasApplied` says that the profile *had* what was asked: later updates may change
it, and a rejection may be written over an approval that was applied.

## 5. Fairness

`HiringFairness` and `Fairness` assume that a handler that was started goes on
(weak fairness of each handler's steps: Node runs every callback whose awaited
call completed; a call that never completes is a failure), and that HR, or the
administrator, keeps trying what is still to be done (strong fairness of
`HrSignContract` and of `RevokeSystemAccess`: the request is possible again and
again although others may be in its way). No fairness is assumed of candidates,
approvers, departments or failures: the liveness properties do not oblige them
to act.

## 6. Proofs

| theorem | says | rests on |
|---|---|---|
| `OffersInvariant`, `OffersTypeCorrect`, `AcceptedHasContract` | types; an accepted offer has a contract | `OffersInv` |
| `DecisionsStay`, `ApprovalNeedsAll` | the two action properties of offers | `OffersInv` |
| `HiringInvariant`, `HiringTypeCorrect` | the pipeline's inductive invariant; types | `HiringInv` |
| `CountersignedEmployed`, `OneContractPerHire`, `PaidOnce`, `FilesDistinct` | the safety properties of the hire | `HiringInv` |
| `HiringImplementsPromise` | `HiringSpec` implements `HiringPromise` | `HiringInv`, step by step |
| `OffboardingInvariant`, `OffboardingTypeCorrect`, `ApprovalsAreEarned`, `AccessNeedsApproval` | types; approvals and revocations are earned | `Inv` |
| `CompletionsAreNoticed` | no complete checklist goes unnoticed | `Inv` and `CompletionIsNoticed` |
| `ReimbursementsInvariant`, `ReimbursementsTypeCorrect` | the inductive invariant of reimbursements; types | `Inv` |
| `SignaturesFollowStatus`, `RefundsNeedAuthority`, `RefundsStayWithinClaims`, `RefundsAreNotRepeated` | signatures, authority, amount and number of refunds | `Inv` |
| `PayrollRunsInvariant`, `PayrollRunsTypeCorrect`, `PaymentNeedsSignatures`, `EditsNeedRejection` | types; nothing is paid or locked without both signatures; only the period of a rejected run was edited | `PayrollRunsInv` |
| `ConfigurationsInvariant`, `ConfigurationsTypeCorrect`, `BackupsDoNotOverlap` | types; one backup at a time | `ConfigurationsInv` |
| `ApplicationsInvariant`, `ApplicationsTypeCorrect`, `ChangesAreRecorded`, `SubmissionsAreLinked` | types; history and links follow the changes | `ApplicationsInv` |
| `OrganizationInvariant`, `OrganizationTypeCorrect`, `DepartmentsAreOfPositions`, `PositionsAreRecorded` | types; departments and records of who holds a position, but for what was set by hand, brought by a candidate or cut short | `OrganizationInv` |
| `AppraisalsInvariant`, `AppraisalsTypeCorrect`, `SuspensionsAreEarned`, `ManagersPublishReopened` | types; a suspension rests on enough low ratings; a manager publishes only after a dispute | `AppraisalsInv` |
| `LinesInvariant`, `LinesTypeCorrect`, `SupervisorsAreHeads`, `SettledTrees` | types; supervisors are or were heads; settled heads make trees | `LinesInv` |
| `ProfilesInvariant`, `ProfilesTypeCorrect`, `ApprovalsWereApplied`, `RolesAreFollowing` | types; approvals were applied; roles follow access | `ProfilesInv` |
| `LeavesInvariant`, `LeavesTypeCorrect`, `DecisionsStayLogged`, `DeductionsNeedApproval`, `DeductionsAreKept` | types; decisions, deductions and what was taken | `LeavesInv` |
| `AttendanceInvariant`, `AttendanceTypeCorrect`, `WorkStaysWithinSpan`, `FinalisingNeedsApproval` | types; work fits the span of a day's punches; only approved corrections finalise | `AttendanceInv`, `PairedMinutesFit` |
| `OnboardingInvariant`, `OnboardingTypeCorrect`, `CompletionWasEarned`, `LinkedDocumentsFit` | types; complete lists were completed; documents fit their tasks | `OnboardingInv`, `SavedPlacesAre` |
| `ServicesBehave`, `ServicesTypeCorrect` | the services run together behave as each of them; the types of all | the ten theorems about types |

The assumptions are those the modules name: `OffersAssumption`,
`HiringAssumption`, `OffboardingAssumption`, `ReimbursementsAssumption` (the
bounds on failures and amounts are natural numbers, disputes and claims are
different things, `NULL` is none of the documents, calls or names, the roles with a bonus
are roles, departments, equipment and card are different things), and for the services
`PayrollRunsAssumption`, `ConfigurationsAssumption`, `ApplicationsAssumption`,
`OrganizationAssumption`, `AppraisalsAssumption`, `ReportingLinesAssumption`,
`ProfilesAssumption`, `LeavesAssumption`, `AttendanceAssumption`, `OnboardingAssumption` (the bounds are natural numbers, `NULL` is no
document, call or identifier, and the tables of the configuration have the types they are
declared with; `AppraisalsAssumption` also says that the identifiers of records are
finitely many, since records are counted). TLC evaluates
them in every run. The theorems bound neither the number of handlers nor that of
documents, and hold for any bound on failures, amounts and requests.

Every invariant and every action property that a run checks is proved. Only
model-checked: the liveness properties, which with the fairness they need are beyond the
prover, and the violations.

## 7. Not modelled, and why

- *Queries, reports, analytics, ATS scoring, authentication* read and compute; they
  change no state another handler depends on.
- *Notifications* append documents: only their failing matters, and it is one of the
  failures that cut a handler short. The hourly *escalation* adds to the text of a
  request's reason, again and again, and no step reads the text.
- *Shifts, schedules, holidays, permission limits, leave types, job templates,
  requisitions, appraisal cycles and templates, candidates' registration* are
  single-document writes of configuration: no two steps, and no two documents to agree.
  The rules of shifts and holidays that refuse a punch are left out; a refused punch
  changes nothing.
- *The other configuration collections* (allowances, brackets, grades, pay types,
  bonuses, tax rules, benefits) have services of the same shape as the one modelled.
- *The calculation of a payroll draft*: the validation of a new run refuses every one
  (`payroll-run.service.ts:44`), so nothing after it is reached.
- *The web client* keeps no authoritative state, *seeds* fill an empty database. Together
  they are well over half of the repository's lines, which is why the share of all lines
  that the models cover is small although every service with state of its own has one.

## 8. Plan

Modelled so far: offers, hiring, offboarding, reimbursements and the ten services of
section 3. What is left, in order of worth:

1. An abstract specification of a leave request (decided by somebody, deducted only after
   an approval) that `Leaves` implements, and liveness of the publication of appraisals.
2. The composition of `Appraisals` with `Offboarding` through the termination review, once
   the code passes the employee number.
3. The other configuration collections, as instances of `Configurations`, if one of them
   gets a step that the payroll policies do not have.

No module that is proved about declares a RECURSIVE operator.
