------------------------------- MODULE Hiring -------------------------------
(***************************************************************************)
(* From an accepted offer to a new employee: signContract, hrSignContract  *)
(* with the employee profile, the onboarding and the signing bonus it      *)
(* triggers, and EmployeeService.convertCandidateToEmployee, which makes   *)
(* an employee of the same candidate by another road.  The handlers of     *)
(* Offers run beside these and share the candidates, the contracts and the *)
(* bound on failures.                                                      *)
(*                                                                         *)
(* The fields of a contract document are three variables: the offer it is  *)
(* for (Offers), the employee's signature and the employer's; no handler   *)
(* writes two of them at once.  An employee is identified with the         *)
(* candidate it was, since its number is the candidate's: EMP-x for CAN-x. *)
(***************************************************************************)
EXTENDS Offers

CONSTANTS
    Caller,       \* signing requests the server has in flight at a time
    FileName,     \* names of the files candidates upload
    BonusOffers   \* the offers whose role has a signing bonus

VARIABLES
    uploads,        \* names present in uploads/documents
    signature,      \* employeeSignatureUrl of each contract, NULL before employeeSignedAt
    countersigned,  \* the contracts with employerSignedAt
    employees,      \* the e-mail of each candidate's employee profile, NULL if there is none
    onboardings,    \* default onboarding task lists made for each new employee
    bonuses,        \* signing bonus records made for each new employee
    signCalls       \* the signing handlers in flight

signingVars == <<uploads, signature, countersigned, employees, onboardings, bonuses, signCalls>>
hiringVars  == <<offers, candidates, contracts, offerCalls, failures,
                 uploads, signature, countersigned, employees, onboardings, bonuses, signCalls>>

\* hrSignContract takes the candidate's e-mail or one of HR's choice.
Email == {"own", "custom"}

\* saveUploadedFile prefixes the name with the candidate's number.
StoredFile == Candidate \X FileName

SignCall ==
    [at        : {"sign.upload", "sign.save",
                  "hr.hired", "hr.email", "hr.employee", "hr.countersign",
                  "hr.onboarding", "hr.bonus",
                  "convert.employee", "convert.hired"},
     contract  : Contract \cup {NULL},
     candidate : Candidate,
     file      : StoredFile \cup {NULL},
     email     : Email]

ASSUME HiringAssumption ==
    /\ BonusOffers \subseteq Offer
    /\ NULL \notin StoredFile \cup SignCall \cup Email

PartyTo(c) == CandidateOf[contracts[c]]

CallerIdle(r) == signCalls[r] = NULL

CallerAt(r, where) == signCalls[r] # NULL /\ signCalls[r].at = where

CallerBegin(r, call) == signCalls' = [signCalls EXCEPT ![r] = call]

CallerGoto(r, where) == signCalls' = [signCalls EXCEPT ![r].at = where]

CallerFinish(r) == signCalls' = [signCalls EXCEPT ![r] = NULL]

-----------------------------------------------------------------------------
(* signContract: the candidate uploads the signed contract.                *)

SignContract(r, c, name) ==
    /\ CallerIdle(r)
    /\ contracts[c] # NULL
    /\ CallerBegin(r, [at |-> "sign.upload", contract |-> c, candidate |-> PartyTo(c),
                       file |-> <<PartyTo(c), name>>, email |-> "own"])
    /\ UNCHANGED <<offerVars, uploads, signature, countersigned, employees,
                   onboardings, bonuses>>

\* Mutant: the file is written over.
SignUploadOver(r) ==
    /\ CallerAt(r, "sign.upload")
    /\ CallerGoto(r, "sign.save")
    /\ uploads' = uploads \cup {signCalls[r].file}
    /\ UNCHANGED <<offerVars, signature, countersigned, employees, onboardings, bonuses>>

\* The existence test and the write are one synchronous call.
SignUpload(r) ==
    /\ CallerAt(r, "sign.upload")
    /\ LET file == signCalls[r].file
       IN  IF file \in uploads
           THEN CallerFinish(r) /\ UNCHANGED uploads
           ELSE CallerGoto(r, "sign.save") /\ uploads' = uploads \cup {file}
    /\ UNCHANGED <<offerVars, signature, countersigned, employees, onboardings, bonuses>>

\* Mutant: the name is stored without the candidate's prefix.
SignSaveBareName(r) ==
    /\ CallerAt(r, "sign.save")
    /\ signature' = [signature EXCEPT ![signCalls[r].contract] = signCalls[r].file[2]]
    /\ CallerFinish(r)
    /\ UNCHANGED <<offerVars, uploads, countersigned, employees, onboardings, bonuses>>

SignSave(r) ==
    /\ CallerAt(r, "sign.save")
    /\ signature' = [signature EXCEPT ![signCalls[r].contract] = signCalls[r].file]
    /\ CallerFinish(r)
    /\ UNCHANGED <<offerVars, uploads, countersigned, employees, onboardings, bonuses>>

-----------------------------------------------------------------------------
(* hrSignContract: the employer signs and the candidate becomes an employee.*)

HrSignContract(r, c, email) ==
    /\ CallerIdle(r)
    /\ signature[c] # NULL
    /\ CallerBegin(r, [at |-> "hr.hired", contract |-> c, candidate |-> PartyTo(c),
                       file |-> NULL, email |-> email])
    /\ UNCHANGED <<offerVars, uploads, signature, countersigned, employees,
                   onboardings, bonuses>>

HrSaveHired(r) ==
    /\ CallerAt(r, "hr.hired")
    /\ SetStatus(signCalls[r].candidate, "HIRED")
    /\ CallerGoto(r, "hr.email")
    /\ UNCHANGED <<offers, contracts, offerCalls, failures, uploads, signature,
                   countersigned, employees, onboardings, bonuses>>

\* Mutant: the contract is signed before the employee is created.
HrCheckEmailThenCountersign(r) ==
    /\ CallerAt(r, "hr.email")
    /\ IF employees[signCalls[r].candidate] = signCalls[r].email
       THEN CallerFinish(r)
       ELSE CallerGoto(r, "hr.countersign")
    /\ UNCHANGED <<offerVars, uploads, signature, countersigned, employees,
                   onboardings, bonuses>>

\* Mutant: a candidate already marked HIRED is refused.
HrCheckEmailOfUnhired(r) ==
    /\ CallerAt(r, "hr.email")
    /\ IF \/ employees[signCalls[r].candidate] = signCalls[r].email
          \/ candidates[signCalls[r].candidate] = "HIRED"
       THEN CallerFinish(r)
       ELSE CallerGoto(r, "hr.employee")
    /\ UNCHANGED <<offerVars, uploads, signature, countersigned, employees,
                   onboardings, bonuses>>

\* onboard refuses an e-mail another profile has ...
HrCheckEmail(r) ==
    /\ CallerAt(r, "hr.email")
    /\ IF employees[signCalls[r].candidate] = signCalls[r].email
       THEN CallerFinish(r)
       ELSE CallerGoto(r, "hr.employee")
    /\ UNCHANGED <<offerVars, uploads, signature, countersigned, employees,
                   onboardings, bonuses>>

\* Mutant: an existing profile is reused.
ReuseEmployee(r, next) ==
    /\ employees' = [employees EXCEPT ![signCalls[r].candidate] = signCalls[r].email]
    /\ CallerGoto(r, next)

\* ... and the unique index an employee number another profile has.
InsertEmployee(r, next) ==
    LET p == signCalls[r].candidate
    IN  IF employees[p] # NULL
        THEN CallerFinish(r) /\ UNCHANGED employees
        ELSE /\ employees' = [employees EXCEPT ![p] = signCalls[r].email]
             /\ CallerGoto(r, next)

\* Mutant: the onboarding starts before the employer signs.
HrCreateEmployeeThenOnboard(r) ==
    /\ CallerAt(r, "hr.employee")
    /\ InsertEmployee(r, "hr.onboarding")
    /\ UNCHANGED <<offerVars, uploads, signature, countersigned, onboardings, bonuses>>

HrCreateEmployee(r) ==
    /\ CallerAt(r, "hr.employee")
    /\ InsertEmployee(r, "hr.countersign")
    /\ UNCHANGED <<offerVars, uploads, signature, countersigned, onboardings, bonuses>>

\* Mutant: the handler returns after the signature.
HrCountersignOnly(r) ==
    /\ CallerAt(r, "hr.countersign")
    /\ countersigned' = countersigned \cup {signCalls[r].contract}
    /\ CallerFinish(r)
    /\ UNCHANGED <<offerVars, uploads, signature, employees, onboardings, bonuses>>

HrCountersign(r) ==
    /\ CallerAt(r, "hr.countersign")
    /\ countersigned' = countersigned \cup {signCalls[r].contract}
    /\ CallerGoto(r, "hr.onboarding")
    /\ UNCHANGED <<offerVars, uploads, signature, employees, onboardings, bonuses>>

\* createOnboardingWithDefaults, then the contract is read again.
HrOnboard(r) ==
    /\ CallerAt(r, "hr.onboarding")
    /\ onboardings' = [onboardings EXCEPT ![signCalls[r].candidate] = @ + 1]
    /\ IF contracts[signCalls[r].contract] \in BonusOffers
       THEN CallerGoto(r, "hr.bonus")
       ELSE CallerFinish(r)
    /\ UNCHANGED <<offerVars, uploads, signature, countersigned, employees, bonuses>>

HrCreateBonus(r) ==
    /\ CallerAt(r, "hr.bonus")
    /\ bonuses' = [bonuses EXCEPT ![signCalls[r].candidate] = @ + 1]
    /\ CallerFinish(r)
    /\ UNCHANGED <<offerVars, uploads, signature, countersigned, employees, onboardings>>

\* processSigningBonusForNewHire swallows a missing configuration.
HrBonusNotConfigured(r) ==
    /\ CallerAt(r, "hr.bonus")
    /\ CallerFinish(r)
    /\ UNCHANGED <<offerVars, uploads, signature, countersigned, employees,
                   onboardings, bonuses>>

-----------------------------------------------------------------------------
(* convertCandidateToEmployee.                                             *)

ConvertCandidate(r, p) ==
    /\ CallerIdle(r)
    /\ candidates[p] # "HIRED"
    /\ employees[p] = NULL
    /\ CallerBegin(r, [at |-> "convert.employee", contract |-> NULL, candidate |-> p,
                       file |-> NULL, email |-> "own"])
    /\ UNCHANGED <<offerVars, uploads, signature, countersigned, employees,
                   onboardings, bonuses>>

ConvertCreateEmployee(r) ==
    /\ CallerAt(r, "convert.employee")
    /\ InsertEmployee(r, "convert.hired")
    /\ UNCHANGED <<offerVars, uploads, signature, countersigned, onboardings, bonuses>>

ConvertSaveHired(r) ==
    /\ CallerAt(r, "convert.hired")
    /\ SetStatus(signCalls[r].candidate, "HIRED")
    /\ CallerFinish(r)
    /\ UNCHANGED <<offers, contracts, offerCalls, failures, uploads, signature,
                   countersigned, employees, onboardings, bonuses>>

SignCallFails(r) ==
    /\ signCalls[r] # NULL
    /\ failures < MaxFailures
    /\ failures' = failures + 1
    /\ CallerFinish(r)
    /\ UNCHANGED <<offers, candidates, contracts, offerCalls, uploads, signature,
                   countersigned, employees, onboardings, bonuses>>

-----------------------------------------------------------------------------

HiringInit ==
    /\ OffersInit
    /\ uploads = {}
    /\ signature = [c \in Contract |-> NULL]
    /\ countersigned = {}
    /\ employees = [p \in Candidate |-> NULL]
    /\ onboardings = [p \in Candidate |-> 0]
    /\ bonuses = [p \in Candidate |-> 0]
    /\ signCalls = [r \in Caller |-> NULL]

HrRequest(r) == \E c \in Contract, email \in Email : HrSignContract(r, c, email)

SignRequest(r) ==
    \/ \E c \in Contract, name \in FileName : SignContract(r, c, name)
    \/ HrRequest(r)
    \/ \E p \in Candidate : ConvertCandidate(r, p)

SignStep(r) ==
    \/ SignUpload(r) \/ SignSave(r)
    \/ HrSaveHired(r) \/ HrCheckEmail(r) \/ HrCreateEmployee(r) \/ HrCountersign(r)
    \/ HrOnboard(r) \/ HrCreateBonus(r) \/ HrBonusNotConfigured(r)
    \/ ConvertCreateEmployee(r) \/ ConvertSaveHired(r)

HiringNext ==
    \/ OffersNext /\ UNCHANGED signingVars
    \/ \E r \in Caller : SignRequest(r) \/ SignStep(r) \/ SignCallFails(r)

HiringSpec == HiringInit /\ [][HiringNext]_hiringVars

\* Node runs on every callback it has (weak fairness of each handler), and HR
\* keeps trying to countersign a contract that is ready for it (strong fairness:
\* the request may be refused or find the server busy with others in between).
HiringFairness ==
    /\ \A r \in Caller : WF_hiringVars(SignStep(r))
    /\ \A r \in Caller, c \in Contract : SF_hiringVars(HrSignContract(r, c, "own"))

FairHiringSpec == HiringSpec /\ HiringFairness

-----------------------------------------------------------------------------
(* The refinement mapping.                                                 *)

Party == [c \in Contract |-> IF contracts[c] = NULL THEN NULL ELSE PartyTo(c)]

Promise == INSTANCE HiringPromise WITH
    NoParty       <- NULL,
    party         <- Party,
    signed        <- {c \in Contract : signature[c] # NULL},
    employed      <- {p \in Candidate : employees[p] # NULL},
    onboarded     <- onboardings,
    paid          <- bonuses

-----------------------------------------------------------------------------
(* Properties.                                                             *)

\* Every collection, file and call in flight has its type.
HiringTypeOK ==
    /\ OffersTypeOK
    /\ uploads \subseteq StoredFile
    /\ signature \in [Contract -> StoredFile \cup {NULL}]
    /\ countersigned \subseteq Contract
    /\ employees \in [Candidate -> Email \cup {NULL}]
    /\ onboardings \in [Candidate -> Nat]
    /\ bonuses \in [Candidate -> Nat]
    /\ signCalls \in [Caller -> SignCall \cup {NULL}]

\* The employer signs a contract only after the employee has, and "ONLY ...
\* AFTER successful employee creation": whatever overlaps or fails, a contract
\* with both signatures belongs to a candidate that has an employee profile.
CountersignedAreEmployed ==
    \A c \in countersigned :
      /\ signature[c] # NULL
      /\ contracts[c] # NULL
      /\ employees[PartyTo(c)] # NULL

\* A candidate that accepted several offers, or one offer several times, is
\* hired under one contract only.
HiredUnderOneContract ==
    \A c, d \in countersigned : PartyTo(c) = PartyTo(d) => c = d

HiredContract(p) == {c \in countersigned : PartyTo(c) = p}

\* However often HR repeats a request, a hire makes the default onboarding
\* tasks once and the signing bonus once, both only for a countersigned
\* contract, and the bonus only if that contract has one.
HireIsPaidOnce ==
    \A p \in Candidate :
      /\ bonuses[p] <= onboardings[p]
      /\ onboardings[p] <= 1
      /\ onboardings[p] = 1 => HiredContract(p) # {}
      /\ bonuses[p] = 1 => \E c \in HiredContract(p) : contracts[c] \in BonusOffers

\* No two contracts are signed with the same stored file, and a signed
\* contract's file is on disk.
SignedFilesAreDistinct ==
    \A c, d \in Contract :
      signature[c] # NULL => /\ signature[c] \in uploads
                             /\ signature[c] = signature[d] => c = d

\* The pipeline does what HiringPromise says, step by step.
HiringKeepsPromise == Promise!PromiseSpec

Onboarded(c) == contracts[c] # NULL /\ onboardings[PartyTo(c)] = 1

\* A contract the employee signed leads to an employee profile, even if
\* requests are cut short, as long as HR keeps trying.
SignedIsEmployed ==
    \A c \in Contract :
      signature[c] # NULL ~> contracts[c] # NULL /\ employees[PartyTo(c)] # NULL

\* As long as nothing is cut short and no one converts the candidate by hand,
\* it leads to the onboarding too.
Undisturbed ==
    /\ failures = 0
    /\ \A r \in Caller : ~ CallerAt(r, "convert.employee")

SignedIsOnboarded ==
    []Undisturbed => \A c \in Contract : signature[c] # NULL ~> Onboarded(c)

\* hrSignContract: "Automatically trigger onboarding when BOTH employee and HR
\* have signed".
BothSignedIsOnboarded ==
    \A c \in Contract : (signature[c] # NULL /\ c \in countersigned) ~> Onboarded(c)
=============================================================================
