----------------------------- MODULE PayrollRuns -----------------------------
(***************************************************************************)
(* The approval of a payroll run: a manager and then the finance staff     *)
(* approve it or reject it, the manager locks and unlocks it, and its      *)
(* payslips are paid.                                                      *)
(*                                                                         *)
(* Every handler reads the run, checks its status, and saves the fields it *)
(* has changed.  Runs and payslips come from outside.  Who approves, the   *)
(* reasons and the mails are left out.  runOps bounds the exploration.     *)
(***************************************************************************)
EXTENDS Integers, Handlers

CONSTANTS
    PayrollRun,     \* identifiers of payroll runs
    Payslip,        \* identifiers of payslips
    RunOf,          \* the run of a payslip
    MaxRunOps       \* bound on the requests that are handled

VARIABLES
    runs,           \* the payroll run with an identifier
    paidSlips,      \* the payslips whose payment status is PAID
    runCalls,       \* the handlers in flight
    wasRejected,    \* history: the runs that were rejected
    runOps          \* the requests that were handled or are in flight

runVars == <<runs, paidSlips, runCalls, wasRejected, runOps>>

PayRollStatus ==
    {"DRAFT", "UNDER_REVIEW", "PENDING_FINANCE_APPROVAL", "REJECTED",
     "APPROVED", "LOCKED", "UNLOCKED"}

\* managerSigned and financeSigned: the approval dates are set.  edited: the
\* period has been edited.
RunDoc ==
    [status : PayRollStatus, paid : BOOLEAN, edited : BOOLEAN,
     managerSigned : BOOLEAN, financeSigned : BOOLEAN]

RunCall ==
    [at : {"run.save"}, run : PayrollRun, read : RunDoc, new : RunDoc]
      \cup
    [at : {"period.save"}, run : PayrollRun]
      \cup
    [at : {"payslips.save"}, left : SUBSET Payslip]

ASSUME PayrollRunsAssumption ==
    /\ RunOf \in [Payslip -> PayrollRun]
    /\ MaxRunOps \in Nat
    /\ NULL \notin RunCall

-----------------------------------------------------------------------------
(* Decisions: what each makes of the run that was read.                    *)

ApprovedByManager(run) ==
    [run EXCEPT !.status = "PENDING_FINANCE_APPROVAL", !.managerSigned = TRUE]

RunRejected(run) ==
    [run EXCEPT !.status = "REJECTED", !.paid = FALSE]

ApprovedByFinance(run) ==
    [run EXCEPT !.status = "APPROVED", !.financeSigned = TRUE, !.paid = TRUE]

Frozen(run) == [run EXCEPT !.status = "LOCKED"]

Unfrozen(run) == [run EXCEPT !.status = "UNLOCKED"]

RunIn(r, statuses) == runs[r].status \in statuses

ReadAndChange(a, r, Change(_)) ==
    /\ Idle(runCalls, a)
    /\ runCalls' = Begin(runCalls, a,
         [at |-> "run.save", run |-> r, read |-> runs[r], new |-> Change(runs[r])])
    /\ UNCHANGED <<runs, paidSlips, wasRejected>>

ApprovePayrollByManager(a, r) ==
    /\ RunIn(r, {"UNDER_REVIEW"})
    /\ ReadAndChange(a, r, ApprovedByManager)

RejectPayroll(a, r) ==
    /\ RunIn(r, {"UNDER_REVIEW", "PENDING_FINANCE_APPROVAL"})
    /\ ReadAndChange(a, r, RunRejected)

\* Mutant: finance does not wait for the manager.
ApprovePayrollUnseen(a, r) ==
    /\ RunIn(r, {"UNDER_REVIEW", "PENDING_FINANCE_APPROVAL"})
    /\ ReadAndChange(a, r, ApprovedByFinance)

ApprovePayrollByFinance(a, r) ==
    /\ RunIn(r, {"PENDING_FINANCE_APPROVAL"})
    /\ ReadAndChange(a, r, ApprovedByFinance)

FreezePayroll(a, r) ==
    /\ RunIn(r, {"APPROVED"})
    /\ runs[r].paid
    /\ ReadAndChange(a, r, Frozen)

UnfreezePayroll(a, r) ==
    /\ RunIn(r, {"LOCKED"})
    /\ ReadAndChange(a, r, Unfrozen)

RunSave(a) ==
    /\ At(runCalls, a, "run.save")
    /\ LET call == runCalls[a]
       IN  /\ runs' = [runs EXCEPT ![call.run] = Saved(@, call.read, call.new)]
           /\ wasRejected' = IF call.new.status = "REJECTED"
                             THEN wasRejected \cup {call.run} ELSE wasRejected
    /\ runCalls' = Finish(runCalls, a)
    /\ UNCHANGED paidSlips

-----------------------------------------------------------------------------

EditPayrollPeriod(a, r) ==
    /\ Idle(runCalls, a)
    /\ RunIn(r, {"REJECTED"})
    /\ runCalls' = Begin(runCalls, a, [at |-> "period.save", run |-> r])
    /\ UNCHANGED <<runs, paidSlips, wasRejected>>

PeriodSave(a) ==
    /\ At(runCalls, a, "period.save")
    /\ runs' = [runs EXCEPT ![runCalls[a].run].edited = TRUE]
    /\ runCalls' = Finish(runCalls, a)
    /\ UNCHANGED <<paidSlips, wasRejected>>

\* All payslips of the run are saved, in any order.
GenerateAndDistributePayslips(a, r) ==
    /\ Idle(runCalls, a)
    /\ runs[r].paid
    /\ \E p \in Payslip : RunOf[p] = r
    /\ runCalls' = Begin(runCalls, a,
         [at |-> "payslips.save", left |-> {p \in Payslip : RunOf[p] = r}])
    /\ UNCHANGED <<runs, paidSlips, wasRejected>>

PayslipSave(a) ==
    /\ At(runCalls, a, "payslips.save")
    /\ \E p \in runCalls[a].left :
         LET others == runCalls[a].left \ {p}
         IN  /\ paidSlips' = paidSlips \cup {p}
             /\ runCalls' = IF others = {} THEN Finish(runCalls, a)
                            ELSE [runCalls EXCEPT ![a].left = others]
    /\ UNCHANGED <<runs, wasRejected>>

\* A database call throws, or the process stops.
RunCallFails(a) ==
    /\ ~ Idle(runCalls, a)
    /\ runCalls' = Finish(runCalls, a)
    /\ UNCHANGED <<runs, paidSlips, wasRejected>>

-----------------------------------------------------------------------------

NewRun(status) ==
    [status |-> status, paid |-> FALSE, edited |-> FALSE,
     managerSigned |-> FALSE, financeSigned |-> FALSE]

PayrollRunsInit ==
    /\ runs \in [PayrollRun -> {NewRun("DRAFT"), NewRun("UNDER_REVIEW")}]
    /\ paidSlips = {}
    /\ runCalls = [a \in Agent |-> NULL]
    /\ wasRejected = {}
    /\ runOps = 0

RequestRun(a, r) ==
    \/ ApprovePayrollByManager(a, r) \/ RejectPayroll(a, r)
    \/ ApprovePayrollByFinance(a, r)
    \/ FreezePayroll(a, r) \/ UnfreezePayroll(a, r)
    \/ EditPayrollPeriod(a, r) \/ GenerateAndDistributePayslips(a, r)

RunStep(a) == RunSave(a) \/ PeriodSave(a) \/ PayslipSave(a) \/ RunCallFails(a)

PayrollRunsNext ==
    \/ /\ runOps < MaxRunOps
       /\ runOps' = runOps + 1
       /\ \E a \in Agent, r \in PayrollRun : RequestRun(a, r)
    \/ /\ runOps' = runOps
       /\ \E a \in Agent : RunStep(a)

PayrollRunsSpec == PayrollRunsInit /\ [][PayrollRunsNext]_runVars

-----------------------------------------------------------------------------
(* Properties.                                                             *)

\* Every run, payslip, call in flight and history has its type.
PayrollRunsTypeOK ==
    /\ runs \in [PayrollRun -> RunDoc]
    /\ paidSlips \subseteq Payslip
    /\ runCalls \in [Agent -> RunCall \cup {NULL}]
    /\ wasRejected \subseteq PayrollRun
    /\ runOps \in 0..MaxRunOps

SignedByBoth(r) == runs[r].managerSigned /\ runs[r].financeSigned

\* Nothing is paid without both signatures: a run that is paid, or that was
\* approved, locked or unlocked, has been approved by the manager and by
\* finance, and so has the run of a payslip that is paid, although approvals
\* and rejections overwrite each other's status.
PaidWasSigned ==
    /\ \A r \in PayrollRun :
         runs[r].paid \/ RunIn(r, {"APPROVED", "LOCKED", "UNLOCKED"}) => SignedByBoth(r)
    /\ \A p \in paidSlips : SignedByBoth(RunOf[p])

\* The period is edited only of a run that was rejected, even when another
\* decision replaces the rejection before the edit is written.
EditedWasRejected == \A r \in PayrollRun : runs[r].edited => r \in wasRejected

=============================================================================
