---------------------------- MODULE PayrollProofs ----------------------------
(***************************************************************************)
(* Payroll runs: type correctness, PaidWasSigned and EditedWasRejected,    *)
(* for any number of runs, payslips and requests.  Decisions are saved     *)
(* over one another, field by field.  What keeps a paid run signed is that *)
(* no decision takes a signature back: whatever a handler read, the run    *)
(* has at least its signatures when it saves.                              *)
(*                                                                         *)
(* Configurations: type correctness and OneBackupAtATime, for any number   *)
(* of policies, requests and backups.  Every identifier in the collection, *)
(* in a file or in a restore under way was used: a new policy is written   *)
(* over none of them.                                                      *)
(***************************************************************************)
EXTENDS PayrollRuns, Configurations, SequenceTheorems, FiniteSetTheorems, TLAPS

(***************************************************************************)
(* Payroll runs.                                                           *)
(***************************************************************************)

\* later has the signatures of doc.
SignsStay(doc, later) ==
    /\ doc.managerSigned => later.managerSigned
    /\ doc.financeSigned => later.financeSigned

\* The status and the payment of doc have the signatures they call for.
Warranted(doc) ==
    /\ doc.paid \/ doc.status \in {"APPROVED", "LOCKED", "UNLOCKED"}
         => doc.managerSigned /\ doc.financeSigned
    /\ doc.status = "PENDING_FINANCE_APPROVAL" => doc.managerSigned

\* What a decision on its way makes of the run that it read.
DecisionSound(call) ==
    /\ SignsStay(call.read, runs[call.run])
    /\ SignsStay(call.read, call.new)
    /\ Warranted(call.new)
    /\ call.new.edited = call.read.edited

RunCallSound(call) ==
    /\ call.at = "run.save" => DecisionSound(call)
    /\ call.at = "period.save" => call.run \in wasRejected
    /\ call.at = "payslips.save" => \A p \in call.left : SignedByBoth(RunOf[p])

RunCallsSound == \A a \in Agent : ~ Idle(runCalls, a) => RunCallSound(runCalls[a])

RunDocsSound ==
    \A r \in PayrollRun :
      /\ Warranted(runs[r])
      /\ runs[r].status = "REJECTED" => r \in wasRejected
      /\ runs[r].edited => r \in wasRejected

SlipsSound == \A p \in paidSlips : SignedByBoth(RunOf[p])

PayrollRunsInv == PayrollRunsTypeOK /\ RunCallsSound /\ RunDocsSound /\ SlipsSound

-----------------------------------------------------------------------------

THEOREM PayrollRunsInitially == PayrollRunsInit => PayrollRunsInv
<1> SUFFICES ASSUME PayrollRunsInit PROVE PayrollRunsInv
  OBVIOUS
<1>1. \A status \in {"DRAFT", "UNDER_REVIEW"} :
        NewRun(status) \in RunDoc /\ Warranted(NewRun(status)) /\ ~ NewRun(status).edited
                                 /\ NewRun(status).status # "REJECTED"
  BY DEF NewRun, RunDoc, PayRollStatus, Warranted
<1>2. /\ runs \in [PayrollRun -> RunDoc]
      /\ RunDocsSound
  BY <1>1 DEF PayrollRunsInit, RunDocsSound
<1>3. runCalls \in [Agent -> RunCall \cup {NULL}] /\ RunCallsSound
  BY DEF PayrollRunsInit, RunCallsSound, Idle
<1> QED BY <1>2, <1>3, PayrollRunsAssumption
        DEF PayrollRunsInit, PayrollRunsInv, PayrollRunsTypeOK, SlipsSound

\* The fields of a call at each of its steps.
LEMMA RunCallFields ==
    ASSUME NEW call \in RunCall
    PROVE  /\ call.at \in {"run.save", "period.save", "payslips.save"}
           /\ call.at = "run.save" =>
                call.run \in PayrollRun /\ call.read \in RunDoc /\ call.new \in RunDoc
           /\ call.at = "period.save" => call.run \in PayrollRun
           /\ call.at = "payslips.save" => call.left \subseteq Payslip
BY DEF RunCall

\* The calls after one agent begins call, when nothing else has changed.
LEMMA RunBegins ==
    ASSUME PayrollRunsInv, NEW a \in Agent, NEW call \in RunCall, RunCallSound(call),
           runCalls' = Begin(runCalls, a, call), runOps' \in 0..MaxRunOps,
           UNCHANGED <<runs, paidSlips, wasRejected>>
    PROVE  PayrollRunsInv'
<1>1. PayrollRunsTypeOK'
  BY DEF PayrollRunsInv, PayrollRunsTypeOK, Begin
<1>2. RunCallSound(call)'
  BY DEF RunCallSound, DecisionSound, SignedByBoth
<1>3. ASSUME NEW b \in Agent, b # a, ~ Idle(runCalls, b)', RunCallsSound
      PROVE  RunCallSound(runCalls[b])'
  <2>1. runCalls'[b] = runCalls[b]
    BY <1>3 DEF PayrollRunsInv, PayrollRunsTypeOK, Begin
  <2>2. RunCallSound(runCalls[b])
    BY <1>3, <2>1 DEF RunCallsSound, Idle
  <2> QED BY <2>1, <2>2 DEF RunCallSound, DecisionSound, SignedByBoth
<1>4. runCalls'[a] = call
  BY DEF PayrollRunsInv, PayrollRunsTypeOK, Begin
<1>5. RunCallsSound'
  BY <1>2, <1>3, <1>4 DEF PayrollRunsInv, RunCallsSound
<1>6. RunDocsSound' /\ SlipsSound'
  BY DEF PayrollRunsInv, RunDocsSound, SlipsSound, SignedByBoth
<1> QED BY <1>1, <1>5, <1>6 DEF PayrollRunsInv

\* Calls stay sound while signatures and rejections are only added.
LEMMA RunCallsStay ==
    ASSUME PayrollRunsInv, NEW a \in Agent, runCalls' = Finish(runCalls, a),
           runs' \in [PayrollRun -> RunDoc],
           \A r \in PayrollRun : SignsStay(runs[r], runs'[r]),
           wasRejected \subseteq wasRejected'
    PROVE  RunCallsSound' /\ runCalls' \in [Agent -> RunCall \cup {NULL}]
<1>1. runCalls' \in [Agent -> RunCall \cup {NULL}]
  BY DEF PayrollRunsInv, PayrollRunsTypeOK, Finish
<1>2. ASSUME NEW b \in Agent, ~ Idle(runCalls, b)' PROVE RunCallSound(runCalls[b])'
  <2>1. b # a /\ runCalls'[b] = runCalls[b]
    BY <1>2 DEF PayrollRunsInv, PayrollRunsTypeOK, Finish, Idle
  <2>2. RunCallSound(runCalls[b]) /\ runCalls[b] \in RunCall
    BY <1>2, <2>1 DEF PayrollRunsInv, RunCallsSound, Idle, PayrollRunsTypeOK
  <2> DEFINE call == runCalls[b]
  <2>3. /\ call.at = "run.save" => call.run \in PayrollRun
        /\ call.at = "payslips.save" => call.left \subseteq Payslip
    BY <2>2, RunCallFields
  <2>4. call.at = "run.save" => DecisionSound(call)'
    BY <2>1, <2>2, <2>3 DEF RunCallSound, DecisionSound, SignsStay
  <2>5. call.at = "payslips.save" => \A p \in call.left : SignedByBoth(RunOf[p])'
    BY <2>2, <2>3, PayrollRunsAssumption DEF RunCallSound, SignedByBoth, SignsStay
  <2> QED BY <2>1, <2>2, <2>4, <2>5 DEF RunCallSound
<1> QED BY <1>1, <1>2 DEF RunCallsSound

-----------------------------------------------------------------------------
(* The decisions.                                                          *)

\* Every decision on a warranted run makes a warranted one.
LEMMA DecisionsAreWarranted ==
    ASSUME NEW run \in RunDoc, Warranted(run)
    PROVE  /\ run.status = "UNDER_REVIEW" =>
                LET new == ApprovedByManager(run)
                IN  new \in RunDoc /\ SignsStay(run, new) /\ Warranted(new) /\ new.edited = run.edited
           /\ LET new == RunRejected(run)
              IN  new \in RunDoc /\ SignsStay(run, new) /\ Warranted(new) /\ new.edited = run.edited
           /\ run.status = "PENDING_FINANCE_APPROVAL" =>
                LET new == ApprovedByFinance(run)
                IN  new \in RunDoc /\ SignsStay(run, new) /\ Warranted(new) /\ new.edited = run.edited
           /\ run.status = "APPROVED" =>
                LET new == Frozen(run)
                IN  new \in RunDoc /\ SignsStay(run, new) /\ Warranted(new) /\ new.edited = run.edited
           /\ run.status = "LOCKED" =>
                LET new == Unfrozen(run)
                IN  new \in RunDoc /\ SignsStay(run, new) /\ Warranted(new) /\ new.edited = run.edited
BY DEF ApprovedByManager, RunRejected, ApprovedByFinance, Frozen, Unfrozen,
       RunDoc, PayRollStatus, SignsStay, Warranted

LEMMA DecisionBegins ==
    ASSUME PayrollRunsInv, NEW a \in Agent, NEW r \in PayrollRun, NEW new \in RunDoc,
           SignsStay(runs[r], new), Warranted(new), new.edited = runs[r].edited,
           runCalls' = Begin(runCalls, a,
             [at |-> "run.save", run |-> r, read |-> runs[r], new |-> new]),
           UNCHANGED <<runs, paidSlips, wasRejected>>, runOps' \in 0..MaxRunOps
    PROVE  PayrollRunsInv'
<1> DEFINE call == [at |-> "run.save", run |-> r, read |-> runs[r], new |-> new]
<1>1. call \in RunCall
  BY DEF RunCall, PayrollRunsInv, PayrollRunsTypeOK
<1>2. RunCallSound(call)
  BY DEF RunCallSound, DecisionSound, SignsStay
<1> HIDE DEF call
<1>3. runCalls' = Begin(runCalls, a, call)
  BY DEF call
<1> QED BY <1>1, <1>2, <1>3, RunBegins

LEMMA RequestRunStep ==
    ASSUME PayrollRunsInv, NEW a \in Agent, NEW r \in PayrollRun, RequestRun(a, r),
           runOps' \in 0..MaxRunOps
    PROVE  PayrollRunsInv'
<1>0. runs[r] \in RunDoc /\ Warranted(runs[r]) /\ (runs[r].status = "REJECTED" => r \in wasRejected)
  BY DEF PayrollRunsInv, PayrollRunsTypeOK, RunDocsSound
<1>1. CASE ApprovePayrollByManager(a, r)
  BY <1>0, <1>1, DecisionsAreWarranted, DecisionBegins
     DEF ApprovePayrollByManager, ReadAndChange, RunIn
<1>2. CASE RejectPayroll(a, r)
  BY <1>0, <1>2, DecisionsAreWarranted, DecisionBegins DEF RejectPayroll, ReadAndChange
<1>3. CASE ApprovePayrollByFinance(a, r)
  BY <1>0, <1>3, DecisionsAreWarranted, DecisionBegins
     DEF ApprovePayrollByFinance, ReadAndChange, RunIn
<1>4. CASE FreezePayroll(a, r)
  BY <1>0, <1>4, DecisionsAreWarranted, DecisionBegins DEF FreezePayroll, ReadAndChange, RunIn
<1>5. CASE UnfreezePayroll(a, r)
  BY <1>0, <1>5, DecisionsAreWarranted, DecisionBegins DEF UnfreezePayroll, ReadAndChange, RunIn
<1>6. CASE EditPayrollPeriod(a, r)
  <2> DEFINE call == [at |-> "period.save", run |-> r]
  <2>1. call \in RunCall /\ RunCallSound(call)
    BY <1>0, <1>6 DEF RunCall, RunCallSound, EditPayrollPeriod, RunIn
  <2>2. runCalls' = Begin(runCalls, a, call) /\ UNCHANGED <<runs, paidSlips, wasRejected>>
    BY <1>6 DEF EditPayrollPeriod
  <2> HIDE DEF call
  <2> QED BY <2>1, <2>2, RunBegins
<1>7. CASE GenerateAndDistributePayslips(a, r)
  <2> DEFINE call == [at |-> "payslips.save", left |-> {p \in Payslip : RunOf[p] = r}]
  <2>1. SignedByBoth(r)
    BY <1>0, <1>7 DEF Warranted, SignedByBoth, GenerateAndDistributePayslips
  <2>2. call \in RunCall /\ RunCallSound(call)
    BY <2>1 DEF RunCall, RunCallSound
  <2>3. runCalls' = Begin(runCalls, a, call) /\ UNCHANGED <<runs, paidSlips, wasRejected>>
    BY <1>7 DEF GenerateAndDistributePayslips
  <2> HIDE DEF call
  <2> QED BY <2>2, <2>3, RunBegins
<1> QED BY <1>1, <1>2, <1>3, <1>4, <1>5, <1>6, <1>7 DEF RequestRun

-----------------------------------------------------------------------------
(* The writes.                                                             *)

\* A decision saved over a run that has kept the signatures it read.
LEMMA SavedIsWarranted ==
    ASSUME NEW current \in RunDoc, NEW read \in RunDoc, NEW new \in RunDoc,
           Warranted(current), Warranted(new), SignsStay(read, current), SignsStay(read, new),
           new.edited = read.edited
    PROVE  LET saved == Saved(current, read, new)
           IN  /\ saved \in RunDoc
               /\ Warranted(saved)
               /\ SignsStay(current, saved)
               /\ saved.edited = current.edited
               /\ saved.status = "REJECTED" => "REJECTED" \in {current.status, new.status}
<1> DEFINE saved == Saved(current, read, new)
<1>1. \A f \in {"status", "paid", "edited", "managerSigned", "financeSigned"} :
        saved[f] = IF new[f] = read[f] THEN current[f] ELSE new[f]
  BY DEF Saved, RunDoc
<1>2. saved \in RunDoc
  BY DEF Saved, RunDoc
<1> HIDE DEF saved
<1>3. SignsStay(current, saved) /\ SignsStay(new, saved)
  BY <1>1, <1>2 DEF SignsStay, RunDoc
<1>4. /\ saved.status \in {current.status, new.status}
      /\ saved.paid => current.paid \/ new.paid
      /\ saved.edited = current.edited
  BY <1>1, <1>2 DEF RunDoc
<1>5. Warranted(saved)
  BY <1>3, <1>4 DEF Warranted, SignsStay
<1> QED BY <1>2, <1>3, <1>4, <1>5 DEF saved

LEMMA RunSaveStep ==
    ASSUME PayrollRunsInv, NEW a \in Agent, RunSave(a), runOps' = runOps
    PROVE  PayrollRunsInv'
<1> DEFINE call == runCalls[a]
           saved == Saved(runs[call.run], call.read, call.new)
<1>1. /\ call \in RunCall /\ call.at = "run.save" /\ RunCallSound(call)
      /\ runs' = [runs EXCEPT ![call.run] = saved]
      /\ wasRejected' = IF call.new.status = "REJECTED"
                        THEN wasRejected \cup {call.run} ELSE wasRejected
      /\ runCalls' = Finish(runCalls, a) /\ UNCHANGED paidSlips
  BY DEF RunSave, At, PayrollRunsInv, PayrollRunsTypeOK, RunCallsSound, Idle
<1> HIDE DEF call
<1>2. call.run \in PayrollRun /\ call.read \in RunDoc /\ call.new \in RunDoc /\ DecisionSound(call)
  BY <1>1, RunCallFields DEF RunCallSound
<1>3. runs \in [PayrollRun -> RunDoc] /\ Warranted(runs[call.run])
  BY <1>2 DEF PayrollRunsInv, PayrollRunsTypeOK, RunDocsSound
<1>4. /\ saved \in RunDoc
      /\ Warranted(saved)
      /\ SignsStay(runs[call.run], saved)
      /\ saved.edited = runs[call.run].edited
      /\ saved.status = "REJECTED" => "REJECTED" \in {runs[call.run].status, call.new.status}
  BY <1>2, <1>3, SavedIsWarranted DEF DecisionSound
<1> HIDE DEF saved
<1>5. /\ runs' \in [PayrollRun -> RunDoc]
      /\ wasRejected \subseteq wasRejected'
      /\ wasRejected' \subseteq PayrollRun
  BY <1>1, <1>2, <1>3, <1>4 DEF PayrollRunsInv, PayrollRunsTypeOK
<1>6. \A r \in PayrollRun : SignsStay(runs[r], runs'[r])
  BY <1>1, <1>3, <1>4 DEF SignsStay
<1>7. RunCallsSound' /\ runCalls' \in [Agent -> RunCall \cup {NULL}]
  BY <1>1, <1>5, <1>6, RunCallsStay
<1>8. RunDocsSound'
  BY <1>1, <1>2, <1>3, <1>4 DEF PayrollRunsInv, RunDocsSound
<1>9. SlipsSound'
  BY <1>1, <1>6, PayrollRunsAssumption
     DEF PayrollRunsInv, PayrollRunsTypeOK, SlipsSound, SignedByBoth, SignsStay
<1> QED BY <1>1, <1>5, <1>7, <1>8, <1>9 DEF PayrollRunsInv, PayrollRunsTypeOK

LEMMA PeriodSaveStep ==
    ASSUME PayrollRunsInv, NEW a \in Agent, PeriodSave(a), runOps' = runOps
    PROVE  PayrollRunsInv'
<1> DEFINE r == runCalls[a].run
<1>1. r \in PayrollRun /\ r \in wasRejected
  BY RunCallFields
     DEF PeriodSave, At, PayrollRunsInv, PayrollRunsTypeOK, RunCallsSound, RunCallSound, Idle
<1>2. /\ runs' = [runs EXCEPT ![r].edited = TRUE]
      /\ runCalls' = Finish(runCalls, a) /\ UNCHANGED <<paidSlips, wasRejected>>
  BY DEF PeriodSave
<1>3. runs \in [PayrollRun -> RunDoc]
  BY DEF PayrollRunsInv, PayrollRunsTypeOK
<1> HIDE DEF r
<1>4. runs' \in [PayrollRun -> RunDoc] /\ \A q \in PayrollRun : SignsStay(runs[q], runs'[q])
  BY <1>1, <1>2, <1>3 DEF RunDoc, SignsStay
<1>5. RunCallsSound' /\ runCalls' \in [Agent -> RunCall \cup {NULL}]
  BY <1>2, <1>4, RunCallsStay
<1>6. RunDocsSound'
  BY <1>1, <1>2, <1>3 DEF PayrollRunsInv, RunDocsSound, Warranted, RunDoc
<1>7. SlipsSound'
  BY <1>2, <1>4, PayrollRunsAssumption
     DEF PayrollRunsInv, PayrollRunsTypeOK, SlipsSound, SignedByBoth, SignsStay
<1> QED BY <1>2, <1>4, <1>5, <1>6, <1>7 DEF PayrollRunsInv, PayrollRunsTypeOK

LEMMA PayslipSaveStep ==
    ASSUME PayrollRunsInv, NEW a \in Agent, PayslipSave(a), runOps' = runOps
    PROVE  PayrollRunsInv'
<1>1. PICK p \in runCalls[a].left :
        /\ paidSlips' = paidSlips \cup {p}
        /\ runCalls' = IF runCalls[a].left \ {p} = {} THEN Finish(runCalls, a)
                       ELSE [runCalls EXCEPT ![a].left = runCalls[a].left \ {p}]
  BY DEF PayslipSave
<1> DEFINE call == runCalls[a]
           rest == [call EXCEPT !.left = @ \ {p}]
<1>2. call \in RunCall /\ call.at = "payslips.save" /\ RunCallSound(call) /\ call.left \subseteq Payslip
  BY RunCallFields
     DEF PayslipSave, At, PayrollRunsInv, PayrollRunsTypeOK, RunCallsSound, Idle
<1>3. UNCHANGED <<runs, wasRejected>>
  BY DEF PayslipSave
<1>4. paidSlips' \subseteq Payslip /\ SlipsSound'
  BY <1>1, <1>2, <1>3
     DEF PayrollRunsInv, PayrollRunsTypeOK, SlipsSound, SignedByBoth, RunCallSound
<1>5. runCalls' = Finish(runCalls, a) \/ runCalls' = Begin(runCalls, a, rest)
  BY <1>1 DEF Begin, PayrollRunsInv, PayrollRunsTypeOK
<1>6. rest \in RunCall /\ RunCallSound(rest)
  BY <1>2 DEF RunCall, RunCallSound
<1> HIDE DEF call, rest
<1>7. ASSUME NEW b \in Agent, ~ Idle(runCalls, b)'
      PROVE  runCalls'[b] \in RunCall /\ RunCallSound(runCalls'[b])
  BY <1>5, <1>6, <1>7
     DEF Begin, Finish, Idle, PayrollRunsInv, PayrollRunsTypeOK, RunCallsSound
<1>8. RunCallsSound'
  BY <1>3, <1>7 DEF RunCallsSound, RunCallSound, DecisionSound, SignedByBoth
<1>9. runCalls' \in [Agent -> RunCall \cup {NULL}]
  BY <1>5, <1>6 DEF Begin, Finish, PayrollRunsInv, PayrollRunsTypeOK
<1> QED BY <1>3, <1>4, <1>8, <1>9 DEF PayrollRunsInv, PayrollRunsTypeOK, RunDocsSound

LEMMA RunCallFailsStep ==
    ASSUME PayrollRunsInv, NEW a \in Agent, RunCallFails(a), runOps' = runOps
    PROVE  PayrollRunsInv'
<1>1. runCalls' = Finish(runCalls, a) /\ UNCHANGED <<runs, paidSlips, wasRejected>>
  BY DEF RunCallFails
<1>2. RunCallsSound' /\ runCalls' \in [Agent -> RunCall \cup {NULL}]
  BY <1>1, RunCallsStay DEF PayrollRunsInv, PayrollRunsTypeOK, SignsStay
<1> QED BY <1>1, <1>2 DEF PayrollRunsInv, PayrollRunsTypeOK, RunDocsSound, SlipsSound, SignedByBoth

-----------------------------------------------------------------------------

LEMMA PayrollRunsStep == ASSUME PayrollRunsInv, [PayrollRunsNext]_runVars PROVE PayrollRunsInv'
<1>1. CASE UNCHANGED runVars
  BY <1>1 DEF runVars, PayrollRunsInv, PayrollRunsTypeOK, RunCallsSound, RunCallSound, DecisionSound,
              RunDocsSound, SlipsSound, SignedByBoth, Idle
<1>2. ASSUME NEW a \in Agent, NEW r \in PayrollRun, RequestRun(a, r),
             runOps < MaxRunOps, runOps' = runOps + 1
      PROVE  PayrollRunsInv'
  <2>1. runOps' \in 0..MaxRunOps
    BY <1>2, PayrollRunsAssumption DEF PayrollRunsInv, PayrollRunsTypeOK
  <2> QED BY <1>2, <2>1, RequestRunStep
<1>3. ASSUME NEW a \in Agent, RunStep(a), runOps' = runOps PROVE PayrollRunsInv'
  BY <1>3, RunSaveStep, PeriodSaveStep, PayslipSaveStep, RunCallFailsStep DEF RunStep
<1> QED BY <1>1, <1>2, <1>3 DEF PayrollRunsNext

THEOREM PayrollRunsInvariant == PayrollRunsSpec => []PayrollRunsInv
BY PayrollRunsInitially, PayrollRunsStep, PTL DEF PayrollRunsSpec

\* Every run, payslip, call in flight and history has its type.
THEOREM PayrollRunsTypeCorrect == PayrollRunsSpec => []PayrollRunsTypeOK
<1>1. PayrollRunsInv => PayrollRunsTypeOK
  BY DEF PayrollRunsInv
<1> QED BY <1>1, PayrollRunsInvariant, PTL

\* Nothing is paid without both signatures.
THEOREM PaymentNeedsSignatures == PayrollRunsSpec => []PaidWasSigned
<1>1. PayrollRunsInv => PaidWasSigned
  BY DEF PayrollRunsInv, RunDocsSound, SlipsSound, Warranted, PaidWasSigned, RunIn, SignedByBoth
<1> QED BY <1>1, PayrollRunsInvariant, PTL

\* The period is edited only of a run that was rejected.
THEOREM EditsNeedRejection == PayrollRunsSpec => []EditedWasRejected
<1>1. PayrollRunsInv => EditedWasRejected
  BY DEF PayrollRunsInv, RunDocsSound, EditedWasRejected
<1> QED BY <1>1, PayrollRunsInvariant, PTL

(***************************************************************************)
(* Configurations.                                                         *)
(***************************************************************************)

\* The files of which every policy was created before.
KnownFile == {file \in BackupFile : \A c \in Config : file[c] # NULL => c \in used}

Exporting(a) == At(configCalls, a, "backup.export")

OneExport ==
    \A a, b \in Agent : Exporting(a) => isBackupRunning /\ (Exporting(b) => a = b)

ConfigCallSound(call) ==
    call.at \in {"restore.clear", "restore.insert"} => call.file \in KnownFile

ConfigCallsSound == \A a \in Agent : ~ Idle(configCalls, a) => ConfigCallSound(configCalls[a])

ConfigurationsInv ==
    /\ ConfigurationsTypeOK
    /\ configs \in KnownFile
    /\ backups \in Seq(KnownFile \cup {NULL})
    /\ ConfigCallsSound
    /\ OneExport

THEOREM ConfigurationsInitially == ConfigurationsInit => ConfigurationsInv
<1> SUFFICES ASSUME ConfigurationsInit PROVE ConfigurationsInv
  OBVIOUS
<1>1. configs \in KnownFile /\ configs \in BackupFile
  BY DEF ConfigurationsInit, KnownFile, BackupFile
<1>2. backups \in Seq(KnownFile \cup {NULL}) /\ backups \in Seq(BackupFile \cup {NULL})
  BY DEF ConfigurationsInit
<1>3. configCalls \in [Agent -> ConfigCall \cup {NULL}] /\ ConfigCallsSound /\ OneExport
  BY DEF ConfigurationsInit, ConfigCallsSound, OneExport, Exporting, At, Idle
<1>4. isBackupRunning \in BOOLEAN /\ used \subseteq Config
  BY DEF ConfigurationsInit
<1>5. configOps \in 0..MaxConfigOps
  BY ConfigurationsAssumption DEF ConfigurationsInit
<1> QED BY <1>1, <1>2, <1>3, <1>4, <1>5 DEF ConfigurationsInv, ConfigurationsTypeOK

\* The fields of a call at each of its steps.
LEMMA ConfigCallFields ==
    ASSUME NEW call \in ConfigCall
    PROVE  /\ call # NULL
           /\ call.at \in {"edit.save", "status.save"} => call.config \in Config
           /\ call.at = "status.save" => call.status \in ConfigStatus
           /\ call.at \in {"restore.clear", "restore.insert"} => call.file \in BackupFile
BY ConfigurationsAssumption DEF ConfigCall

\* More is known when more identifiers are used.
LEMMA KnownStays ==
    ASSUME used \subseteq used'
    PROVE  KnownFile \subseteq KnownFile' /\ Seq(KnownFile \cup {NULL}) \subseteq Seq(KnownFile \cup {NULL})'
<1>1. KnownFile \subseteq KnownFile'
  BY DEF KnownFile
<1>2. ASSUME NEW files \in Seq(KnownFile \cup {NULL})
      PROVE  files \in Seq(KnownFile' \cup {NULL})
  BY <1>1, SeqDef
<1> QED BY <1>1, <1>2

LEMMA KnownFilesAreFiles ==
    ASSUME NEW files \in Seq(KnownFile \cup {NULL})
    PROVE  files \in Seq(BackupFile \cup {NULL})
BY SeqDef DEF KnownFile

\* One agent begins call, or begins it in place of the one it had.
LEMMA ConfigBegins ==
    ASSUME ConfigurationsInv, NEW a \in Agent, NEW call \in ConfigCall, ConfigCallSound(call),
           configCalls' = Begin(configCalls, a, call), call.at # "backup.export",
           configs' \in KnownFile, configOps' \in 0..MaxConfigOps,
           UNCHANGED <<backups, isBackupRunning, used>>
    PROVE  ConfigurationsInv'
<1>1. configCalls \in [Agent -> ConfigCall \cup {NULL}] /\ NULL \notin ConfigCall
  BY ConfigurationsAssumption DEF ConfigurationsInv, ConfigurationsTypeOK
<1>2. /\ configCalls' \in [Agent -> ConfigCall \cup {NULL}]
      /\ \A b \in Agent : configCalls'[b] = IF b = a THEN call ELSE configCalls[b]
  BY <1>1 DEF Begin
<1>3. KnownFile' = KnownFile
  BY DEF KnownFile
<1>4. ConfigCallsSound'
  BY <1>2, <1>3 DEF ConfigurationsInv, ConfigCallsSound, ConfigCallSound, Idle
<1>5. OneExport'
  BY <1>2 DEF ConfigurationsInv, OneExport, Exporting, At
<1>6. ConfigurationsTypeOK'
  BY <1>2 DEF ConfigurationsInv, ConfigurationsTypeOK, KnownFile
<1> QED BY <1>3, <1>4, <1>5, <1>6 DEF ConfigurationsInv

\* One agent finishes; only the end of a backup resets the flag.
LEMMA ConfigFinishes ==
    ASSUME ConfigurationsInv, NEW a \in Agent, configCalls' = Finish(configCalls, a),
           isBackupRunning' = (isBackupRunning /\ ~ Exporting(a)),
           configs' \in KnownFile, backups' \in Seq(KnownFile \cup {NULL}),
           UNCHANGED <<used, configOps>>
    PROVE  ConfigurationsInv'
<1>1. configCalls \in [Agent -> ConfigCall \cup {NULL}]
  BY DEF ConfigurationsInv, ConfigurationsTypeOK
<1>2. /\ configCalls' \in [Agent -> ConfigCall \cup {NULL}]
      /\ \A b \in Agent : configCalls'[b] = IF b = a THEN NULL ELSE configCalls[b]
  BY <1>1 DEF Finish
<1>3. KnownFile' = KnownFile
  BY DEF KnownFile
<1>4. ConfigCallsSound'
  BY <1>2, <1>3 DEF ConfigurationsInv, ConfigCallsSound, ConfigCallSound, Idle
<1>5. ASSUME NEW b \in Agent, NEW c \in Agent, Exporting(b)'
      PROVE  isBackupRunning' /\ (Exporting(c)' => b = c)
  <2>1. Exporting(b) /\ b # a
    BY <1>2, <1>5 DEF Exporting, At
  <2>2. isBackupRunning /\ ~ Exporting(a)
    BY <2>1 DEF ConfigurationsInv, OneExport
  <2>3. Exporting(c)' => Exporting(c)
    BY <1>2 DEF Exporting, At
  <2> QED BY <2>1, <2>2, <2>3 DEF ConfigurationsInv, OneExport
<1>6. isBackupRunning' \in BOOLEAN
  OBVIOUS
<1>7. backups' \in Seq(BackupFile \cup {NULL})
  BY KnownFilesAreFiles
<1>8. ConfigurationsTypeOK'
  BY <1>2, <1>6, <1>7 DEF ConfigurationsInv, ConfigurationsTypeOK, KnownFile
<1> QED BY <1>3, <1>4, <1>5, <1>8 DEF ConfigurationsInv, OneExport

-----------------------------------------------------------------------------

LEMMA RequestPolicyStep ==
    ASSUME ConfigurationsInv, NEW a \in Agent, NEW c \in Config, NEW status \in ConfigStatus,
           UpdateWithoutStatus(a, c) \/ UpdateStatus(a, c, status), configOps' \in 0..MaxConfigOps
    PROVE  ConfigurationsInv'
<1> DEFINE edit == [at |-> "edit.save", config |-> c]
           decision == [at |-> "status.save", config |-> c, status |-> status]
<1>1. /\ edit \in ConfigCall /\ ConfigCallSound(edit) /\ edit.at # "backup.export"
      /\ decision \in ConfigCall /\ ConfigCallSound(decision) /\ decision.at # "backup.export"
  BY DEF ConfigCall, ConfigCallSound
<1>2. /\ configCalls' \in {Begin(configCalls, a, edit), Begin(configCalls, a, decision)}
      /\ UNCHANGED <<configs, backups, isBackupRunning, used>>
  BY DEF UpdateWithoutStatus, UpdateStatus
<1>3. configs' \in KnownFile
  BY <1>2 DEF ConfigurationsInv
<1> HIDE DEF edit, decision
<1> QED BY <1>1, <1>2, <1>3, ConfigBegins

LEMMA CreateWithUserStep ==
    ASSUME ConfigurationsInv, NEW c \in Config, CreateWithUser(c), configOps' \in 0..MaxConfigOps
    PROVE  ConfigurationsInv'
<1> DEFINE new == [status |-> "DRAFT", approved |-> FALSE, edited |-> FALSE, found |-> TRUE]
<1>1. new \in ConfigDoc
  BY DEF ConfigDoc, ConfigStatus
<1>2. /\ configs' = [configs EXCEPT ![c] = new] /\ used' = used \cup {c}
      /\ UNCHANGED <<backups, isBackupRunning, configCalls>>
  BY DEF CreateWithUser
<1> HIDE DEF new
<1>3. configs' \in KnownFile'
  BY <1>1, <1>2 DEF ConfigurationsInv, KnownFile, BackupFile
<1>4. KnownFile \subseteq KnownFile' /\ Seq(KnownFile \cup {NULL}) \subseteq Seq(KnownFile \cup {NULL})'
  BY <1>2, KnownStays
<1>5. ConfigCallsSound' /\ OneExport'
  BY <1>2, <1>4 DEF ConfigurationsInv, ConfigCallsSound, ConfigCallSound, Idle, OneExport, Exporting, At
<1>6. ConfigurationsTypeOK'
  BY <1>2, <1>3 DEF ConfigurationsInv, ConfigurationsTypeOK, KnownFile
<1>7. backups' \in Seq(KnownFile \cup {NULL})'
  BY <1>2, <1>4 DEF ConfigurationsInv
<1> QED BY <1>3, <1>5, <1>6, <1>7 DEF ConfigurationsInv

\* A collection with some policies changed, or gone.
LEMMA ChangedIsKnown ==
    ASSUME ConfigurationsInv, NEW c \in Config, NEW doc \in ConfigDoc \cup {NULL},
           configs[c] # NULL
    PROVE  [configs EXCEPT ![c] = doc] \in KnownFile
BY DEF ConfigurationsInv, KnownFile, BackupFile

LEMMA DeleteConfigStep ==
    ASSUME ConfigurationsInv, NEW c \in Config, DeleteConfig(c), configOps' \in 0..MaxConfigOps
    PROVE  ConfigurationsInv'
<1>1. /\ configs' = [configs EXCEPT ![c] = NULL] /\ configs[c] # NULL
      /\ UNCHANGED <<backups, isBackupRunning, configCalls, used>>
  BY DEF DeleteConfig, Found
<1>2. configs' \in KnownFile
  BY <1>1, ChangedIsKnown
<1>3. KnownFile' = KnownFile
  BY <1>1 DEF KnownFile
<1>4. ConfigCallsSound' /\ OneExport'
  BY <1>1, <1>3 DEF ConfigurationsInv, ConfigCallsSound, ConfigCallSound, Idle, OneExport, Exporting, At
<1> QED BY <1>1, <1>2, <1>3, <1>4 DEF ConfigurationsInv, ConfigurationsTypeOK, KnownFile

LEMMA UpdateByIdStep ==
    ASSUME ConfigurationsInv, NEW a \in Agent, UpdateById(a), configOps' = configOps
    PROVE  ConfigurationsInv'
<1> DEFINE call == configCalls[a]
<1>1. /\ call \in ConfigCall /\ call.at \in {"edit.save", "status.save"}
      /\ configs' = IF Found(call.config)
                    THEN [configs EXCEPT ![call.config] = Changed(call, configs[call.config])]
                    ELSE configs
      /\ configCalls' = Finish(configCalls, a)
      /\ UNCHANGED <<backups, isBackupRunning, used>>
  BY DEF UpdateById, At, ConfigurationsInv, ConfigurationsTypeOK
<1>2. call.config \in Config /\ (call.at = "status.save" => call.status \in ConfigStatus)
  BY <1>1, ConfigCallFields
<1>3. ~ Exporting(a)
  BY <1>1 DEF Exporting, At
<1> HIDE DEF call
<1>4. ASSUME Found(call.config) PROVE Changed(call, configs[call.config]) \in ConfigDoc
  <2>1. configs[call.config] \in ConfigDoc
    BY <1>2, <1>4 DEF Found, ConfigurationsInv, ConfigurationsTypeOK, BackupFile
  <2> QED BY <1>1, <1>2, <2>1 DEF Changed, ConfigDoc
<1>5. configs' \in KnownFile
  <2>1. CASE Found(call.config)
    BY <1>1, <1>2, <1>4, <2>1, ChangedIsKnown DEF Found
  <2>2. CASE ~ Found(call.config)
    BY <1>1, <2>2 DEF ConfigurationsInv
  <2> QED BY <2>1, <2>2
<1>6. isBackupRunning' = (isBackupRunning /\ ~ Exporting(a)) /\ backups' \in Seq(KnownFile \cup {NULL})
  BY <1>1, <1>3 DEF ConfigurationsInv, ConfigurationsTypeOK
<1> QED BY <1>1, <1>5, <1>6, ConfigFinishes

LEMMA HandleDailyBackupStep ==
    ASSUME ConfigurationsInv, NEW a \in Agent, HandleDailyBackup(a), configOps' \in 0..MaxConfigOps
    PROVE  ConfigurationsInv'
<1> DEFINE call == [at |-> "backup.export"]
<1>1. call \in ConfigCall /\ ConfigCallSound(call)
  BY DEF ConfigCall, ConfigCallSound
<1>2. /\ ~ isBackupRunning /\ isBackupRunning' = TRUE
      /\ configCalls' = Begin(configCalls, a, call)
      /\ UNCHANGED <<configs, backups, used>>
  BY DEF HandleDailyBackup
<1> HIDE DEF call
<1>3. configCalls \in [Agent -> ConfigCall \cup {NULL}] /\ NULL \notin ConfigCall
  BY ConfigurationsAssumption DEF ConfigurationsInv, ConfigurationsTypeOK
<1>4. /\ configCalls' \in [Agent -> ConfigCall \cup {NULL}]
      /\ \A b \in Agent : configCalls'[b] = IF b = a THEN call ELSE configCalls[b]
  BY <1>1, <1>2, <1>3 DEF Begin
<1>5. KnownFile' = KnownFile
  BY <1>2 DEF KnownFile
<1>6. ConfigCallsSound'
  BY <1>1, <1>4, <1>5 DEF ConfigurationsInv, ConfigCallsSound, ConfigCallSound, Idle
<1>7. \A b \in Agent : Exporting(b)' => b = a
  BY <1>2, <1>4 DEF ConfigurationsInv, OneExport, Exporting, At
<1>8. OneExport'
  BY <1>2, <1>7 DEF OneExport
<1> QED BY <1>2, <1>4, <1>5, <1>6, <1>8 DEF ConfigurationsInv, ConfigurationsTypeOK

\* The newest of the files are files.
LEMMA NewestAreFiles ==
    ASSUME NEW S, NEW files \in Seq(S)
    PROVE  NewestOf(files) \in Seq(S)
<1>1. CASE Len(files) <= KeptBackups
  BY <1>1 DEF NewestOf
<1>2. CASE ~ Len(files) <= KeptBackups
  <2> DEFINE first == Len(files) - KeptBackups + 1
  <2>1. first \in Int /\ Len(files) \in Int /\ first >= 1
    BY <1>2, ConfigurationsAssumption, LenProperties
  <2>2. \A i \in first..Len(files) : files[i] \in S
    BY <2>1, ElementOfSeq
  <2>3. SubSeq(files, first, Len(files)) \in Seq(S)
    BY <2>1, <2>2, SubSeqProperties
  <2> QED BY <1>2, <2>3 DEF NewestOf
<1> QED BY <1>1, <1>2

LEMMA BackupConfigSetupStep ==
    ASSUME ConfigurationsInv, NEW a \in Agent, BackupConfigSetup(a), configOps' = configOps
    PROVE  ConfigurationsInv'
<1>1. PICK file \in {configs, NULL} : backups' = NewestOf(Append(backups, file))
  BY DEF BackupConfigSetup
<1>2. Append(backups, file) \in Seq(KnownFile \cup {NULL})
  BY AppendProperties DEF ConfigurationsInv
<1>3. backups' \in Seq(KnownFile \cup {NULL})
  BY <1>1, <1>2, NewestAreFiles
<1>4. /\ isBackupRunning' = (isBackupRunning /\ ~ Exporting(a))
      /\ configCalls' = Finish(configCalls, a) /\ UNCHANGED <<configs, used>>
  BY DEF BackupConfigSetup, Exporting
<1>5. configs' \in KnownFile
  BY <1>4 DEF ConfigurationsInv
<1> QED BY <1>3, <1>4, <1>5, ConfigFinishes

LEMMA RestoreBackupStep ==
    ASSUME ConfigurationsInv, NEW a \in Agent, NEW i \in DOMAIN backups, RestoreBackup(a, i),
           configOps' \in 0..MaxConfigOps
    PROVE  ConfigurationsInv'
<1> DEFINE file == [c \in Config |-> IF backups[i][c] = NULL THEN NULL
                                     ELSE [backups[i][c] EXCEPT !.found = FALSE]]
           call == [at |-> "restore.clear", file |-> file]
<1>1. backups[i] \in KnownFile
  BY ElementOfSeq, LenProperties DEF RestoreBackup, ConfigurationsInv
<1>2. \A c \in Config : /\ file[c] \in ConfigDoc \cup {NULL}
                        /\ file[c] # NULL => c \in used
  BY <1>1 DEF KnownFile, BackupFile, ConfigDoc
<1>3. file \in KnownFile
  BY <1>2 DEF KnownFile, BackupFile
<1>4. /\ configCalls' = Begin(configCalls, a, call)
      /\ UNCHANGED <<configs, backups, isBackupRunning, used>>
  BY DEF RestoreBackup
<1> HIDE DEF file
<1>5. call \in ConfigCall /\ ConfigCallSound(call) /\ call.at # "backup.export"
  BY <1>3 DEF ConfigCall, ConfigCallSound, KnownFile
<1>6. configs' \in KnownFile
  BY <1>4 DEF ConfigurationsInv
<1> HIDE DEF call
<1> QED BY <1>4, <1>5, <1>6, ConfigBegins

LEMMA RestoreDeleteManyStep ==
    ASSUME ConfigurationsInv, NEW a \in Agent, RestoreDeleteMany(a), configOps' = configOps
    PROVE  ConfigurationsInv'
<1> DEFINE call == [configCalls[a] EXCEPT !.at = "restore.insert"]
<1>1. configCalls[a] \in ConfigCall /\ configCalls[a].at = "restore.clear" /\ ConfigCallSound(configCalls[a])
  BY DEF RestoreDeleteMany, At, ConfigurationsInv, ConfigurationsTypeOK, ConfigCallsSound, Idle
<1>2. call \in ConfigCall /\ ConfigCallSound(call) /\ call.at # "backup.export"
  BY <1>1 DEF ConfigCall, ConfigCallSound
<1>3. /\ configCalls' = Begin(configCalls, a, call) /\ configs' = [c \in Config |-> NULL]
      /\ UNCHANGED <<backups, isBackupRunning, used>>
  BY DEF RestoreDeleteMany, Begin, ConfigurationsInv, ConfigurationsTypeOK
<1> HIDE DEF call
<1>4. configs' \in KnownFile /\ configOps' \in 0..MaxConfigOps
  BY <1>3 DEF KnownFile, BackupFile, ConfigurationsInv, ConfigurationsTypeOK
<1> QED BY <1>2, <1>3, <1>4, ConfigBegins

LEMMA RestoreInsertManyStep ==
    ASSUME ConfigurationsInv, NEW a \in Agent, RestoreInsertMany(a), configOps' = configOps
    PROVE  ConfigurationsInv'
<1>1. PICK in : configs' = [c \in Config |-> IF c \in in THEN configCalls[a].file[c] ELSE configs[c]]
  BY DEF RestoreInsertMany
<1>2. /\ configCalls[a] \in ConfigCall /\ configCalls[a].at = "restore.insert"
      /\ configCalls[a].file \in KnownFile
  BY DEF RestoreInsertMany, At, ConfigurationsInv, ConfigurationsTypeOK, ConfigCallsSound,
         ConfigCallSound, Idle
<1>3. configs' \in KnownFile
  BY <1>1, <1>2 DEF KnownFile, BackupFile, ConfigurationsInv
<1>4. ~ Exporting(a)
  BY <1>2 DEF Exporting, At
<1>5. /\ isBackupRunning' = (isBackupRunning /\ ~ Exporting(a))
      /\ configCalls' = Finish(configCalls, a) /\ UNCHANGED <<backups, used>>
  BY <1>4 DEF RestoreInsertMany, ConfigurationsInv, ConfigurationsTypeOK
<1>6. backups' \in Seq(KnownFile \cup {NULL})
  BY <1>5 DEF ConfigurationsInv
<1> QED BY <1>3, <1>5, <1>6, ConfigFinishes

LEMMA ConfigCallFailsStep ==
    ASSUME ConfigurationsInv, NEW a \in Agent, ConfigCallFails(a), configOps' = configOps
    PROVE  ConfigurationsInv'
<1>1. /\ isBackupRunning' = (isBackupRunning /\ ~ Exporting(a))
      /\ configCalls' = Finish(configCalls, a) /\ UNCHANGED <<configs, backups, used>>
  BY DEF ConfigCallFails, Exporting
<1>2. configs' \in KnownFile /\ backups' \in Seq(KnownFile \cup {NULL})
  BY <1>1 DEF ConfigurationsInv
<1> QED BY <1>1, <1>2, ConfigFinishes

LEMMA ConfigProcessStopsStep ==
    ASSUME ConfigurationsInv, ConfigProcessStops, configOps' = configOps
    PROVE  ConfigurationsInv'
<1>1. /\ configCalls' = [a \in Agent |-> NULL] /\ isBackupRunning' = FALSE
      /\ UNCHANGED <<configs, backups, used>>
  BY DEF ConfigProcessStops
<1>2. KnownFile' = KnownFile
  BY <1>1 DEF KnownFile
<1>3. ConfigCallsSound' /\ OneExport'
  BY <1>1 DEF ConfigCallsSound, Idle, OneExport, Exporting, At
<1> QED BY <1>1, <1>2, <1>3 DEF ConfigurationsInv, ConfigurationsTypeOK

-----------------------------------------------------------------------------

LEMMA RequestConfigStep ==
    ASSUME ConfigurationsInv, RequestConfig, configOps' \in 0..MaxConfigOps
    PROVE  ConfigurationsInv'
BY CreateWithUserStep, DeleteConfigStep, RequestPolicyStep, HandleDailyBackupStep, RestoreBackupStep
   DEF RequestConfig, ConfigStatus

LEMMA ConfigurationsStep ==
    ASSUME ConfigurationsInv, [ConfigurationsNext]_configVars PROVE ConfigurationsInv'
<1>1. CASE UNCHANGED configVars
  <2>1. KnownFile' = KnownFile
    BY <1>1 DEF configVars, KnownFile
  <2> QED BY <1>1, <2>1
          DEF configVars, ConfigurationsInv, ConfigurationsTypeOK, ConfigCallsSound, ConfigCallSound,
              OneExport, Exporting, At, Idle
<1>2. CASE RequestConfig /\ configOps < MaxConfigOps /\ configOps' = configOps + 1
  <2>1. configOps' \in 0..MaxConfigOps
    BY <1>2, ConfigurationsAssumption DEF ConfigurationsInv, ConfigurationsTypeOK
  <2> QED BY <1>2, <2>1, RequestConfigStep
<1>3. ASSUME NEW a \in Agent, ConfigStep(a), configOps' = configOps PROVE ConfigurationsInv'
  BY <1>3, UpdateByIdStep, BackupConfigSetupStep, RestoreDeleteManyStep, RestoreInsertManyStep,
     ConfigCallFailsStep DEF ConfigStep
<1>4. CASE ConfigProcessStops /\ configOps' = configOps
  BY <1>4, ConfigProcessStopsStep
<1> QED BY <1>1, <1>2, <1>3, <1>4 DEF ConfigurationsNext

THEOREM ConfigurationsInvariant == ConfigurationsSpec => []ConfigurationsInv
BY ConfigurationsInitially, ConfigurationsStep, PTL DEF ConfigurationsSpec

\* Every policy, backup, call in flight and history has its type.
THEOREM ConfigurationsTypeCorrect == ConfigurationsSpec => []ConfigurationsTypeOK
<1>1. ConfigurationsInv => ConfigurationsTypeOK
  BY DEF ConfigurationsInv
<1> QED BY <1>1, ConfigurationsInvariant, PTL

\* One backup at most is under way.
THEOREM BackupsDoNotOverlap == ConfigurationsSpec => []OneBackupAtATime
<1>1. ASSUME ConfigurationsInv PROVE OneBackupAtATime
  <2> DEFINE exports == {a \in Agent : Exporting(a)}
  <2>1. exports = {} \/ \E a : exports = {a}
    BY <1>1 DEF ConfigurationsInv, OneExport
  <2> HIDE DEF exports
  <2>2. Cardinality(exports) \in {0, 1}
    BY <2>1, FS_EmptySet, FS_Singleton
  <2> QED BY <2>2 DEF OneBackupAtATime, Exporting, exports
<1> QED BY <1>1, ConfigurationsInvariant, PTL

=============================================================================
