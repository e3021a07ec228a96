---------------------------- MODULE Applications -----------------------------
(***************************************************************************)
(* Job applications, the history HR keeps of them, interviews and the      *)
(* assessment that the first member of an interview's panel submits.       *)
(*                                                                         *)
(* An assessment is created for its interview and found by it: scores      *)
(* holds the score of each interview's assessment, 0 until it is given.    *)
(* A document that an update links as feedback is abstracted to whether    *)
(* there is one.  lost is history; applicationOps bounds the exploration.  *)
(***************************************************************************)
EXTENDS Integers, Handlers

CONSTANTS
    Application,        \* identifiers of applications
    Applicant,          \* candidates
    Requisition,        \* job requisitions
    Interview,          \* identifiers of interviews
    Score,              \* the scores of an assessment
    Asked,              \* the stages and statuses that requests name
    MaxApplicationOps   \* bound on the requests that are handled

VARIABLES
    applications,       \* the application with an identifier, or NULL
    history,            \* the application history
    interviews,         \* the interview with an identifier, or NULL
    scores,             \* the score of an interview's assessment, or NULL
    applicationCalls,   \* the handlers in flight
    lost,               \* history: applications and interviews with a call that was cut short
    applicationOps      \* the requests that were handled or are in flight

applicationVars == <<applications, history, interviews, scores,
                     applicationCalls, lost, applicationOps>>

ApplicationStage == {"screening", "department_interview", "hr_interview", "offer"}
ApplicationStatus == {"submitted", "in_process", "offer", "hired", "rejected"}
InterviewStatus == {"scheduled", "completed", "cancelled"}
InterviewStage == {"hr_interview", "department_interview"}

ApplicationDoc ==
    [by : Applicant, for : Requisition, stage : ApplicationStage, status : ApplicationStatus]

HistoryDoc ==
    [of : Application, oldStage : ApplicationStage, newStage : ApplicationStage,
     oldStatus : ApplicationStatus, newStatus : ApplicationStatus]

InterviewDoc ==
    [of : Application, stage : InterviewStage, status : InterviewStatus, feedback : BOOLEAN]

ApplicationCall ==
    [at : {"apply.create"}, by : Applicant, for : Requisition]
      \cup
    [at : {"update.save", "update.history"}, application : Application, read : ApplicationDoc,
     stage : ApplicationStage \cup {NULL}, status : ApplicationStatus \cup {NULL}]
      \cup
    [at : {"interview.create"}, application : Application, stage : InterviewStage,
     status : InterviewStatus]
      \cup
    [at : {"assessment.create", "feedback.save"}, interview : Interview]
      \cup
    [at : {"score.save"}, interview : Interview, score : Score]

ASSUME ApplicationsAssumption ==
    /\ Score \subseteq Nat \ {0}
    /\ MaxApplicationOps \in Nat
    /\ NULL \notin ApplicationDoc \cup InterviewDoc \cup ApplicationCall
                     \cup ApplicationStage \cup ApplicationStatus \cup Score \cup {0}

IfNamed(value, default) == IF value = NULL THEN default ELSE value

applicationDocs == <<applications, history, interviews, scores>>

-----------------------------------------------------------------------------

\* Nothing keeps a candidate's application to a requisition unique but this check.
CreateApplication(a, c, q) ==
    /\ Idle(applicationCalls, a)
    /\ \A x \in Application :
         applications[x] # NULL => <<applications[x].by, applications[x].for>> # <<c, q>>
    /\ applicationCalls' = Begin(applicationCalls, a, [at |-> "apply.create", by |-> c, for |-> q])
    /\ UNCHANGED <<applicationDocs, lost>>

CreateApplicationSave(a, x) ==
    /\ At(applicationCalls, a, "apply.create")
    /\ applications[x] = NULL
    /\ applications' = [applications EXCEPT ![x] =
         [by |-> applicationCalls[a].by, for |-> applicationCalls[a].for,
          stage |-> "screening", status |-> "submitted"]]
    /\ applicationCalls' = Finish(applicationCalls, a)
    /\ UNCHANGED <<history, interviews, scores, lost>>

\* A stage or status that the update does not name is NULL.
UpdateApplication(a, x, stage, status) ==
    /\ Idle(applicationCalls, a)
    /\ applications[x] # NULL
    /\ applicationCalls' = Begin(applicationCalls, a,
         [at |-> "update.save", application |-> x, read |-> applications[x],
          stage |-> stage, status |-> status])
    /\ UNCHANGED <<applicationDocs, lost>>

UpdateApplicationSave(a) ==
    /\ At(applicationCalls, a, "update.save")
    /\ LET call == applicationCalls[a]
       IN  /\ applications' = [applications EXCEPT
                ![call.application].stage = IfNamed(call.stage, @),
                ![call.application].status = IfNamed(call.status, @)]
           /\ applicationCalls' = IF call.stage = NULL /\ call.status = NULL
                                  THEN Finish(applicationCalls, a)
                                  ELSE [applicationCalls EXCEPT ![a].at = "update.history"]
    /\ UNCHANGED <<history, interviews, scores, lost>>

\* Mutant: a change of the stage alone is taken for no change of it.
HistoryOfStatus(call) ==
    [of |-> call.application,
     oldStage |-> call.read.stage, newStage |-> call.read.stage,
     oldStatus |-> call.read.status, newStatus |-> IfNamed(call.status, call.read.status)]

\* What was read before the update stands for the old values, and for the new
\* ones that the update does not name.
HistoryOf(call) ==
    [of |-> call.application,
     oldStage |-> call.read.stage, newStage |-> IfNamed(call.stage, call.read.stage),
     oldStatus |-> call.read.status, newStatus |-> IfNamed(call.status, call.read.status)]

UpdateApplicationHistory(a) ==
    /\ At(applicationCalls, a, "update.history")
    /\ history' = history \cup {HistoryOf(applicationCalls[a])}
    /\ applicationCalls' = Finish(applicationCalls, a)
    /\ UNCHANGED <<applications, interviews, scores, lost>>

-----------------------------------------------------------------------------

CreateInterview(a, x, stage, status) ==
    /\ Idle(applicationCalls, a)
    /\ applications[x] # NULL
    /\ applications[x].status \notin {"rejected", "hired"}
    /\ applications[x].stage \in InterviewStage
    /\ applicationCalls' = Begin(applicationCalls, a,
         [at |-> "interview.create", application |-> x, stage |-> stage, status |-> status])
    /\ UNCHANGED <<applicationDocs, lost>>

CreateInterviewSave(a, i) ==
    /\ At(applicationCalls, a, "interview.create")
    /\ interviews[i] = NULL
    /\ interviews' = [interviews EXCEPT ![i] =
         [of |-> applicationCalls[a].application, stage |-> applicationCalls[a].stage,
          status |-> applicationCalls[a].status, feedback |-> FALSE]]
    /\ applicationCalls' = Begin(applicationCalls, a, [at |-> "assessment.create", interview |-> i])
    /\ UNCHANGED <<applications, history, scores, lost>>

CreateAssessment(a) ==
    /\ At(applicationCalls, a, "assessment.create")
    /\ scores' = [scores EXCEPT ![applicationCalls[a].interview] = 0]
    /\ applicationCalls' = Finish(applicationCalls, a)
    /\ UNCHANGED <<applications, history, interviews, lost>>

\* Mutant: the feedback is written whether the update names one or not.
LinkGiven(current, given) == given

\* The feedback of an interview after an update that may name one.
Linked(current, given) == current \/ given

UpdateInterview(i, status, feedback) ==
    /\ interviews[i] # NULL
    /\ interviews' = [interviews EXCEPT
         ![i].status = IfNamed(status, @),
         ![i].feedback = Linked(@, feedback)]
    /\ UNCHANGED <<applications, history, scores, applicationCalls, lost>>

SubmitAssessment(a, i, score) ==
    /\ Idle(applicationCalls, a)
    /\ scores[i] = 0
    /\ applicationCalls' = Begin(applicationCalls, a,
         [at |-> "score.save", interview |-> i, score |-> score])
    /\ UNCHANGED <<applicationDocs, lost>>

SubmitAssessmentSave(a) ==
    /\ At(applicationCalls, a, "score.save")
    /\ scores' = [scores EXCEPT ![applicationCalls[a].interview] = applicationCalls[a].score]
    /\ applicationCalls' = Begin(applicationCalls, a,
         [at |-> "feedback.save", interview |-> applicationCalls[a].interview])
    /\ UNCHANGED <<applications, history, interviews, lost>>

SubmitAssessmentFeedback(a) ==
    /\ At(applicationCalls, a, "feedback.save")
    /\ interviews' = [interviews EXCEPT ![applicationCalls[a].interview].feedback = TRUE]
    /\ applicationCalls' = Finish(applicationCalls, a)
    /\ UNCHANGED <<applications, history, scores, lost>>

-----------------------------------------------------------------------------

\* A database call throws, or the process stops.
ApplicationCallFails(a) ==
    /\ ~ Idle(applicationCalls, a)
    /\ lost' = CASE At(applicationCalls, a, "update.history")
                      -> lost \cup {applicationCalls[a].application}
                 [] At(applicationCalls, a, "feedback.save")
                      -> lost \cup {applicationCalls[a].interview}
                 [] OTHER -> lost
    /\ applicationCalls' = Finish(applicationCalls, a)
    /\ UNCHANGED applicationDocs

ApplicationsInit ==
    /\ applications = [x \in Application |-> NULL]
    /\ history = {}
    /\ interviews = [i \in Interview |-> NULL]
    /\ scores = [i \in Interview |-> NULL]
    /\ applicationCalls = [a \in Agent |-> NULL]
    /\ lost = {}
    /\ applicationOps = 0

RequestApplication ==
    \/ \E i \in Interview, status \in (Asked \cap InterviewStatus) \cup {NULL}, feedback \in BOOLEAN :
         UpdateInterview(i, status, feedback)
    \/ \E a \in Agent :
         \/ \E c \in Applicant, q \in Requisition : CreateApplication(a, c, q)
         \/ \E x \in Application, stage \in (Asked \cap ApplicationStage) \cup {NULL},
              status \in (Asked \cap ApplicationStatus) \cup {NULL} : UpdateApplication(a, x, stage, status)
         \/ \E x \in Application, stage \in Asked \cap InterviewStage, status \in Asked \cap InterviewStatus :
              CreateInterview(a, x, stage, status)
         \/ \E i \in Interview, score \in Score : SubmitAssessment(a, i, score)

ApplicationStep(a) ==
    \/ \E x \in Application : CreateApplicationSave(a, x)
    \/ UpdateApplicationSave(a) \/ UpdateApplicationHistory(a)
    \/ \E i \in Interview : CreateInterviewSave(a, i)
    \/ CreateAssessment(a)
    \/ SubmitAssessmentSave(a) \/ SubmitAssessmentFeedback(a)
    \/ ApplicationCallFails(a)

ApplicationsNext ==
    \/ /\ applicationOps < MaxApplicationOps
       /\ applicationOps' = applicationOps + 1
       /\ RequestApplication
    \/ /\ applicationOps' = applicationOps
       /\ \E a \in Agent : ApplicationStep(a)

ApplicationsSpec == ApplicationsInit /\ [][ApplicationsNext]_applicationVars

-----------------------------------------------------------------------------
(* Properties.                                                             *)

\* Every document, call in flight and history has its type.
ApplicationsTypeOK ==
    /\ applications \in [Application -> ApplicationDoc \cup {NULL}]
    /\ history \subseteq HistoryDoc
    /\ interviews \in [Interview -> InterviewDoc \cup {NULL}]
    /\ scores \in [Interview -> Score \cup {0, NULL}]
    /\ applicationCalls \in [Agent -> ApplicationCall \cup {NULL}]
    /\ lost \subseteq Application \cup Interview
    /\ applicationOps \in 0..MaxApplicationOps

Recording(x) ==
    \E a \in Agent : At(applicationCalls, a, "update.history") /\ applicationCalls[a].application = x

\* The stage and the status an application has are in its history, even when
\* two updates overlap: only while an update has still to write its record, or
\* when it was cut short before, may one be missing.
EveryChangeIsRecorded ==
    \A x \in Application :
      applications[x] # NULL /\ x \notin lost /\ ~ Recording(x) =>
        /\ \/ applications[x].stage = "screening"
           \/ \E h \in history : h.of = x /\ h.newStage = applications[x].stage
        /\ \/ applications[x].status = "submitted"
           \/ \E h \in history : h.of = x /\ h.newStatus = applications[x].status

Linking(i) ==
    \E a \in Agent : At(applicationCalls, a, "feedback.save") /\ applicationCalls[a].interview = i

\* An interview whose assessment was submitted is linked to it, whatever
\* updates of the interview come before, between and after the two writes of
\* the submission.
SubmittedIsLinked ==
    \A i \in Interview :
      scores[i] \notin {0, NULL} /\ i \notin lost /\ ~ Linking(i) => interviews[i].feedback

=============================================================================
