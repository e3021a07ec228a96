-------------------------- MODULE ApplicationsProofs -------------------------
(***************************************************************************)
(* Type correctness of applications and interviews, EveryChangeIsRecorded  *)
(* and SubmittedIsLinked, for any number of documents and requests.        *)
(*                                                                         *)
(* A stage that is not in the history is the one that some handler in      *)
(* flight is about to record, and an assessment that is not linked is one  *)
(* that some handler is about to link: this is what makes both inductive.  *)
(*                                                                         *)
(* Onboarding checklists: type correctness, CompletedWasDone and           *)
(* DocumentsFit.  Unless a list was overwritten, the tasks that a handler  *)
(* read are still in their places when it saves (GoesOn), and a save that  *)
(* the version lets through meets no task that the handler has not read    *)
(* but those that late names (ReadIsThere).                                *)
(***************************************************************************)
EXTENDS Applications, OnboardingChecklist, FiniteSetTheorems, WellFoundedInduction, TLAPS

\* What an update or a submission in flight works on exists.
ApplicationCallSound(call) ==
    /\ call.at \in {"update.save", "update.history"} => applications[call.application] # NULL
    /\ call.at \in {"assessment.create", "score.save", "feedback.save"} =>
         interviews[call.interview] # NULL

ApplicationCallsSound ==
    \A a \in Agent : ~ Idle(applicationCalls, a) => ApplicationCallSound(applicationCalls[a])

ScoredExist == \A i \in Interview : scores[i] # NULL => interviews[i] # NULL

\* Agent a is about to record a change of application x.
RecordsOf(a, x) ==
    At(applicationCalls, a, "update.history") /\ applicationCalls[a].application = x

StageJustified(x) ==
    \/ applications[x].stage = "screening"
    \/ \E h \in history : h.of = x /\ h.newStage = applications[x].stage
    \/ \E a \in Agent :
         RecordsOf(a, x) /\ HistoryOf(applicationCalls[a]).newStage = applications[x].stage

StatusJustified(x) ==
    \/ applications[x].status = "submitted"
    \/ \E h \in history : h.of = x /\ h.newStatus = applications[x].status
    \/ \E a \in Agent :
         RecordsOf(a, x) /\ HistoryOf(applicationCalls[a]).newStatus = applications[x].status

ChangesJustified ==
    \A x \in Application :
      applications[x] # NULL /\ x \notin lost => StageJustified(x) /\ StatusJustified(x)

ApplicationsInv ==
    /\ ApplicationsTypeOK
    /\ ApplicationCallsSound
    /\ ScoredExist
    /\ ChangesJustified
    /\ SubmittedIsLinked

-----------------------------------------------------------------------------

THEOREM ApplicationsInitially == ApplicationsInit => ApplicationsInv
<1> SUFFICES ASSUME ApplicationsInit PROVE ApplicationsInv
  OBVIOUS
<1>1. ApplicationsTypeOK
  BY ApplicationsAssumption DEF ApplicationsInit, ApplicationsTypeOK
<1>2. ApplicationCallsSound /\ ScoredExist /\ ChangesJustified /\ SubmittedIsLinked
  BY DEF ApplicationsInit, ApplicationCallsSound, ScoredExist, ChangesJustified, SubmittedIsLinked, Idle
<1> QED BY <1>1, <1>2 DEF ApplicationsInv

\* The fields of a call at each of its steps.
LEMMA ApplicationCallFields ==
    ASSUME NEW call \in ApplicationCall
    PROVE  /\ call.at = "apply.create" => call.by \in Applicant /\ call.for \in Requisition
           /\ call.at \in {"update.save", "update.history"} =>
                /\ call.application \in Application /\ call.read \in ApplicationDoc
                /\ call.stage \in ApplicationStage \cup {NULL}
                /\ call.status \in ApplicationStatus \cup {NULL}
           /\ call.at = "interview.create" =>
                /\ call.application \in Application
                /\ call.stage \in InterviewStage /\ call.status \in InterviewStatus
           /\ call.at \in {"assessment.create", "feedback.save", "score.save"} =>
                call.interview \in Interview
           /\ call.at = "score.save" => call.score \in Score
BY DEF ApplicationCall

\* Agent a goes on with next, a call or NULL.
Moves(a, next) == applicationCalls' = [applicationCalls EXCEPT ![a] = next]

\* Documents never go away.
Persist ==
    /\ \A x \in Application : applications[x] # NULL => applications'[x] # NULL
    /\ \A i \in Interview : interviews[i] # NULL => interviews'[i] # NULL

LEMMA CallsAfter ==
    ASSUME ApplicationsInv, NEW a \in Agent, NEW next \in ApplicationCall \cup {NULL}, Moves(a, next),
           next # NULL => ApplicationCallSound(next)', Persist
    PROVE  applicationCalls' \in [Agent -> ApplicationCall \cup {NULL}] /\ ApplicationCallsSound'
<1>1. applicationCalls \in [Agent -> ApplicationCall \cup {NULL}]
  BY DEF ApplicationsInv, ApplicationsTypeOK
<1>2. /\ applicationCalls' \in [Agent -> ApplicationCall \cup {NULL}]
      /\ \A b \in Agent : applicationCalls'[b] = IF b = a THEN next ELSE applicationCalls[b]
  BY <1>1 DEF Moves
<1>3. ASSUME NEW b \in Agent, b # a, ~ Idle(applicationCalls, b)
      PROVE  ApplicationCallSound(applicationCalls[b])'
  <2>1. applicationCalls[b] \in ApplicationCall /\ ApplicationCallSound(applicationCalls[b])
    BY <1>1, <1>3 DEF ApplicationsInv, ApplicationCallsSound, Idle
  <2>2. applicationCalls'[b] = applicationCalls[b]
    BY <1>2, <1>3
  <2> QED BY <2>1, <2>2, ApplicationCallFields DEF ApplicationCallSound, Persist
<1> QED BY <1>2, <1>3 DEF ApplicationCallsSound, Idle

\* Who is about to record or to link still is, unless it is the one that moves.
LEMMA RecordersStay ==
    ASSUME ApplicationsInv, NEW a \in Agent, NEW next, Moves(a, next),
           ~ At(applicationCalls, a, "update.history"), UNCHANGED <<applications, history, lost>>
    PROVE  ChangesJustified'
<1>1. \A b \in Agent : b # a => applicationCalls'[b] = applicationCalls[b]
  BY DEF Moves, ApplicationsInv, ApplicationsTypeOK
<1>2. ASSUME NEW x \in Application, applications[x] # NULL, x \notin lost
      PROVE  StageJustified(x)' /\ StatusJustified(x)'
  <2>1. StageJustified(x) /\ StatusJustified(x)
    BY <1>2 DEF ApplicationsInv, ChangesJustified
  <2>2. \A b \in Agent : RecordsOf(b, x) =>
          RecordsOf(b, x)' /\ HistoryOf(applicationCalls[b])' = HistoryOf(applicationCalls[b])
    BY <1>1 DEF RecordsOf, At, HistoryOf
  <2> QED BY <2>1, <2>2 DEF StageJustified, StatusJustified
<1> QED BY <1>2 DEF ChangesJustified

LEMMA LinkersStay ==
    ASSUME ApplicationsInv, NEW a \in Agent, NEW next, Moves(a, next),
           ~ At(applicationCalls, a, "feedback.save"), UNCHANGED <<scores, lost>>,
           \A i \in Interview : interviews[i] # NULL /\ interviews[i].feedback => interviews'[i].feedback
    PROVE  SubmittedIsLinked'
<1>1. \A b \in Agent : b # a => applicationCalls'[b] = applicationCalls[b]
  BY DEF Moves, ApplicationsInv, ApplicationsTypeOK
<1>2. \A i \in Interview : Linking(i) => Linking(i)'
  BY <1>1 DEF Linking, At
<1> QED BY <1>2 DEF ApplicationsInv, SubmittedIsLinked, ScoredExist

\* A step that only moves one call, which neither records nor links.
LEMMA QuietKeeps ==
    ASSUME ApplicationsInv, NEW a \in Agent, NEW next \in ApplicationCall \cup {NULL}, Moves(a, next),
           next # NULL => ApplicationCallSound(next),
           ~ At(applicationCalls, a, "update.history"), ~ At(applicationCalls, a, "feedback.save"),
           UNCHANGED <<applicationDocs, lost>>, applicationOps' \in 0..MaxApplicationOps
    PROVE  ApplicationsInv'
<1>1. applications' = applications /\ history' = history /\ interviews' = interviews
      /\ scores' = scores /\ lost' = lost
  BY DEF applicationDocs
<1>2. next # NULL => ApplicationCallSound(next)'
  BY <1>1 DEF ApplicationCallSound
<1>3. Persist
  BY <1>1 DEF Persist
<1>4. applicationCalls' \in [Agent -> ApplicationCall \cup {NULL}] /\ ApplicationCallsSound'
  BY <1>2, <1>3, CallsAfter
<1>5. ChangesJustified' /\ SubmittedIsLinked'
  BY <1>1, RecordersStay, LinkersStay
<1> QED BY <1>1, <1>4, <1>5 DEF ApplicationsInv, ApplicationsTypeOK, ScoredExist

-----------------------------------------------------------------------------
(* Requests.                                                               *)

LEMMA RequestsBegin ==
    ASSUME ApplicationsInv, NEW a \in Agent, NEW call \in ApplicationCall,
           Idle(applicationCalls, a), applicationCalls' = Begin(applicationCalls, a, call),
           ApplicationCallSound(call), UNCHANGED <<applicationDocs, lost>>,
           applicationOps' \in 0..MaxApplicationOps
    PROVE  ApplicationsInv'
<1>1. ~ At(applicationCalls, a, "update.history") /\ ~ At(applicationCalls, a, "feedback.save")
  BY DEF At, Idle
<1>2. Moves(a, call)
  BY DEF Moves, Begin
<1> QED BY <1>1, <1>2, QuietKeeps

LEMMA CreateApplicationStep ==
    ASSUME ApplicationsInv, NEW a \in Agent, NEW c \in Applicant, NEW q \in Requisition,
           CreateApplication(a, c, q), applicationOps' \in 0..MaxApplicationOps
    PROVE  ApplicationsInv'
<1> DEFINE call == [at |-> "apply.create", by |-> c, for |-> q]
<1>1. call \in ApplicationCall /\ ApplicationCallSound(call)
  BY DEF ApplicationCall, ApplicationCallSound
<1>2. Idle(applicationCalls, a) /\ applicationCalls' = Begin(applicationCalls, a, call)
      /\ UNCHANGED <<applicationDocs, lost>>
  BY DEF CreateApplication
<1> HIDE DEF call
<1> QED BY <1>1, <1>2, RequestsBegin

LEMMA UpdateApplicationStep ==
    ASSUME ApplicationsInv, NEW a \in Agent, NEW x \in Application,
           NEW stage \in ApplicationStage \cup {NULL}, NEW status \in ApplicationStatus \cup {NULL},
           UpdateApplication(a, x, stage, status), applicationOps' \in 0..MaxApplicationOps
    PROVE  ApplicationsInv'
<1> DEFINE call == [at |-> "update.save", application |-> x, read |-> applications[x],
                    stage |-> stage, status |-> status]
<1>1. applications[x] \in ApplicationDoc /\ applications[x] # NULL
  BY DEF UpdateApplication, ApplicationsInv, ApplicationsTypeOK
<1>2. call \in ApplicationCall /\ ApplicationCallSound(call)
  BY <1>1 DEF ApplicationCall, ApplicationCallSound
<1>3. Idle(applicationCalls, a) /\ applicationCalls' = Begin(applicationCalls, a, call)
      /\ UNCHANGED <<applicationDocs, lost>>
  BY DEF UpdateApplication
<1> HIDE DEF call
<1> QED BY <1>2, <1>3, RequestsBegin

LEMMA CreateInterviewStep ==
    ASSUME ApplicationsInv, NEW a \in Agent, NEW x \in Application,
           NEW stage \in InterviewStage, NEW status \in InterviewStatus,
           CreateInterview(a, x, stage, status), applicationOps' \in 0..MaxApplicationOps
    PROVE  ApplicationsInv'
<1> DEFINE call == [at |-> "interview.create", application |-> x, stage |-> stage, status |-> status]
<1>1. call \in ApplicationCall /\ ApplicationCallSound(call)
  BY DEF ApplicationCall, ApplicationCallSound
<1>2. Idle(applicationCalls, a) /\ applicationCalls' = Begin(applicationCalls, a, call)
      /\ UNCHANGED <<applicationDocs, lost>>
  BY DEF CreateInterview
<1> HIDE DEF call
<1> QED BY <1>1, <1>2, RequestsBegin

LEMMA SubmitAssessmentStep ==
    ASSUME ApplicationsInv, NEW a \in Agent, NEW i \in Interview, NEW score \in Score,
           SubmitAssessment(a, i, score), applicationOps' \in 0..MaxApplicationOps
    PROVE  ApplicationsInv'
<1> DEFINE call == [at |-> "score.save", interview |-> i, score |-> score]
<1>1. interviews[i] # NULL
  BY ApplicationsAssumption DEF SubmitAssessment, ApplicationsInv, ScoredExist
<1>2. call \in ApplicationCall /\ ApplicationCallSound(call)
  BY <1>1 DEF ApplicationCall, ApplicationCallSound
<1>3. Idle(applicationCalls, a) /\ applicationCalls' = Begin(applicationCalls, a, call)
      /\ UNCHANGED <<applicationDocs, lost>>
  BY DEF SubmitAssessment
<1> HIDE DEF call
<1> QED BY <1>2, <1>3, RequestsBegin

LEMMA UpdateInterviewStep ==
    ASSUME ApplicationsInv, NEW i \in Interview, NEW status \in InterviewStatus \cup {NULL},
           NEW feedback \in BOOLEAN, UpdateInterview(i, status, feedback),
           applicationOps' \in 0..MaxApplicationOps
    PROVE  ApplicationsInv'
<1>1. /\ interviews[i] \in InterviewDoc /\ interviews[i] # NULL
      /\ interviews' = [interviews EXCEPT ![i].status = IfNamed(status, @),
                                          ![i].feedback = Linked(@, feedback)]
      /\ applications' = applications /\ history' = history /\ scores' = scores
      /\ applicationCalls' = applicationCalls /\ lost' = lost
  BY DEF UpdateInterview, ApplicationsInv, ApplicationsTypeOK
<1> DEFINE new == [interviews[i] EXCEPT !.status = IfNamed(status, @), !.feedback = Linked(@, feedback)]
<1>2. new \in InterviewDoc /\ (interviews[i].feedback => new.feedback)
  BY <1>1 DEF InterviewDoc, IfNamed, Linked
<1>3. interviews' = [interviews EXCEPT ![i] = new]
  BY <1>1 DEF ApplicationsInv, ApplicationsTypeOK
<1> HIDE DEF new
<1>4. /\ interviews' \in [Interview -> InterviewDoc \cup {NULL}]
      /\ \A j \in Interview : interviews[j] # NULL =>
           interviews'[j] # NULL /\ (interviews[j].feedback => interviews'[j].feedback)
  BY <1>2, <1>3, ApplicationsAssumption DEF ApplicationsInv, ApplicationsTypeOK
<1>5. ApplicationCallsSound'
  <2>1. ASSUME NEW a \in Agent, ~ Idle(applicationCalls, a)
        PROVE  ApplicationCallSound(applicationCalls[a])'
    BY <1>1, <1>4, <2>1, ApplicationCallFields
       DEF ApplicationsInv, ApplicationsTypeOK, ApplicationCallsSound, ApplicationCallSound, Idle
  <2> QED BY <1>1, <2>1 DEF ApplicationCallsSound, Idle
<1>6. ScoredExist' /\ SubmittedIsLinked'
  BY <1>1, <1>4 DEF ApplicationsInv, ScoredExist, SubmittedIsLinked, Linking
<1>7. ChangesJustified'
  BY <1>1 DEF ApplicationsInv, ChangesJustified, StageJustified, StatusJustified, RecordsOf
<1> QED BY <1>1, <1>4, <1>5, <1>6, <1>7 DEF ApplicationsInv, ApplicationsTypeOK

-----------------------------------------------------------------------------
(* Writes.                                                                 *)

LEMMA CreateApplicationSaveStep ==
    ASSUME ApplicationsInv, NEW a \in Agent, NEW x \in Application, CreateApplicationSave(a, x),
           applicationOps' = applicationOps
    PROVE  ApplicationsInv'
<1> DEFINE new == [by |-> applicationCalls[a].by, for |-> applicationCalls[a].for,
                   stage |-> "screening", status |-> "submitted"]
<1>1. new \in ApplicationDoc
  BY ApplicationCallFields
     DEF CreateApplicationSave, At, ApplicationsInv, ApplicationsTypeOK, ApplicationDoc,
         ApplicationStage, ApplicationStatus
<1>2. new.stage = "screening" /\ new.status = "submitted"
  OBVIOUS
<1>3. /\ At(applicationCalls, a, "apply.create") /\ applications[x] = NULL
      /\ applications' = [applications EXCEPT ![x] = new] /\ Moves(a, NULL)
      /\ UNCHANGED <<history, interviews, scores, lost>>
  BY DEF CreateApplicationSave, Moves, Finish
<1> HIDE DEF new
<1>4. Persist /\ applications' \in [Application -> ApplicationDoc \cup {NULL}]
  BY <1>1, <1>3, ApplicationsAssumption DEF Persist, ApplicationsInv, ApplicationsTypeOK
<1>5. applicationCalls' \in [Agent -> ApplicationCall \cup {NULL}] /\ ApplicationCallsSound'
  BY <1>3, <1>4, CallsAfter
<1>6. SubmittedIsLinked'
  BY <1>3, LinkersStay DEF At
<1>7. \A b \in Agent : b # a => applicationCalls'[b] = applicationCalls[b]
  BY <1>3 DEF Moves, ApplicationsInv, ApplicationsTypeOK
<1>8. ASSUME NEW y \in Application, applications'[y] # NULL, y \notin lost, y # x
      PROVE  StageJustified(y)' /\ StatusJustified(y)'
  <2>1. applications'[y] = applications[y]
    BY <1>3, <1>8 DEF ApplicationsInv, ApplicationsTypeOK
  <2>2. StageJustified(y) /\ StatusJustified(y)
    BY <1>8, <2>1 DEF ApplicationsInv, ChangesJustified
  <2>3. \A b \in Agent : RecordsOf(b, y) =>
          RecordsOf(b, y)' /\ HistoryOf(applicationCalls[b])' = HistoryOf(applicationCalls[b])
    BY <1>3, <1>7 DEF RecordsOf, At, HistoryOf
  <2> QED BY <1>3, <2>1, <2>2, <2>3 DEF StageJustified, StatusJustified
<1>9. StageJustified(x)' /\ StatusJustified(x)'
  BY <1>2, <1>3 DEF StageJustified, StatusJustified, ApplicationsInv, ApplicationsTypeOK
<1>10. ChangesJustified'
  BY <1>3, <1>8, <1>9 DEF ChangesJustified
<1> QED BY <1>3, <1>4, <1>5, <1>6, <1>10 DEF ApplicationsInv, ApplicationsTypeOK, ScoredExist

\* What an update leaves of the documents and calls.
LEMMA UpdateApplicationSaves ==
    ASSUME ApplicationsInv, NEW a \in Agent, UpdateApplicationSave(a)
    PROVE  LET call == applicationCalls[a]
               next == IF call.stage = NULL /\ call.status = NULL THEN NULL
                       ELSE [call EXCEPT !.at = "update.history"]
               old  == applications[call.application]
               new  == [old EXCEPT !.stage = IfNamed(call.stage, @), !.status = IfNamed(call.status, @)]
           IN  /\ call \in ApplicationCall /\ call.at = "update.save"
               /\ call.application \in Application /\ call.read \in ApplicationDoc
               /\ next \in ApplicationCall \cup {NULL} /\ Moves(a, next)
               /\ old \in ApplicationDoc /\ new \in ApplicationDoc
               /\ new.stage = IfNamed(call.stage, old.stage)
               /\ new.status = IfNamed(call.status, old.status)
               /\ applications' = [applications EXCEPT ![call.application] = new]
               /\ UNCHANGED <<history, interviews, scores, lost>>
<1> DEFINE call == applicationCalls[a]
           next == IF call.stage = NULL /\ call.status = NULL THEN NULL
                   ELSE [call EXCEPT !.at = "update.history"]
           old == applications[call.application]
           new == [old EXCEPT !.stage = IfNamed(call.stage, @), !.status = IfNamed(call.status, @)]
<1>1. /\ call \in ApplicationCall /\ call.at = "update.save" /\ ApplicationCallSound(call)
  BY DEF UpdateApplicationSave, At, ApplicationsInv, ApplicationsTypeOK, ApplicationCallsSound, Idle
<1>2. /\ call.application \in Application /\ call.read \in ApplicationDoc
      /\ call.stage \in ApplicationStage \cup {NULL} /\ call.status \in ApplicationStatus \cup {NULL}
  BY <1>1, ApplicationCallFields
<1>3. [call EXCEPT !.at = "update.history"] \in ApplicationCall
  BY <1>1 DEF ApplicationCall
<1>4. old \in ApplicationDoc
  BY <1>1, <1>2 DEF ApplicationCallSound, ApplicationsInv, ApplicationsTypeOK
<1>5. /\ new \in ApplicationDoc /\ new.stage = IfNamed(call.stage, old.stage)
      /\ new.status = IfNamed(call.status, old.status)
  BY <1>2, <1>4 DEF ApplicationDoc, IfNamed
<1>6. Moves(a, next)
  BY DEF UpdateApplicationSave, Moves, Finish, ApplicationsInv, ApplicationsTypeOK
<1>7. /\ applications' = [applications EXCEPT ![call.application] = new]
      /\ UNCHANGED <<history, interviews, scores, lost>>
  BY <1>2 DEF UpdateApplicationSave, ApplicationsInv, ApplicationsTypeOK
<1> QED BY <1>1, <1>2, <1>3, <1>4, <1>5, <1>6, <1>7

LEMMA UpdateApplicationSaveStep ==
    ASSUME ApplicationsInv, NEW a \in Agent, UpdateApplicationSave(a), applicationOps' = applicationOps
    PROVE  ApplicationsInv'
<1>1. PICK call \in ApplicationCall, next \in ApplicationCall \cup {NULL}, x \in Application,
           new \in ApplicationDoc :
        /\ call = applicationCalls[a] /\ call.at = "update.save" /\ x = call.application
        /\ call.read \in ApplicationDoc /\ applications[x] \in ApplicationDoc
        /\ next = (IF call.stage = NULL /\ call.status = NULL THEN NULL
                   ELSE [call EXCEPT !.at = "update.history"])
        /\ Moves(a, next)
        /\ new.stage = IfNamed(call.stage, applications[x].stage)
        /\ new.status = IfNamed(call.status, applications[x].status)
        /\ applications' = [applications EXCEPT ![x] = new]
        /\ UNCHANGED <<history, interviews, scores, lost>>
  BY UpdateApplicationSaves
<1>2. next # NULL => /\ next.at = "update.history" /\ next.application = x
                     /\ call.stage # NULL => HistoryOf(next).newStage = new.stage
                     /\ call.status # NULL => HistoryOf(next).newStatus = new.status
  BY <1>1 DEF HistoryOf, IfNamed, ApplicationCall
<1>3. call.stage # NULL \/ call.status # NULL => next # NULL
  <2>1. [call EXCEPT !.at = "update.history"] \in ApplicationCall
    BY <1>1 DEF ApplicationCall
  <2> QED BY <1>1, <2>1, ApplicationsAssumption
<1>4. /\ call.stage = NULL => new.stage = applications[x].stage
      /\ call.status = NULL => new.status = applications[x].status
  BY <1>1 DEF IfNamed
<1>5. Persist /\ applications' \in [Application -> ApplicationDoc \cup {NULL}]
  BY <1>1, ApplicationsAssumption DEF Persist, ApplicationsInv, ApplicationsTypeOK
<1>6. applications'[x] = new /\ new # NULL
  BY <1>1, ApplicationsAssumption DEF ApplicationsInv, ApplicationsTypeOK
<1>7. next # NULL => ApplicationCallSound(next)'
  BY <1>2, <1>6 DEF ApplicationCallSound
<1>8. applicationCalls' \in [Agent -> ApplicationCall \cup {NULL}] /\ ApplicationCallsSound'
  BY <1>1, <1>5, <1>7, CallsAfter
<1>9. SubmittedIsLinked'
  BY <1>1, LinkersStay DEF At
<1>10. /\ applicationCalls'[a] = next
       /\ \A b \in Agent : b # a => applicationCalls'[b] = applicationCalls[b]
  BY <1>1 DEF Moves, ApplicationsInv, ApplicationsTypeOK
<1>11. \A b \in Agent, y \in Application : RecordsOf(b, y) =>
          RecordsOf(b, y)' /\ HistoryOf(applicationCalls[b])' = HistoryOf(applicationCalls[b])
  BY <1>1, <1>10 DEF RecordsOf, At, HistoryOf
<1>12. next # NULL => RecordsOf(a, x)'
  BY <1>2, <1>10 DEF RecordsOf, At
<1>13. HistoryOf(applicationCalls[a])' = HistoryOf(next)
  BY <1>10 DEF HistoryOf
<1>14. ASSUME NEW y \in Application, applications'[y] # NULL, y \notin lost
       PROVE  StageJustified(y)' /\ StatusJustified(y)'
  <2>1. applications[y] # NULL
    BY <1>1, <1>14, ApplicationsAssumption DEF ApplicationsInv, ApplicationsTypeOK
  <2>2. StageJustified(y) /\ StatusJustified(y)
    BY <1>14, <2>1 DEF ApplicationsInv, ChangesJustified
  <2>3. CASE y # x
    <3>1. applications'[y] = applications[y]
      BY <1>1, <2>3 DEF ApplicationsInv, ApplicationsTypeOK
    <3> QED BY <1>1, <1>11, <2>2, <3>1 DEF StageJustified, StatusJustified
  <2>4. CASE y = x
    <3>1. StageJustified(x)'
      <4>1. CASE call.stage # NULL
        <5>1. RecordsOf(a, x)' /\ HistoryOf(applicationCalls[a])'.newStage = applications'[x].stage
          BY <1>2, <1>3, <1>6, <1>12, <1>13, <4>1
        <5> QED BY <5>1 DEF StageJustified
      <4>2. CASE call.stage = NULL
        <5>1. applications'[x].stage = applications[x].stage /\ history' = history
          BY <1>1, <1>4, <1>6, <4>2
        <5> QED BY <1>11, <2>2, <2>4, <5>1 DEF StageJustified
      <4> QED BY <4>1, <4>2
    <3>2. StatusJustified(x)'
      <4>1. CASE call.status # NULL
        <5>1. RecordsOf(a, x)' /\ HistoryOf(applicationCalls[a])'.newStatus = applications'[x].status
          BY <1>2, <1>3, <1>6, <1>12, <1>13, <4>1
        <5> QED BY <5>1 DEF StatusJustified
      <4>2. CASE call.status = NULL
        <5>1. applications'[x].status = applications[x].status /\ history' = history
          BY <1>1, <1>4, <1>6, <4>2
        <5> QED BY <1>11, <2>2, <2>4, <5>1 DEF StatusJustified
      <4> QED BY <4>1, <4>2
    <3> QED BY <2>4, <3>1, <3>2
  <2> QED BY <2>3, <2>4
<1>15. ChangesJustified'
  BY <1>1, <1>14 DEF ChangesJustified
<1> QED BY <1>1, <1>5, <1>8, <1>9, <1>15 DEF ApplicationsInv, ApplicationsTypeOK, ScoredExist

LEMMA UpdateApplicationHistoryStep ==
    ASSUME ApplicationsInv, NEW a \in Agent, UpdateApplicationHistory(a),
           applicationOps' = applicationOps
    PROVE  ApplicationsInv'
<1> DEFINE call == applicationCalls[a]
           record == HistoryOf(call)
<1>1. /\ call \in ApplicationCall /\ call.at = "update.history"
      /\ history' = history \cup {record} /\ Moves(a, NULL)
      /\ UNCHANGED <<applications, interviews, scores, lost>>
  BY DEF UpdateApplicationHistory, At, Moves, Finish, ApplicationsInv, ApplicationsTypeOK
<1>2. record \in HistoryDoc /\ record.of = call.application
  <2>1. /\ call.application \in Application /\ call.read \in ApplicationDoc
        /\ call.stage \in ApplicationStage \cup {NULL} /\ call.status \in ApplicationStatus \cup {NULL}
    BY <1>1, ApplicationCallFields
  <2> QED BY <2>1 DEF HistoryOf, IfNamed, HistoryDoc, ApplicationDoc
<1> HIDE DEF record
<1>3. Persist
  BY <1>1 DEF Persist
<1>4. applicationCalls' \in [Agent -> ApplicationCall \cup {NULL}] /\ ApplicationCallsSound'
  BY <1>1, <1>3, CallsAfter
<1>5. SubmittedIsLinked'
  BY <1>1, LinkersStay DEF At
<1>6. \A b \in Agent : b # a => applicationCalls'[b] = applicationCalls[b]
  BY <1>1 DEF Moves, ApplicationsInv, ApplicationsTypeOK
<1>7. ASSUME NEW y \in Application, applications[y] # NULL, y \notin lost
      PROVE  StageJustified(y)' /\ StatusJustified(y)'
  <2>1. StageJustified(y) /\ StatusJustified(y)
    BY <1>7 DEF ApplicationsInv, ChangesJustified
  <2>2. \A b \in Agent : RecordsOf(b, y) =>
          \/ RecordsOf(b, y)' /\ HistoryOf(applicationCalls[b])' = HistoryOf(applicationCalls[b])
          \/ record.of = y /\ HistoryOf(applicationCalls[b]) = record
    BY <1>2, <1>6 DEF RecordsOf, At, HistoryOf, record
  <2> QED BY <1>1, <2>1, <2>2 DEF StageJustified, StatusJustified
<1>8. ChangesJustified'
  BY <1>1, <1>7 DEF ChangesJustified
<1> QED BY <1>1, <1>2, <1>4, <1>5, <1>8 DEF ApplicationsInv, ApplicationsTypeOK, ScoredExist

LEMMA CreateInterviewSaveStep ==
    ASSUME ApplicationsInv, NEW a \in Agent, NEW i \in Interview, CreateInterviewSave(a, i),
           applicationOps' = applicationOps
    PROVE  ApplicationsInv'
<1> DEFINE new == [of |-> applicationCalls[a].application, stage |-> applicationCalls[a].stage,
                   status |-> applicationCalls[a].status, feedback |-> FALSE]
<1>0. PICK next : next = [at |-> "assessment.create", interview |-> i]
  OBVIOUS
<1>1. new \in InterviewDoc
  BY ApplicationCallFields
     DEF CreateInterviewSave, At, ApplicationsInv, ApplicationsTypeOK, InterviewDoc
<1>2. /\ At(applicationCalls, a, "interview.create") /\ interviews[i] = NULL
      /\ interviews' = [interviews EXCEPT ![i] = new] /\ Moves(a, next)
      /\ UNCHANGED <<applications, history, scores, lost>>
  BY <1>0 DEF CreateInterviewSave, Moves, Begin
<1> HIDE DEF new
<1>3. Persist /\ interviews' \in [Interview -> InterviewDoc \cup {NULL}] /\ interviews'[i] # NULL
  BY <1>1, <1>2, ApplicationsAssumption DEF Persist, ApplicationsInv, ApplicationsTypeOK
<1>4. next \in ApplicationCall /\ ApplicationCallSound(next)'
  BY <1>0, <1>3 DEF ApplicationCall, ApplicationCallSound
<1>5. applicationCalls' \in [Agent -> ApplicationCall \cup {NULL}] /\ ApplicationCallsSound'
  BY <1>2, <1>3, <1>4, CallsAfter
<1>6. ChangesJustified'
  BY <1>2, RecordersStay DEF At
<1>7. \A j \in Interview : interviews[j] # NULL /\ interviews[j].feedback => interviews'[j].feedback
  BY <1>2 DEF ApplicationsInv, ApplicationsTypeOK
<1>8. SubmittedIsLinked'
  BY <1>2, <1>7, LinkersStay DEF At
<1>9. ScoredExist'
  BY <1>2, <1>3 DEF ApplicationsInv, ScoredExist, Persist
<1> QED BY <1>2, <1>3, <1>5, <1>6, <1>8, <1>9 DEF ApplicationsInv, ApplicationsTypeOK

LEMMA CreateAssessmentStep ==
    ASSUME ApplicationsInv, NEW a \in Agent, CreateAssessment(a), applicationOps' = applicationOps
    PROVE  ApplicationsInv'
<1> DEFINE i == applicationCalls[a].interview
<1>1. /\ At(applicationCalls, a, "assessment.create") /\ i \in Interview /\ interviews[i] # NULL
  BY ApplicationCallFields
     DEF CreateAssessment, At, ApplicationsInv, ApplicationsTypeOK, ApplicationCallsSound,
         ApplicationCallSound, Idle
<1>2. scores' = [scores EXCEPT ![i] = 0] /\ Moves(a, NULL)
      /\ UNCHANGED <<applications, history, interviews, lost>>
  BY DEF CreateAssessment, Moves, Finish
<1> HIDE DEF i
<1>3. Persist
  BY <1>2 DEF Persist
<1>4. applicationCalls' \in [Agent -> ApplicationCall \cup {NULL}] /\ ApplicationCallsSound'
  BY <1>2, <1>3, CallsAfter
<1>5. ChangesJustified'
  BY <1>1, <1>2, RecordersStay DEF At
<1>6. scores' \in [Interview -> Score \cup {0, NULL}] /\ ScoredExist'
  BY <1>1, <1>2 DEF ApplicationsInv, ApplicationsTypeOK, ScoredExist
<1>7. \A j \in Interview : scores'[j] \notin {0, NULL} => scores[j] = scores'[j]
  BY <1>2 DEF ApplicationsInv, ApplicationsTypeOK
<1>8. \A j \in Interview : Linking(j) => Linking(j)'
  BY <1>1, <1>2 DEF Linking, At, Moves, ApplicationsInv, ApplicationsTypeOK
<1>9. SubmittedIsLinked'
  BY <1>2, <1>7, <1>8 DEF ApplicationsInv, SubmittedIsLinked
<1> QED BY <1>2, <1>4, <1>5, <1>6, <1>9 DEF ApplicationsInv, ApplicationsTypeOK

LEMMA SubmitAssessmentSaveStep ==
    ASSUME ApplicationsInv, NEW a \in Agent, SubmitAssessmentSave(a), applicationOps' = applicationOps
    PROVE  ApplicationsInv'
<1>1. PICK i \in Interview, score \in Score :
        /\ At(applicationCalls, a, "score.save") /\ interviews[i] # NULL
        /\ i = applicationCalls[a].interview /\ score = applicationCalls[a].score
  BY ApplicationCallFields
     DEF SubmitAssessmentSave, At, ApplicationsInv, ApplicationsTypeOK, ApplicationCallsSound,
         ApplicationCallSound, Idle
<1>0. PICK next : next = [at |-> "feedback.save", interview |-> i]
  OBVIOUS
<1>2. scores' = [scores EXCEPT ![i] = score] /\ Moves(a, next)
      /\ UNCHANGED <<applications, history, interviews, lost>>
  BY <1>0, <1>1 DEF SubmitAssessmentSave, Moves, Begin
<1>3. Persist
  BY <1>2 DEF Persist
<1>4. next \in ApplicationCall /\ ApplicationCallSound(next)'
  BY <1>0, <1>1, <1>2 DEF ApplicationCall, ApplicationCallSound
<1>5. next # NULL /\ At(applicationCalls, a, "feedback.save")' /\ applicationCalls'[a].interview = i
  BY <1>0, <1>2, <1>4, ApplicationsAssumption DEF At, Moves, ApplicationsInv, ApplicationsTypeOK
<1>6. applicationCalls' \in [Agent -> ApplicationCall \cup {NULL}] /\ ApplicationCallsSound'
  BY <1>2, <1>3, <1>4, CallsAfter
<1>7. ChangesJustified'
  BY <1>1, <1>2, RecordersStay DEF At
<1>8. scores' \in [Interview -> Score \cup {0, NULL}] /\ ScoredExist'
  BY <1>1, <1>2 DEF ApplicationsInv, ApplicationsTypeOK, ScoredExist
<1>9. Linking(i)' /\ \A j \in Interview : Linking(j) => Linking(j)'
  BY <1>1, <1>2, <1>5 DEF Linking, At, Moves, ApplicationsInv, ApplicationsTypeOK
<1>10. \A j \in Interview : j # i => scores[j] = scores'[j]
  BY <1>2 DEF ApplicationsInv, ApplicationsTypeOK
<1>11. SubmittedIsLinked'
  BY <1>2, <1>9, <1>10 DEF ApplicationsInv, SubmittedIsLinked
<1> QED BY <1>2, <1>6, <1>7, <1>8, <1>11 DEF ApplicationsInv, ApplicationsTypeOK

LEMMA SubmitAssessmentFeedbackStep ==
    ASSUME ApplicationsInv, NEW a \in Agent, SubmitAssessmentFeedback(a),
           applicationOps' = applicationOps
    PROVE  ApplicationsInv'
<1>1. PICK i \in Interview :
        /\ At(applicationCalls, a, "feedback.save") /\ i = applicationCalls[a].interview
        /\ interviews[i] # NULL /\ interviews[i] \in InterviewDoc
  BY ApplicationCallFields
     DEF SubmitAssessmentFeedback, At, ApplicationsInv, ApplicationsTypeOK, ApplicationCallsSound,
         ApplicationCallSound, Idle
<1>2. interviews' = [interviews EXCEPT ![i].feedback = TRUE] /\ Moves(a, NULL)
      /\ UNCHANGED <<applications, history, scores, lost>>
  BY <1>1 DEF SubmitAssessmentFeedback, Moves, Finish
<1>3. \A b \in Agent : b # a => applicationCalls'[b] = applicationCalls[b]
  BY <1>2 DEF Moves, ApplicationsInv, ApplicationsTypeOK
<1>4. \A j \in Interview : j # i /\ Linking(j) => Linking(j)'
  BY <1>1, <1>3 DEF Linking, At
<1> DEFINE new == [interviews[i] EXCEPT !.feedback = TRUE]
<1>5. new \in InterviewDoc /\ new.feedback
  BY <1>1 DEF InterviewDoc
<1>6. interviews' = [interviews EXCEPT ![i] = new]
  BY <1>2 DEF ApplicationsInv, ApplicationsTypeOK
<1> HIDE DEF new
<1>7. Persist /\ interviews' \in [Interview -> InterviewDoc \cup {NULL}]
  <2>1. applications' = applications
    BY <1>2
  <2> QED BY <1>1, <1>5, <1>6, <2>1, ApplicationsAssumption DEF Persist, ApplicationsInv, ApplicationsTypeOK
<1>8. applicationCalls' \in [Agent -> ApplicationCall \cup {NULL}] /\ ApplicationCallsSound'
  BY <1>2, <1>7, CallsAfter
<1>9. ChangesJustified'
  BY <1>1, <1>2, RecordersStay DEF At
<1>10. /\ interviews'[i].feedback
       /\ \A j \in Interview : j # i => interviews'[j] = interviews[j]
  BY <1>1, <1>5, <1>6 DEF ApplicationsInv, ApplicationsTypeOK
<1>11. SubmittedIsLinked'
  BY <1>2, <1>4, <1>10 DEF ApplicationsInv, SubmittedIsLinked
<1>12. ScoredExist'
  BY <1>2, <1>7 DEF ApplicationsInv, ScoredExist, Persist
<1> QED BY <1>2, <1>7, <1>8, <1>9, <1>11, <1>12 DEF ApplicationsInv, ApplicationsTypeOK

LEMMA ApplicationCallFailsStep ==
    ASSUME ApplicationsInv, NEW a \in Agent, ApplicationCallFails(a), applicationOps' = applicationOps
    PROVE  ApplicationsInv'
<1>1. Moves(a, NULL) /\ UNCHANGED applicationDocs
  BY DEF ApplicationCallFails, Moves, Finish
<1>2. CASE At(applicationCalls, a, "update.history")
  <2>1. lost' = lost \cup {applicationCalls[a].application} /\ applicationCalls[a].application \in Application
    BY <1>2, ApplicationCallFields DEF ApplicationCallFails, At, ApplicationsInv, ApplicationsTypeOK
  <2>2. \A b \in Agent : b # a => applicationCalls'[b] = applicationCalls[b]
    BY <1>1 DEF Moves, ApplicationsInv, ApplicationsTypeOK
  <2>3. ASSUME NEW y \in Application, applications[y] # NULL, y \notin lost'
        PROVE  StageJustified(y)' /\ StatusJustified(y)'
    <3>1. StageJustified(y) /\ StatusJustified(y)
      BY <2>1, <2>3 DEF ApplicationsInv, ChangesJustified
    <3>2. \A b \in Agent : RecordsOf(b, y) =>
            RecordsOf(b, y)' /\ HistoryOf(applicationCalls[b])' = HistoryOf(applicationCalls[b])
      BY <2>1, <2>2, <2>3 DEF RecordsOf, At, HistoryOf
    <3> QED BY <1>1, <3>1, <3>2 DEF StageJustified, StatusJustified, applicationDocs
  <2>4. ChangesJustified'
    BY <1>1, <2>3 DEF ChangesJustified, applicationDocs
  <2>5. \A i \in Interview : Linking(i) => Linking(i)'
    BY <1>2, <2>2 DEF Linking, At
  <2>6. SubmittedIsLinked'
    BY <1>1, <2>1, <2>5 DEF ApplicationsInv, SubmittedIsLinked, applicationDocs
  <2>7. applicationCalls' \in [Agent -> ApplicationCall \cup {NULL}] /\ ApplicationCallsSound'
    BY <1>1, CallsAfter DEF Persist, applicationDocs
  <2> QED BY <1>1, <2>1, <2>4, <2>6, <2>7
          DEF ApplicationsInv, ApplicationsTypeOK, ScoredExist, applicationDocs
<1>3. CASE At(applicationCalls, a, "feedback.save")
  <2>1. lost' = lost \cup {applicationCalls[a].interview} /\ applicationCalls[a].interview \in Interview
    BY <1>3, ApplicationCallFields DEF ApplicationCallFails, At, ApplicationsInv, ApplicationsTypeOK
  <2>2. \A b \in Agent : b # a => applicationCalls'[b] = applicationCalls[b]
    BY <1>1 DEF Moves, ApplicationsInv, ApplicationsTypeOK
  <2>3. ASSUME NEW y \in Application, applications[y] # NULL, y \notin lost'
        PROVE  StageJustified(y)' /\ StatusJustified(y)'
    <3>1. StageJustified(y) /\ StatusJustified(y)
      BY <2>1, <2>3 DEF ApplicationsInv, ChangesJustified
    <3>2. \A b \in Agent : RecordsOf(b, y) =>
            RecordsOf(b, y)' /\ HistoryOf(applicationCalls[b])' = HistoryOf(applicationCalls[b])
      BY <1>3, <2>2 DEF RecordsOf, At, HistoryOf
    <3> QED BY <1>1, <3>1, <3>2 DEF StageJustified, StatusJustified, applicationDocs
  <2>4. ChangesJustified'
    BY <1>1, <2>3 DEF ChangesJustified, applicationDocs
  <2>5. \A i \in Interview : i # applicationCalls[a].interview /\ Linking(i) => Linking(i)'
    BY <2>2 DEF Linking, At
  <2>6. SubmittedIsLinked'
    BY <1>1, <2>1, <2>5 DEF ApplicationsInv, SubmittedIsLinked, applicationDocs
  <2>7. applicationCalls' \in [Agent -> ApplicationCall \cup {NULL}] /\ ApplicationCallsSound'
    BY <1>1, CallsAfter DEF Persist, applicationDocs
  <2> QED BY <1>1, <2>1, <2>4, <2>6, <2>7
          DEF ApplicationsInv, ApplicationsTypeOK, ScoredExist, applicationDocs
<1>4. CASE ~ At(applicationCalls, a, "update.history") /\ ~ At(applicationCalls, a, "feedback.save")
  <2>1. lost' = lost
    BY <1>4 DEF ApplicationCallFails
  <2>2. applicationOps' \in 0..MaxApplicationOps
    BY DEF ApplicationsInv, ApplicationsTypeOK
  <2> QED BY <1>1, <1>4, <2>1, <2>2, QuietKeeps
<1> QED BY <1>2, <1>3, <1>4

-----------------------------------------------------------------------------

LEMMA RequestApplicationStep ==
    ASSUME ApplicationsInv, RequestApplication, applicationOps' \in 0..MaxApplicationOps
    PROVE  ApplicationsInv'
BY CreateApplicationStep, UpdateApplicationStep, CreateInterviewStep, SubmitAssessmentStep,
   UpdateInterviewStep
   DEF RequestApplication

LEMMA ApplicationsStep ==
    ASSUME ApplicationsInv, [ApplicationsNext]_applicationVars PROVE ApplicationsInv'
<1>1. CASE UNCHANGED applicationVars
  BY <1>1 DEF applicationVars, ApplicationsInv, ApplicationsTypeOK, ApplicationCallsSound,
              ApplicationCallSound, Idle, ScoredExist, ChangesJustified, StageJustified,
              StatusJustified, RecordsOf, SubmittedIsLinked, Linking
<1>2. CASE RequestApplication /\ applicationOps < MaxApplicationOps
           /\ applicationOps' = applicationOps + 1
  <2>1. applicationOps' \in 0..MaxApplicationOps
    BY <1>2, ApplicationsAssumption DEF ApplicationsInv, ApplicationsTypeOK
  <2> QED BY <1>2, <2>1, RequestApplicationStep
<1>3. ASSUME NEW a \in Agent, ApplicationStep(a), applicationOps' = applicationOps
      PROVE  ApplicationsInv'
  BY <1>3, CreateApplicationSaveStep, UpdateApplicationSaveStep, UpdateApplicationHistoryStep,
     CreateInterviewSaveStep, CreateAssessmentStep, SubmitAssessmentSaveStep,
     SubmitAssessmentFeedbackStep, ApplicationCallFailsStep
     DEF ApplicationStep
<1> QED BY <1>1, <1>2, <1>3 DEF ApplicationsNext

THEOREM ApplicationsInvariant == ApplicationsSpec => []ApplicationsInv
BY ApplicationsInitially, ApplicationsStep, PTL DEF ApplicationsSpec

\* Every document, call in flight and history has its type.
THEOREM ApplicationsTypeCorrect == ApplicationsSpec => []ApplicationsTypeOK
<1>1. ApplicationsInv => ApplicationsTypeOK
  BY DEF ApplicationsInv
<1> QED BY <1>1, ApplicationsInvariant, PTL

\* The stage and the status of an application are in its history.
THEOREM ChangesAreRecorded == ApplicationsSpec => []EveryChangeIsRecorded
<1>1. ApplicationsInv => EveryChangeIsRecorded
  BY DEF ApplicationsInv, ChangesJustified, StageJustified, StatusJustified, RecordsOf,
         EveryChangeIsRecorded, Recording
<1> QED BY <1>1, ApplicationsInvariant, PTL

\* An interview whose assessment was submitted is linked to it.
THEOREM SubmissionsAreLinked == ApplicationsSpec => []SubmittedIsLinked
<1>1. ApplicationsInv => SubmittedIsLinked
  BY DEF ApplicationsInv
<1> QED BY <1>1, ApplicationsInvariant, PTL

(***************************************************************************)
(* Onboarding checklists.                                                  *)
(***************************************************************************)
(* The inductive invariant.                                                *)

CompletedIn(tasks) ==
    {tasks[i].name : i \in {j \in DOMAIN tasks : tasks[j].status = "completed"}}

TasksFit(tasks) ==
    \A i \in DOMAIN tasks :
      tasks[i].document \in DocumentType => tasks[i].name \in Fits[tasks[i].document]

\* Tasks that nobody has worked on.
AreNew(tasks) == \A i \in DOMAIN tasks : tasks[i].status = "pending" /\ tasks[i].document = NULL

\* The second list goes on from the first: its tasks keep their places.
GoesOn(tasks, new) ==
    /\ DOMAIN tasks \subseteq DOMAIN new
    /\ \A i \in DOMAIN tasks : new[i].name = tasks[i].name

\* What a handler has made of the tasks it read.
ReplacementSound(call) ==
    /\ GoesOn(call.read, call.tasks)
    /\ call.completed => AllCompleted(call.tasks)

ChangesSound(call) ==
    /\ GoesOn(call.read, call.tasks) /\ DOMAIN call.tasks = DOMAIN call.read
    /\ \A i \in DOMAIN call.tasks :
         \/ call.tasks[i].document = call.read[i].document
         \/ /\ call.tasks[i].document \in DocumentType
            /\ call.tasks[i].name \in Fits[call.tasks[i].document]
    /\ call.completed /\ ~ call.cancels => AllCompleted(call.tasks)

\* What it has read of a list is in the list, unless the list was overwritten;
\* and if its save is accepted, nothing was added that late does not name.
ReadIsThere(call) ==
    LET list == checklists[call.checklist]
    IN  /\ call.checklist \notin overwritten => GoesOn(call.read, list.tasks)
        /\ call.version <= list.version
        /\ call.checklist \notin overwritten /\ (call.version = list.version \/ ChangedPlaces(call) = {}) =>
             Names(list.tasks) \subseteq Names(call.read) \cup late[call.checklist]
        /\ CompletedIn(call.read) \subseteq done[call.checklist]

OnboardingCallSound(call) ==
    /\ call.at \in {"tasks.replace", "tasks.push", "fields.save"} =>
         checklists[call.checklist] # NULL
    /\ call.at \in {"checklist.create", "tasks.push"} => AreNew(call.tasks)
    /\ call.at = "tasks.replace" =>
         /\ ReplacementSound(call)
         /\ call.checklist \notin overwritten => TasksFit(call.tasks)
    /\ call.at = "fields.save" => ChangesSound(call) /\ ReadIsThere(call)

ListSound(o) ==
    checklists[o] # NULL =>
      /\ CompletedIn(checklists[o].tasks) \subseteq done[o]
      /\ checklists[o].completed /\ o \notin cancelled \cup overwritten =>
           Names(checklists[o].tasks) \subseteq done[o] \cup late[o]
      /\ o \notin overwritten => TasksFit(checklists[o].tasks)

OnboardingInv ==
    /\ OnboardingTypeOK
    /\ \A o \in Checklist : ListSound(o)
    /\ \A a \in Agent : onboardingCalls[a] # NULL => OnboardingCallSound(onboardingCalls[a])
-----------------------------------------------------------------------------
(* Places.                                                                 *)

\* The least-number principle: of the prefixes 0..i of a set of places, one is
\* included in the others.
LEMMA FirstIsLeast ==
    ASSUME NEW places \in SUBSET Nat, places # {}
    PROVE  First(places) \in places /\ \A j \in places : First(places) <= j
<1> DEFINE T == {0..i : i \in places}
<1>1. T \subseteq FiniteSubsetsOf(Nat) /\ T # {}
  <2>1. ASSUME NEW i \in places PROVE 0..i \in FiniteSubsetsOf(Nat)
    <3>1. IsFiniteSet(0..i)
      BY FS_Interval
    <3> QED BY <3>1 DEF FiniteSubsetsOf
  <2> QED BY <2>1
<1>2. PICK x \in T : \A y \in T : <<y, x>> \notin StrictSubsetOrdering(Nat)
  <2> HIDE DEF T
  <2> QED BY <1>1, FS_StrictSubsetOrderingWellFounded, WFMin
<1>3. PICK i \in places : x = 0..i
  OBVIOUS
<1>4. ASSUME NEW j \in places PROVE i <= j
  <2>1. SUFFICES ASSUME j < i PROVE FALSE
    OBVIOUS
  <2>2. /\ 0..j \in T /\ 0..j \subseteq Nat /\ x \subseteq Nat
        /\ 0..j \subseteq x /\ i \in x /\ i \notin 0..j
    BY <2>1, <1>3
  <2> QED BY <1>2, <2>2 DEF StrictSubsetOrdering
<1>5. \E k \in places : \A j \in places : k <= j
  BY <1>4
<1> QED BY <1>5 DEF First

\* Bounded places without a hole are the places of a list.
LEMMA PlacesOfList ==
    ASSUME NEW places \in SUBSET (Nat \ {0}), NEW n \in Nat, \A i \in places : i <= n,
           \A i \in places : 1..i \subseteq places
    PROVE  \E m \in Nat : places = 1..m
<1> DEFINE free == {m \in Nat : m + 1 \notin places}
           m == First(free)
<1>1. n \in free
  OBVIOUS
<1>2. m \in free /\ \A k \in free : m <= k
  <2>1. free \in SUBSET Nat /\ free # {}
    BY <1>1
  <2> HIDE DEF free
  <2> QED BY <2>1, FirstIsLeast
<1> HIDE DEF m
<1>3. m \in Nat /\ m + 1 \notin places
  BY <1>2
<1>4. \A i \in 1..m : i \in places
  <2>1. ASSUME NEW i \in 1..m PROVE i \in places
    <3>1. i - 1 \in Nat /\ ~ (m <= i - 1) /\ (i - 1) + 1 = i
      BY <1>3
    <3>2. i - 1 \notin free
      <4> HIDE DEF free
      <4> QED BY <1>2, <3>1
    <3> QED BY <3>1, <3>2
  <2> QED BY <2>1
<1>5. \A i \in places : i \in 1..m
  <2>1. ASSUME NEW i \in places, i > m PROVE FALSE
    <3>1. m + 1 \in 1..i
      BY <1>3, <2>1
    <3> QED BY <1>3, <3>1
  <2> QED BY <1>3, <2>1
<1> QED BY <1>3, <1>4, <1>5

-----------------------------------------------------------------------------
(* Lists of tasks.                                                         *)

Status == OnboardingTaskStatus \cup {"gap"}

Link == DocumentType \cup {"given", NULL}

LEMMA TaskFields ==
    ASSUME NEW tasks \in Seq(Task), NEW i \in DOMAIN tasks
    PROVE  /\ tasks[i] \in Task /\ i \in Nat
           /\ tasks[i].name \in TaskName \cup {NULL} /\ tasks[i].status \in Status
           /\ tasks[i].document \in Link /\ tasks[i].noted \in BOOLEAN
<1>1. tasks[i] \in Task /\ i \in Nat
  OBVIOUS
<1> QED BY <1>1 DEF Task, Status, Link

LEMMA NamesTyped ==
    ASSUME NEW tasks \in Seq(Task)
    PROVE  Names(tasks) \subseteq TaskName \cup {NULL} /\ CompletedIn(tasks) \subseteq Names(tasks)
BY TaskFields DEF Names, CompletedIn

\* What a handler leaves of a task keeps the name, and takes the status and the
\* document that the handler has changed.
LEMMA SavedTask ==
    ASSUME NEW current \in Task, NEW read \in Task, NEW new \in Task, new.name = read.name
    PROVE  LET saved == Saved(current, read, new)
           IN  /\ saved \in Task
               /\ saved.name = current.name
               /\ saved.status = IF new.status = read.status THEN current.status ELSE new.status
               /\ saved.document =
                    IF new.document = read.document THEN current.document ELSE new.document
<1>1. PICK saved : saved = Saved(current, read, new)
  OBVIOUS
<1>2. saved = [f \in {"name", "status", "document", "noted"} |->
                 IF new[f] = read[f] THEN current[f] ELSE new[f]]
  <2>1. DOMAIN current = {"name", "status", "document", "noted"}
    BY DEF Task
  <2> QED BY <1>1, <2>1 DEF Saved
<1>3. /\ saved.name = current.name
      /\ saved.status = IF new.status = read.status THEN current.status ELSE new.status
      /\ saved.document = IF new.document = read.document THEN current.document ELSE new.document
      /\ saved.noted = IF new.noted = read.noted THEN current.noted ELSE new.noted
  BY <1>2
<1>4. saved = [name |-> saved.name, status |-> saved.status, document |-> saved.document,
               noted |-> saved.noted]
  BY <1>2
<1>5. /\ saved.name \in TaskName \cup {NULL} /\ saved.status \in Status
      /\ saved.document \in Link
  BY <1>3 DEF Task, Status, Link
<1>6. saved.noted \in BOOLEAN
  <2>1. current.noted \in BOOLEAN /\ new.noted \in BOOLEAN
    BY DEF Task
  <2> QED BY <1>3, <2>1
<1>7. saved \in Task
  BY <1>4, <1>5, <1>6 DEF Task, Status, Link
<1> QED BY <1>1, <1>3, <1>7

\* New tasks are pending and have no document.
LEMMA PendingIs ==
    ASSUME NEW names \in Seq(TaskName)
    PROVE  /\ Pending(names) \in Seq(Task) /\ Len(Pending(names)) = Len(names)
           /\ AreNew(Pending(names))
<1> DEFINE task(i) == [name |-> names[i], status |-> "pending", document |-> NULL, noted |-> FALSE]
<1>1. ASSUME NEW i \in DOMAIN names PROVE task(i) \in Task
  BY DEF Task, OnboardingTaskStatus
<1>2. Pending(names) = [i \in DOMAIN names |-> task(i)]
  BY DEF Pending
<1>3. AreNew(Pending(names))
  BY <1>2 DEF AreNew
<1> HIDE DEF task
<1>4. Pending(names) \in Seq(Task) /\ Len(Pending(names)) = Len(names)
  BY <1>1, <1>2
<1> QED BY <1>3, <1>4

\* A list with new tasks behind it.
LEMMA NewBehind ==
    ASSUME NEW tasks \in Seq(Task), NEW added \in Seq(Task), AreNew(added)
    PROVE  LET all == tasks \o added
           IN  /\ all \in Seq(Task)
               /\ GoesOn(tasks, all)
               /\ Names(all) = Names(tasks) \cup Names(added)
               /\ CompletedIn(all) = CompletedIn(tasks)
               /\ TasksFit(tasks) => TasksFit(all)
<1> DEFINE all == tasks \o added
           n == Len(tasks)
<1>1. /\ all \in Seq(Task) /\ n \in Nat /\ Len(added) \in Nat
      /\ DOMAIN tasks = 1..n /\ DOMAIN added = 1..Len(added) /\ DOMAIN all = 1..(n + Len(added))
  OBVIOUS
<1>2. \A i \in DOMAIN tasks : i \in DOMAIN all /\ all[i] = tasks[i]
  OBVIOUS
<1>3. \A i \in DOMAIN added : n + i \in DOMAIN all /\ all[n + i] = added[i]
  OBVIOUS
<1>4. \A i \in DOMAIN all : i \in DOMAIN tasks \/ \E j \in DOMAIN added : i = n + j
  <2>1. ASSUME NEW i \in DOMAIN all, i \notin DOMAIN tasks PROVE \E j \in DOMAIN added : i = n + j
    <3>1. i - n \in DOMAIN added /\ i = n + (i - n)
      BY <1>1, <2>1
    <3> QED BY <3>1
  <2> QED BY <2>1
<1> HIDE DEF all, n
<1>5. GoesOn(tasks, all)
  BY <1>2 DEF GoesOn
<1>6. Names(all) = Names(tasks) \cup Names(added)
  BY <1>2, <1>3, <1>4 DEF Names
<1>7. \A j \in DOMAIN added : added[j].status # "completed" /\ added[j].document = NULL
  BY DEF AreNew
<1>8. CompletedIn(all) = CompletedIn(tasks)
  BY <1>2, <1>3, <1>4, <1>7 DEF CompletedIn
<1>9. TasksFit(tasks) => TasksFit(all)
  BY <1>2, <1>3, <1>4, <1>7, OnboardingAssumption DEF TasksFit
<1> QED BY <1>1, <1>5, <1>6, <1>8, <1>9 DEF all
\* A list in which one task was replaced.
LEMMA OneChanged ==
    ASSUME NEW tasks \in Seq(Task), NEW i \in DOMAIN tasks, NEW task \in Task
    PROVE  LET new == [tasks EXCEPT ![i] = task]
           IN  /\ new \in Seq(Task) /\ DOMAIN new = DOMAIN tasks
               /\ \A j \in DOMAIN tasks : new[j] = IF j = i THEN task ELSE tasks[j]
OBVIOUS

\* An upload changes at most one task, to which the document fits.
LEMMA MatchedIs ==
    ASSUME NEW tasks \in Seq(Task), NEW document \in DocumentType,
           SearchEnds(tasks, document) # {} => tasks[First(SearchEnds(tasks, document))].name # NULL
    PROVE  LET new == Matched(tasks, document)
           IN  /\ new \in Seq(Task) /\ DOMAIN new = DOMAIN tasks
               /\ \A i \in DOMAIN tasks :
                    /\ new[i].name = tasks[i].name
                    /\ \/ new[i].document = tasks[i].document
                       \/ new[i].document = document /\ new[i].name \in Fits[document]
<1>1. CASE SearchEnds(tasks, document) = {}
  BY <1>1 DEF Matched
<1>2. CASE SearchEnds(tasks, document) # {}
  <2>1. SearchEnds(tasks, document) \in SUBSET Nat
    BY TaskFields DEF SearchEnds
  <2>2. PICK i \in DOMAIN tasks : i = First(SearchEnds(tasks, document))
    BY <1>2, <2>1, FirstIsLeast DEF SearchEnds
  <2>3. i \in SearchEnds(tasks, document)
    BY <1>2, <2>1, <2>2, FirstIsLeast
  <2>4. tasks[i].name \in Fits[document]
    BY <1>2, <2>2, <2>3 DEF SearchEnds
  <2>5. tasks[i] \in Task
    BY TaskFields
  <2>6. PICK status \in Status : status = "completed"
    BY DEF Status, OnboardingTaskStatus
  <2>7. PICK task : task = [tasks[i] EXCEPT !.status = status, !.document = document]
    OBVIOUS
  <2>8. task \in Task /\ task.name = tasks[i].name /\ task.document = document
    <3>1. PICK old \in Task, link \in Link : old = tasks[i] /\ link = document
      BY <2>5 DEF Link
    <3>2. task = [old EXCEPT !.status = status, !.document = link]
      BY <2>7, <3>1
    <3> QED BY <3>1, <3>2 DEF Task, Status, Link
  <2>9. Matched(tasks, document) = [tasks EXCEPT ![i] = task]
    BY <1>2, <2>2, <2>6, <2>7 DEF Matched
  <2>10. PICK new : new = [tasks EXCEPT ![i] = task]
    OBVIOUS
  <2>11. /\ new \in Seq(Task) /\ DOMAIN new = DOMAIN tasks
         /\ \A j \in DOMAIN tasks : new[j] = IF j = i THEN task ELSE tasks[j]
    BY <2>8, <2>10, OneChanged
  <2> QED BY <2>4, <2>8, <2>9, <2>10, <2>11
<1> QED BY <1>1, <1>2

\* The list after document.save().
LEMMA SavedPlacesAre ==
    ASSUME NEW current \in Seq(Task), NEW call \in OnboardingCall, call.at = "fields.save",
           GoesOn(call.read, call.tasks), DOMAIN call.tasks = DOMAIN call.read
    PROVE  LET new == SavedPlaces(current, call)
           IN  /\ new \in Seq(Task)
               /\ GoesOn(call.read, current) =>
                    /\ DOMAIN new = DOMAIN current
                    /\ \A i \in DOMAIN current :
                         /\ new[i].name = current[i].name
                         /\ i \in ChangedPlaces(call) =>
                              /\ new[i].status =
                                   IF call.tasks[i].status = call.read[i].status
                                   THEN current[i].status ELSE call.tasks[i].status
                              /\ new[i].document =
                                   IF call.tasks[i].document = call.read[i].document
                                   THEN current[i].document ELSE call.tasks[i].document
                         /\ i \notin ChangedPlaces(call) => new[i] = current[i]
<1>1. PICK read \in Seq(Task), tasks \in Seq(Task) : read = call.read /\ tasks = call.tasks
  BY DEF OnboardingCall
<1>2. DOMAIN tasks = DOMAIN read /\ \A i \in DOMAIN read : tasks[i].name = read[i].name
  BY <1>1 DEF GoesOn
<1>3. PICK changed \in SUBSET (DOMAIN tasks) :
        changed = ChangedPlaces(call) /\ changed = {i \in DOMAIN tasks : tasks[i] # read[i]}
  BY <1>1 DEF ChangedPlaces
<1> DEFINE old(i) == IF i \in DOMAIN current THEN current[i] ELSE NamelessTask
           task(i) == IF i \in changed THEN Saved(old(i), read[i], tasks[i])
                      ELSE IF i \in DOMAIN current THEN current[i] ELSE Gap
           places == (DOMAIN current) \cup UNION {1..j : j \in changed}
<1>4. SavedPlaces(current, call) = [i \in places |-> task(i)]
  BY <1>1, <1>3 DEF SavedPlaces
<1>5. NamelessTask \in Task /\ Gap \in Task
  BY DEF NamelessTask, Gap, Task, OnboardingTaskStatus
<1>6. ASSUME NEW i PROVE old(i) \in Task
  BY <1>5, TaskFields
<1>7. ASSUME NEW i \in changed
      PROVE  /\ task(i) \in Task
             /\ task(i).name = old(i).name
             /\ task(i).status = IF tasks[i].status = read[i].status THEN old(i).status
                                 ELSE tasks[i].status
             /\ task(i).document = IF tasks[i].document = read[i].document THEN old(i).document
                                   ELSE tasks[i].document
  <2>1. PICK was \in Task : was = old(i)
    BY <1>6
  <2>2. read[i] \in Task /\ tasks[i] \in Task /\ tasks[i].name = read[i].name
    BY <1>2, <1>7, TaskFields
  <2>3. task(i) = Saved(was, read[i], tasks[i])
    BY <1>7, <2>1
  <2> HIDE DEF task, old
  <2> QED BY <2>1, <2>2, <2>3, SavedTask
<1>8. ASSUME NEW i \in places PROVE task(i) \in Task
  <2>1. CASE i \in changed
    BY <1>7, <2>1
  <2>2. CASE i \notin changed
    BY <1>5, <2>2, TaskFields
  <2> QED BY <2>1, <2>2
<1>9. \E m \in Nat : places = 1..m
  <2>1. /\ DOMAIN current = 1..Len(current) /\ Len(current) \in Nat
        /\ DOMAIN tasks = 1..Len(tasks) /\ Len(tasks) \in Nat
    OBVIOUS
  <2>2. PICK n \in Nat : n >= Len(current) /\ n >= Len(tasks)
    BY <2>1
  <2>3. places \in SUBSET (Nat \ {0})
    BY <2>1
  <2>4. \A i \in places : i <= n
    BY <2>1, <2>2
  <2>5. \A i \in places : 1..i \subseteq places
    BY <2>1
  <2> HIDE DEF places
  <2> QED BY <2>3, <2>4, <2>5, PlacesOfList
<1>10. SavedPlaces(current, call) \in Seq(Task)
  <2> HIDE DEF task, places
  <2> QED BY <1>4, <1>8, <1>9
<1>11. ASSUME GoesOn(read, current) PROVE places = DOMAIN current
  <2>1. \A j \in changed : j \in DOMAIN current
    BY <1>2, <1>11 DEF GoesOn
  <2>2. \A j \in DOMAIN current : 1..j \subseteq DOMAIN current
    OBVIOUS
  <2> QED BY <2>1, <2>2
<1>12. ASSUME GoesOn(read, current), NEW i \in DOMAIN current
       PROVE  /\ task(i).name = current[i].name
              /\ i \in changed =>
                   /\ task(i).status = IF tasks[i].status = read[i].status THEN current[i].status
                                       ELSE tasks[i].status
                   /\ task(i).document = IF tasks[i].document = read[i].document
                                         THEN current[i].document ELSE tasks[i].document
              /\ i \notin changed => task(i) = current[i]
  <2>1. old(i) = current[i]
    BY <1>12
  <2>2. i \notin changed => task(i) = current[i]
    BY <1>12
  <2> HIDE DEF task, old
  <2> QED BY <1>7, <2>1, <2>2
<1>13. ASSUME GoesOn(read, current)
       PROVE  /\ DOMAIN SavedPlaces(current, call) = DOMAIN current
              /\ \A i \in DOMAIN current : SavedPlaces(current, call)[i] = task(i)
  <2>1. places = DOMAIN current
    BY <1>11, <1>13
  <2> HIDE DEF task, places
  <2> QED BY <1>4, <2>1
<1> HIDE DEF task
<1> QED BY <1>1, <1>3, <1>10, <1>12, <1>13
-----------------------------------------------------------------------------
(* What steps have in common.                                              *)

THEOREM OnboardingInitially == OnboardingInit => OnboardingInv
<1> SUFFICES ASSUME OnboardingInit PROVE OnboardingInv
  OBVIOUS
<1>1. OnboardingTypeOK
  BY OnboardingAssumption DEF OnboardingInit, OnboardingTypeOK
<1>2. \A o \in Checklist : ListSound(o)
  BY DEF OnboardingInit, ListSound
<1> QED BY <1>1, <1>2 DEF OnboardingInit, OnboardingInv

LEMMA OnboardingCallOf ==
    ASSUME OnboardingInv, NEW a \in Agent, onboardingCalls[a] # NULL
    PROVE  onboardingCalls[a] \in OnboardingCall /\ OnboardingCallSound(onboardingCalls[a])
BY DEF OnboardingInv, OnboardingTypeOK

\* The fields of a call at each of its steps.
LEMMA OnboardingCallFields ==
    ASSUME NEW call \in OnboardingCall
    PROVE  /\ call.tasks \in Seq(Task)
           /\ call.at = "checklist.create" => call.of \in Newcomer
           /\ call.at \in {"tasks.replace", "tasks.push", "fields.save"} =>
                call.checklist \in Checklist
           /\ call.at \in {"tasks.replace", "fields.save"} =>
                call.read \in Seq(Task) /\ call.completed \in BOOLEAN
           /\ call.at = "fields.save" => call.version \in Nat /\ call.cancels \in BOOLEAN
BY DEF OnboardingCall

LEMMA ChecklistOf ==
    ASSUME OnboardingInv, NEW o \in Checklist, checklists[o] # NULL
    PROVE  /\ checklists[o] \in ChecklistDoc
           /\ checklists[o].of \in Newcomer /\ checklists[o].tasks \in Seq(Task)
           /\ checklists[o].completed \in BOOLEAN /\ checklists[o].version \in Nat
BY DEF OnboardingInv, OnboardingTypeOK, ChecklistDoc

\* How a list may move while a save of its fields is in flight.
ListMoves(o) ==
    /\ checklists'[o] # NULL
    /\ o \notin overwritten' => GoesOn(checklists[o].tasks, checklists'[o].tasks)
    /\ checklists[o].version <= checklists'[o].version
    /\ SavingFields(o) # {} /\ o \notin overwritten' =>
         \/ Names(checklists'[o].tasks) \subseteq Names(checklists[o].tasks) \cup late'[o]
         \/ /\ checklists[o].version < checklists'[o].version
            /\ \A b \in SavingFields(o) : ChangedPlaces(onboardingCalls[b]) # {}

HistoryGrows ==
    /\ overwritten \subseteq overwritten' /\ cancelled \subseteq cancelled'
    /\ \A o \in Checklist : done[o] \subseteq done'[o] /\ late[o] \subseteq late'[o]

OnboardingMoves ==
    /\ HistoryGrows
    /\ \A o \in Checklist : checklists[o] # NULL =>
         /\ checklists'[o] # NULL /\ checklists'[o] \in ChecklistDoc
         /\ ListMoves(o)

LEMMA GoesOnFurther ==
    ASSUME NEW r, NEW s, NEW t, GoesOn(r, s), GoesOn(s, t)
    PROVE  GoesOn(r, t)
BY DEF GoesOn

\* What a save in flight has read stays in the list.
LEMMA ReadStaysThere ==
    ASSUME OnboardingInv, OnboardingMoves, NEW b \in Agent, NEW call \in OnboardingCall,
           call = onboardingCalls[b], call # NULL, call.at = "fields.save",
           checklists[call.checklist] # NULL, ReadIsThere(call)
    PROVE  LET list == checklists'[call.checklist]
           IN  /\ call.checklist \notin overwritten' => GoesOn(call.read, list.tasks)
               /\ call.version <= list.version
               /\ call.checklist \notin overwritten' /\ (call.version = list.version \/ ChangedPlaces(call) = {}) =>
                    Names(list.tasks) \subseteq Names(call.read) \cup late'[call.checklist]
               /\ CompletedIn(call.read) \subseteq done'[call.checklist]
<1>1. PICK o \in Checklist : o = call.checklist
  BY OnboardingCallFields
<1>2. /\ checklists[o].version \in Nat /\ checklists'[o].version \in Nat /\ call.version \in Nat
  BY <1>1, ChecklistOf, OnboardingCallFields DEF OnboardingMoves, ChecklistDoc
<1>3. ListMoves(o) /\ HistoryGrows
  BY <1>1 DEF OnboardingMoves
<1>4. b \in SavingFields(o)
  BY <1>1 DEF SavingFields, At
<1>5. o \notin overwritten' => o \notin overwritten
  BY <1>3 DEF HistoryGrows
<1>6. /\ o \notin overwritten => GoesOn(call.read, checklists[o].tasks)
      /\ call.version <= checklists[o].version
      /\ o \notin overwritten /\ (call.version = checklists[o].version \/ ChangedPlaces(call) = {}) =>
           Names(checklists[o].tasks) \subseteq Names(call.read) \cup late[o]
      /\ CompletedIn(call.read) \subseteq done[o]
  BY <1>1 DEF ReadIsThere
<1>7. o \notin overwritten' => GoesOn(call.read, checklists'[o].tasks)
  BY <1>3, <1>5, <1>6, GoesOnFurther DEF ListMoves
<1>8. call.version <= checklists'[o].version
  BY <1>2, <1>3, <1>6 DEF ListMoves
<1>9. ASSUME o \notin overwritten', call.version = checklists'[o].version \/ ChangedPlaces(call) = {}
      PROVE  Names(checklists'[o].tasks) \subseteq Names(call.read) \cup late'[o]
  <2>1. CASE Names(checklists'[o].tasks) \subseteq Names(checklists[o].tasks) \cup late'[o]
    <3>1. call.version = checklists[o].version \/ ChangedPlaces(call) = {}
      BY <1>2, <1>3, <1>6, <1>9 DEF ListMoves
    <3>2. Names(checklists[o].tasks) \subseteq Names(call.read) \cup late[o]
      BY <1>5, <1>6, <1>9, <3>1
    <3> QED BY <1>3, <2>1, <3>2 DEF HistoryGrows
  <2>2. CASE /\ checklists[o].version < checklists'[o].version
             /\ \A c \in SavingFields(o) : ChangedPlaces(onboardingCalls[c]) # {}
    <3>1. ChangedPlaces(call) # {}
      BY <1>4, <2>2
    <3>2. call.version # checklists'[o].version
      BY <1>2, <1>6, <2>2
    <3> QED BY <1>9, <3>1, <3>2
  <2> QED BY <1>3, <1>4, <1>9, <2>1, <2>2 DEF ListMoves
<1>10. CompletedIn(call.read) \subseteq done'[o]
  BY <1>3, <1>6 DEF HistoryGrows
<1> QED BY <1>1, <1>7, <1>8, <1>9, <1>10

LEMMA OnboardingCallStays ==
    ASSUME OnboardingInv, OnboardingMoves, NEW b \in Agent, NEW call \in OnboardingCall,
           call = onboardingCalls[b], call # NULL, OnboardingCallSound(call)
    PROVE  OnboardingCallSound(call)'
<1>1. call.at \in {"tasks.replace", "tasks.push", "fields.save"} => checklists'[call.checklist] # NULL
  BY OnboardingCallFields DEF OnboardingCallSound, OnboardingMoves
<1>2. call.at \in {"checklist.create", "tasks.push"} => AreNew(call.tasks)
  BY DEF OnboardingCallSound
<1>3. call.at = "tasks.replace" =>
        /\ ReplacementSound(call)
        /\ call.checklist \notin overwritten' => TasksFit(call.tasks)
  BY DEF OnboardingCallSound, OnboardingMoves, HistoryGrows
<1>4. call.at = "fields.save" => ChangesSound(call)
  BY DEF OnboardingCallSound
<1>5. call.at = "fields.save" => ReadIsThere(call)'
  <2>1. ASSUME call.at = "fields.save" PROVE ReadIsThere(call)'
    <3>1. checklists[call.checklist] # NULL /\ ReadIsThere(call)
      BY <2>1 DEF OnboardingCallSound
    <3>2. LET list == checklists'[call.checklist]
          IN  /\ call.checklist \notin overwritten' => GoesOn(call.read, list.tasks)
              /\ call.version <= list.version
              /\ call.checklist \notin overwritten' /\ (call.version = list.version \/ ChangedPlaces(call) = {}) =>
                   Names(list.tasks) \subseteq Names(call.read) \cup late'[call.checklist]
              /\ CompletedIn(call.read) \subseteq done'[call.checklist]
      BY <2>1, <3>1, ReadStaysThere
    <3> QED BY <3>2 DEF ReadIsThere
  <2> QED BY <2>1
<1> QED BY <1>1, <1>2, <1>3, <1>4, <1>5 DEF OnboardingCallSound

\* Agent a goes on with next, a call or NULL.
NextCall(a, next) == onboardingCalls' = [onboardingCalls EXCEPT ![a] = next]

LEMMA OnboardingCallsAfter ==
    ASSUME OnboardingInv, OnboardingMoves, NEW a \in Agent, NEW next \in OnboardingCall \cup {NULL},
           NextCall(a, next), next # NULL => OnboardingCallSound(next)'
    PROVE  /\ onboardingCalls' \in [Agent -> OnboardingCall \cup {NULL}]
           /\ \A b \in Agent : onboardingCalls'[b] # NULL => OnboardingCallSound(onboardingCalls[b])'
<1>1. onboardingCalls \in [Agent -> OnboardingCall \cup {NULL}]
  BY DEF OnboardingInv, OnboardingTypeOK
<1>2. /\ onboardingCalls' \in [Agent -> OnboardingCall \cup {NULL}]
      /\ \A b \in Agent : onboardingCalls'[b] = IF b = a THEN next ELSE onboardingCalls[b]
  BY <1>1 DEF NextCall
<1>3. ASSUME NEW b \in Agent, b # a, onboardingCalls[b] # NULL
      PROVE  OnboardingCallSound(onboardingCalls[b])'
  <2>1. onboardingCalls[b] \in OnboardingCall /\ OnboardingCallSound(onboardingCalls[b])
    BY <1>3, OnboardingCallOf
  <2>2. PICK call \in OnboardingCall : call = onboardingCalls[b]
    BY <2>1
  <2>3. OnboardingCallSound(call)'
    BY <1>3, <2>1, <2>2, OnboardingCallStays
  <2>4. onboardingCalls'[b] = call
    BY <1>2, <1>3, <2>2
  <2> QED BY <2>3, <2>4
<1>4. next # NULL => OnboardingCallSound(onboardingCalls[a])'
  <2>1. onboardingCalls'[a] = next
    BY <1>2
  <2> QED BY <2>1
<1> QED BY <1>2, <1>3, <1>4

\* A step that leaves the documents alone.
LEMMA ListsStay ==
    ASSUME OnboardingInv, UNCHANGED <<checklists, overwritten, cancelled, done, late>>
    PROVE  OnboardingMoves
<1>1. ASSUME NEW o \in Checklist, checklists[o] # NULL
      PROVE  checklists'[o] # NULL /\ checklists'[o] \in ChecklistDoc /\ ListMoves(o)
  <2>1. checklists[o] \in ChecklistDoc /\ checklists[o].version \in Nat
    BY <1>1, ChecklistOf
  <2>2. GoesOn(checklists[o].tasks, checklists[o].tasks)
    BY DEF GoesOn
  <2> QED BY <1>1, <2>1, <2>2 DEF ListMoves
<1> QED BY <1>1 DEF OnboardingMoves, HistoryGrows

LEMMA OnboardingCallsOnly ==
    ASSUME OnboardingInv, NEW a \in Agent, NEW next \in OnboardingCall \cup {NULL}, NextCall(a, next),
           next # NULL => OnboardingCallSound(next),
           UNCHANGED <<checklists, overwritten, cancelled, done, late>>,
           onboardingOps' \in 0..MaxOnboardingOps
    PROVE  OnboardingInv'
<1>1. OnboardingMoves
  BY ListsStay
<1>2. next # NULL => OnboardingCallSound(next)'
  BY DEF OnboardingCallSound, ReadIsThere
<1>3. /\ onboardingCalls' \in [Agent -> OnboardingCall \cup {NULL}]
      /\ \A b \in Agent : onboardingCalls'[b] # NULL => OnboardingCallSound(onboardingCalls[b])'
  BY <1>1, <1>2, OnboardingCallsAfter
<1>4. OnboardingTypeOK'
  BY <1>3 DEF OnboardingInv, OnboardingTypeOK
<1>5. \A o \in Checklist : ListSound(o)'
  BY DEF OnboardingInv, ListSound
<1> QED BY <1>3, <1>4, <1>5 DEF OnboardingInv

LEMMA OnboardingBegins ==
    ASSUME OnboardingInv, NEW a \in Agent, NEW call \in OnboardingCall, OnboardingCallSound(call),
           onboardingCalls' = Begin(onboardingCalls, a, call),
           UNCHANGED <<checklists, overwritten, cancelled, done, late>>,
           onboardingOps' \in 0..MaxOnboardingOps
    PROVE  OnboardingInv'
BY OnboardingCallsOnly DEF Begin, NextCall

LEMMA OnboardingEnds ==
    ASSUME OnboardingInv, NEW a \in Agent, onboardingCalls' = Finish(onboardingCalls, a),
           UNCHANGED <<checklists, overwritten, cancelled, done, late>>,
           onboardingOps' \in 0..MaxOnboardingOps
    PROVE  OnboardingInv'
<1>1. PICK none \in OnboardingCall \cup {NULL} : none = NULL
  OBVIOUS
<1>2. NextCall(a, none)
  BY <1>1 DEF Finish, NextCall
<1> QED BY <1>1, <1>2, OnboardingCallsOnly
-----------------------------------------------------------------------------
(* Steps that begin.                                                       *)

LEMMA BeginCreationStep ==
    ASSUME OnboardingInv, NEW a \in Agent, NEW n \in Newcomer, NEW names \in Seq(TaskName),
           BeginCreation(a, n, names), UNCHANGED <<checklists, overwritten, cancelled, done, late>>,
           onboardingOps' \in 0..MaxOnboardingOps
    PROVE  OnboardingInv'
<1>1. PICK tasks \in Seq(Task) : tasks = Pending(names) /\ AreNew(tasks)
  BY PendingIs
<1>2. PICK call : call = [at |-> "checklist.create", of |-> n, tasks |-> tasks]
  OBVIOUS
<1>3. call \in OnboardingCall
  BY <1>2 DEF OnboardingCall
<1>4. OnboardingCallSound(call)
  BY <1>1, <1>2 DEF OnboardingCallSound
<1>5. onboardingCalls' = Begin(onboardingCalls, a, call)
  BY <1>1, <1>2 DEF BeginCreation
<1> QED BY <1>3, <1>4, <1>5, OnboardingBegins

\* A handler begins to replace a list by what it made of it.
LEMMA ReplacementBegins ==
    ASSUME OnboardingInv, NEW a \in Agent, NEW o \in Checklist, checklists[o] # NULL,
           NEW new \in Seq(Task), NEW completed \in BOOLEAN,
           GoesOn(checklists[o].tasks, new), completed => AllCompleted(new),
           o \notin overwritten => TasksFit(new),
           onboardingCalls' = Begin(onboardingCalls, a,
             [at |-> "tasks.replace", checklist |-> o, read |-> checklists[o].tasks, tasks |-> new,
              completed |-> completed]),
           UNCHANGED <<checklists, overwritten, cancelled, done, late>>,
           onboardingOps' \in 0..MaxOnboardingOps
    PROVE  OnboardingInv'
<1>1. PICK read \in Seq(Task) : read = checklists[o].tasks
  BY ChecklistOf
<1>2. PICK call : call = [at |-> "tasks.replace", checklist |-> o, read |-> read, tasks |-> new,
                          completed |-> completed]
  OBVIOUS
<1>3. call \in OnboardingCall
  BY <1>2 DEF OnboardingCall
<1>4. ReplacementSound(call)
  BY <1>1, <1>2 DEF ReplacementSound
<1>5. OnboardingCallSound(call)
  BY <1>2, <1>4 DEF OnboardingCallSound
<1>6. onboardingCalls' = Begin(onboardingCalls, a, call)
  BY <1>1, <1>2
<1> QED BY <1>3, <1>5, <1>6, OnboardingBegins

LEMMA CreateOnboardingChecklistStep ==
    ASSUME OnboardingInv, NEW a \in Agent, NEW n \in Newcomer, NEW names \in Seq(TaskName),
           CreateOnboardingChecklist(a, n, names), onboardingOps' \in 0..MaxOnboardingOps
    PROVE  OnboardingInv'
<1>1. UNCHANGED <<checklists, overwritten, cancelled, done, late>>
  BY DEF CreateOnboardingChecklist
<1>2. CASE BeginCreation(a, n, names)
  BY <1>1, <1>2, BeginCreationStep
<1>3. ASSUME NEW o \in ChecklistsOf(n),
             onboardingCalls' = Begin(onboardingCalls, a,
               [at |-> "tasks.replace", checklist |-> o, read |-> checklists[o].tasks,
                tasks |-> Extended(checklists[o].tasks, names), completed |-> FALSE])
      PROVE  OnboardingInv'
  <2>1. o \in Checklist /\ checklists[o] # NULL
    BY DEF ChecklistsOf
  <2>2. PICK read \in Seq(Task) : read = checklists[o].tasks
    BY <2>1, ChecklistOf
  <2>3. PICK added \in Seq(Task) : added = Pending(names) /\ AreNew(added)
    BY PendingIs
  <2>4. PICK new : new = read \o added
    OBVIOUS
  <2>5. new \in Seq(Task) /\ GoesOn(read, new) /\ (TasksFit(read) => TasksFit(new))
    BY <2>3, <2>4, NewBehind
  <2>6. o \notin overwritten => TasksFit(read)
    BY <2>1, <2>2 DEF OnboardingInv, ListSound
  <2>7. onboardingCalls' = Begin(onboardingCalls, a,
          [at |-> "tasks.replace", checklist |-> o, read |-> checklists[o].tasks,
           tasks |-> new, completed |-> FALSE])
    BY <1>3, <2>2, <2>3, <2>4 DEF Extended
  <2> QED BY <1>1, <2>1, <2>2, <2>5, <2>6, <2>7, ReplacementBegins
<1> QED BY <1>2, <1>3 DEF CreateOnboardingChecklist

LEMMA CreateOnboardingWithDefaultsStep ==
    ASSUME OnboardingInv, NEW a \in Agent, NEW n \in Newcomer, NEW names \in Seq(TaskName),
           CreateOnboardingWithDefaults(a, n, names), onboardingOps' \in 0..MaxOnboardingOps
    PROVE  OnboardingInv'
<1>1. UNCHANGED <<checklists, overwritten, cancelled, done, late>>
  BY DEF CreateOnboardingWithDefaults
<1>2. CASE BeginCreation(a, n, names)
  BY <1>1, <1>2, BeginCreationStep
<1>3. ASSUME NEW o \in ChecklistsOf(n),
             onboardingCalls' = Begin(onboardingCalls, a,
               [at |-> "tasks.push", checklist |-> o, tasks |-> Pending(names)])
      PROVE  OnboardingInv'
  <2>1. o \in Checklist /\ checklists[o] # NULL
    BY DEF ChecklistsOf
  <2>2. PICK added \in Seq(Task) : added = Pending(names) /\ AreNew(added)
    BY PendingIs
  <2>3. PICK call : call = [at |-> "tasks.push", checklist |-> o, tasks |-> added]
    OBVIOUS
  <2>4. call \in OnboardingCall
    BY <2>1, <2>3 DEF OnboardingCall
  <2>5. OnboardingCallSound(call)
    BY <2>1, <2>2, <2>3 DEF OnboardingCallSound
  <2>6. onboardingCalls' = Begin(onboardingCalls, a, call)
    BY <1>3, <2>2, <2>3
  <2> QED BY <1>1, <2>4, <2>5, <2>6, OnboardingBegins
<1> QED BY <1>2, <1>3 DEF CreateOnboardingWithDefaults

LEMMA UpdateTaskStatusStep ==
    ASSUME OnboardingInv, NEW a \in Agent, NEW n \in Newcomer, NEW name \in TaskName,
           NEW status \in OnboardingTaskStatus, NEW document \in {"given", NULL},
           UpdateTaskStatus(a, n, name, status, document), onboardingOps' \in 0..MaxOnboardingOps
    PROVE  OnboardingInv'
<1>1. UNCHANGED <<checklists, overwritten, cancelled, done, late>>
  BY DEF UpdateTaskStatus
<1>2. PICK o \in ChecklistsOf(n) :
        LET read == checklists[o].tasks
            i    == First(Called(read, name))
            new  == [read EXCEPT ![i] = WorkedOn(read[i], status, document)]
        IN  /\ Called(read, name) # {}
            /\ onboardingCalls' = Begin(onboardingCalls, a,
                 [at |-> "tasks.replace", checklist |-> o, read |-> read, tasks |-> new,
                  completed |-> AllCompleted(new)])
  BY DEF UpdateTaskStatus
<1>3. o \in Checklist /\ checklists[o] # NULL
  BY DEF ChecklistsOf
<1>4. PICK read \in Seq(Task) : read = checklists[o].tasks
  BY <1>3, ChecklistOf
<1>5. PICK i \in DOMAIN read : i = First(Called(read, name))
  <2>1. Called(read, name) \in SUBSET Nat /\ Called(read, name) # {}
    BY <1>2, <1>4, TaskFields DEF Called
  <2> QED BY <2>1, FirstIsLeast DEF Called
<1>6. PICK old \in Task : old = read[i]
  BY TaskFields
<1>7. PICK link \in Link : link = IF document = NULL THEN old.document ELSE document
  BY <1>6, TaskFields DEF Link
<1>8. PICK task : task = [old EXCEPT !.status = status, !.document = link]
  OBVIOUS
<1>9. task \in Task /\ task.name = old.name /\ task.document = link
  <2>1. status \in Status
    BY DEF Status
  <2> QED BY <1>8, <2>1 DEF Task, Status, Link
<1>10. PICK new : new = [read EXCEPT ![i] = task]
  OBVIOUS
<1>11. /\ new \in Seq(Task) /\ DOMAIN new = DOMAIN read
       /\ \A j \in DOMAIN read : new[j] = IF j = i THEN task ELSE read[j]
  BY <1>9, <1>10, OneChanged
<1>12. GoesOn(checklists[o].tasks, new)
  BY <1>4, <1>6, <1>9, <1>11 DEF GoesOn
<1>13. o \notin overwritten => TasksFit(new)
  <2>1. o \notin overwritten => TasksFit(read)
    BY <1>3, <1>4 DEF OnboardingInv, ListSound
  <2>2. link \in DocumentType => link = old.document
    BY <1>7, OnboardingAssumption
  <2> QED BY <1>6, <1>9, <1>11, <2>1, <2>2 DEF TasksFit
<1>14. PICK completed \in BOOLEAN : completed = AllCompleted(new)
  BY DEF AllCompleted
<1>15. WorkedOn(read[i], status, document) = task
  BY <1>6, <1>7, <1>8 DEF WorkedOn
<1>16. onboardingCalls' = Begin(onboardingCalls, a,
         [at |-> "tasks.replace", checklist |-> o, read |-> checklists[o].tasks, tasks |-> new,
          completed |-> completed])
  BY <1>2, <1>4, <1>5, <1>10, <1>14, <1>15
<1> QED BY <1>1, <1>3, <1>11, <1>12, <1>13, <1>14, <1>16, ReplacementBegins

\* A handler begins to save the fields that it changed.
LEMMA SaveBegins ==
    ASSUME OnboardingInv, NEW a \in Agent, NEW o \in Checklist, checklists[o] # NULL,
           NEW new \in Seq(Task), NEW completed \in BOOLEAN, NEW cancels \in BOOLEAN,
           DOMAIN new = DOMAIN checklists[o].tasks,
           \A i \in DOMAIN new :
             /\ new[i].name = checklists[o].tasks[i].name
             /\ \/ new[i].document = checklists[o].tasks[i].document
                \/ new[i].document \in DocumentType /\ new[i].name \in Fits[new[i].document],
           completed /\ ~ cancels => AllCompleted(new),
           onboardingCalls' = Begin(onboardingCalls, a,
             [at |-> "fields.save", checklist |-> o, version |-> checklists[o].version,
              read |-> checklists[o].tasks, tasks |-> new, completed |-> completed,
              cancels |-> cancels]),
           UNCHANGED <<checklists, overwritten, cancelled, done, late>>,
           onboardingOps' \in 0..MaxOnboardingOps
    PROVE  OnboardingInv'
<1>1. PICK read \in Seq(Task), version \in Nat :
        read = checklists[o].tasks /\ version = checklists[o].version
  BY ChecklistOf
<1>2. PICK call : call = [at |-> "fields.save", checklist |-> o, version |-> version, read |-> read,
                          tasks |-> new, completed |-> completed, cancels |-> cancels]
  OBVIOUS
<1>3. call \in OnboardingCall
  BY <1>2 DEF OnboardingCall
<1>4. /\ call.at = "fields.save" /\ call.checklist = o /\ call.version = version
      /\ call.read = read /\ call.tasks = new
      /\ (call.completed <=> completed) /\ (call.cancels <=> cancels)
  BY <1>2
<1>5. ChangesSound(call)
  BY <1>1, <1>4 DEF ChangesSound, GoesOn
<1>6. ReadIsThere(call)
  <2>1. GoesOn(read, read)
    BY DEF GoesOn
  <2>2. CompletedIn(read) \subseteq done[o]
    BY <1>1 DEF OnboardingInv, ListSound
  <2> QED BY <1>1, <1>4, <2>1, <2>2 DEF ReadIsThere
<1>7. OnboardingCallSound(call)
  BY <1>4, <1>5, <1>6 DEF OnboardingCallSound
<1>8. onboardingCalls' = Begin(onboardingCalls, a, call)
  BY <1>1, <1>2
<1> QED BY <1>3, <1>7, <1>8, OnboardingBegins

LEMMA UploadComplianceDocumentsStep ==
    ASSUME OnboardingInv, NEW a \in Agent, NEW n \in Newcomer, NEW document \in DocumentType,
           UploadComplianceDocuments(a, n, document), onboardingOps' \in 0..MaxOnboardingOps
    PROVE  OnboardingInv'
<1>1. UNCHANGED <<checklists, overwritten, cancelled, done, late>>
  BY DEF UploadComplianceDocuments
<1>2. PICK o \in ChecklistsOf(n) :
        LET read == checklists[o].tasks
            ends == SearchEnds(read, document)
            new  == Matched(read, document)
        IN  /\ ends # {} => read[First(ends)].name # NULL
            /\ onboardingCalls' = Begin(onboardingCalls, a,
                 [at |-> "fields.save", checklist |-> o, version |-> checklists[o].version,
                  read |-> read, tasks |-> new, completed |-> AllCompleted(new),
                  cancels |-> FALSE])
  BY DEF UploadComplianceDocuments
<1>3. o \in Checklist /\ checklists[o] # NULL
  BY DEF ChecklistsOf
<1>4. PICK read \in Seq(Task) : read = checklists[o].tasks
  BY <1>3, ChecklistOf
<1>5. PICK new : new = Matched(read, document)
  OBVIOUS
<1>6. /\ new \in Seq(Task) /\ DOMAIN new = DOMAIN read
      /\ \A i \in DOMAIN read :
           /\ new[i].name = read[i].name
           /\ \/ new[i].document = read[i].document
              \/ new[i].document = document /\ new[i].name \in Fits[document]
  BY <1>2, <1>4, <1>5, MatchedIs
<1>7. PICK completed \in BOOLEAN, cancels \in BOOLEAN :
        (completed = AllCompleted(new)) /\ (cancels = FALSE)
  BY DEF AllCompleted
<1>8. onboardingCalls' = Begin(onboardingCalls, a,
        [at |-> "fields.save", checklist |-> o, version |-> checklists[o].version,
         read |-> checklists[o].tasks, tasks |-> new, completed |-> completed, cancels |-> cancels])
  BY <1>2, <1>4, <1>5, <1>7
<1> QED BY <1>1, <1>3, <1>4, <1>6, <1>7, <1>8, SaveBegins

LEMMA CancelOnboardingStep ==
    ASSUME OnboardingInv, NEW a \in Agent, NEW n \in Newcomer, CancelOnboarding(a, n),
           onboardingOps' \in 0..MaxOnboardingOps
    PROVE  OnboardingInv'
<1>1. UNCHANGED <<checklists, overwritten, cancelled, done, late>>
  BY DEF CancelOnboarding
<1>2. PICK o \in ChecklistsOf(n) :
        LET read == checklists[o].tasks
        IN  onboardingCalls' = Begin(onboardingCalls, a,
              [at |-> "fields.save", checklist |-> o, version |-> checklists[o].version,
               read |-> read,
               tasks |-> [i \in DOMAIN read |->
                            IF read[i].status = "completed" THEN read[i]
                            ELSE [read[i] EXCEPT !.status = "pending", !.noted = TRUE]],
               completed |-> TRUE, cancels |-> TRUE])
  BY DEF CancelOnboarding
<1>3. o \in Checklist /\ checklists[o] # NULL
  BY DEF ChecklistsOf
<1>4. PICK read \in Seq(Task) : read = checklists[o].tasks
  BY <1>3, ChecklistOf
<1> DEFINE task(i) == IF read[i].status = "completed" THEN read[i]
                      ELSE [read[i] EXCEPT !.status = "pending", !.noted = TRUE]
<1>5. ASSUME NEW i \in DOMAIN read
      PROVE  task(i) \in Task /\ task(i).name = read[i].name /\ task(i).document = read[i].document
  <2>1. PICK old \in Task : old = read[i]
    BY TaskFields
  <2>2. PICK reset : reset = [old EXCEPT !.status = "pending", !.noted = TRUE]
    OBVIOUS
  <2>3. reset.name = old.name /\ reset.document = old.document
    BY <2>2 DEF Task
  <2>4. reset \in Task
    BY <2>2 DEF Task, OnboardingTaskStatus
  <2> QED BY <2>1, <2>2, <2>3, <2>4
<1>6. PICK new : new = [i \in DOMAIN read |-> task(i)]
  OBVIOUS
<1>7. onboardingCalls' = Begin(onboardingCalls, a,
        [at |-> "fields.save", checklist |-> o, version |-> checklists[o].version,
         read |-> checklists[o].tasks, tasks |-> new, completed |-> TRUE, cancels |-> TRUE])
  BY <1>2, <1>4, <1>6
<1> HIDE DEF task
<1>8. /\ new \in Seq(Task) /\ DOMAIN new = DOMAIN read
      /\ \A i \in DOMAIN read : new[i].name = read[i].name /\ new[i].document = read[i].document
  BY <1>5, <1>6
<1> QED BY <1>1, <1>3, <1>4, <1>7, <1>8, SaveBegins
-----------------------------------------------------------------------------
(* Steps that write.                                                       *)

LEMMA ListStays ==
    ASSUME OnboardingInv, NEW o \in Checklist, HistoryGrows, checklists'[o] = checklists[o]
    PROVE  ListSound(o)' /\ (checklists[o] # NULL => ListMoves(o))
<1>1. ListSound(o)'
  BY DEF OnboardingInv, ListSound, HistoryGrows
<1>2. ASSUME checklists[o] # NULL PROVE ListMoves(o)
  <2>1. checklists[o].version \in Nat
    BY <1>2, ChecklistOf
  <2>2. GoesOn(checklists[o].tasks, checklists[o].tasks)
    BY DEF GoesOn
  <2> QED BY <1>2, <2>1, <2>2 DEF ListMoves
<1> QED BY <1>1, <1>2

\* The last write of a handler, to list o.
LEMMA ListBecomes ==
    ASSUME OnboardingInv, NEW a \in Agent, NEW o \in Checklist, NEW new \in ChecklistDoc,
           checklists' = [checklists EXCEPT ![o] = new], HistoryGrows,
           ListSound(o)', checklists[o] # NULL => ListMoves(o),
           onboardingCalls' = Finish(onboardingCalls, a),
           overwritten' \subseteq Checklist, cancelled' \subseteq Checklist,
           done' \in [Checklist -> SUBSET (TaskName \cup {NULL})],
           late' \in [Checklist -> SUBSET (TaskName \cup {NULL})],
           onboardingOps' \in 0..MaxOnboardingOps
    PROVE  OnboardingInv'
<1>1. checklists \in [Checklist -> ChecklistDoc \cup {NULL}]
  BY DEF OnboardingInv, OnboardingTypeOK
<1>2. /\ checklists' \in [Checklist -> ChecklistDoc \cup {NULL}]
      /\ \A p \in Checklist : checklists'[p] = IF p = o THEN new ELSE checklists[p]
  BY <1>1
<1>3. new # NULL
  BY OnboardingAssumption
<1>4. \A p \in Checklist : ListSound(p)' /\ (checklists[p] # NULL => ListMoves(p))
  BY <1>2, ListStays
<1>5. OnboardingMoves
  BY <1>1, <1>2, <1>3, <1>4 DEF OnboardingMoves
<1>6. PICK none : none = NULL
  OBVIOUS
<1>7. NextCall(a, none)
  BY <1>6 DEF Finish, NextCall
<1>8. /\ onboardingCalls' \in [Agent -> OnboardingCall \cup {NULL}]
      /\ \A b \in Agent : onboardingCalls'[b] # NULL => OnboardingCallSound(onboardingCalls[b])'
  BY <1>5, <1>6, <1>7, OnboardingCallsAfter
<1>9. OnboardingTypeOK'
  BY <1>2, <1>8 DEF OnboardingTypeOK
<1> QED BY <1>4, <1>8, <1>9 DEF OnboardingInv

\* The history of a list that has become tasks.
LEMMA DoneIsNoted ==
    ASSUME OnboardingInv, NEW o \in Checklist, NEW tasks \in Seq(Task), checklists'[o].tasks = tasks,
           NoteDone(o)
    PROVE  /\ done' \in [Checklist -> SUBSET (TaskName \cup {NULL})]
           /\ \A p \in Checklist : done[p] \subseteq done'[p]
           /\ done'[o] = done[o] \cup CompletedIn(tasks)
<1>1. done \in [Checklist -> SUBSET (TaskName \cup {NULL})]
  BY DEF OnboardingInv, OnboardingTypeOK
<1>2. PICK names \in SUBSET (TaskName \cup {NULL}) : names = CompletedIn(tasks)
  BY NamesTyped
<1>3. done' = [done EXCEPT ![o] = @ \cup names]
  BY <1>2 DEF NoteDone, CompletedIn
<1> QED BY <1>1, <1>2, <1>3

\* The history of the tasks that nothing waits for.
LEMMA LateGrows ==
    ASSUME OnboardingInv, NEW o \in Checklist, NEW names \in SUBSET (TaskName \cup {NULL}),
           NEW waits \in BOOLEAN,
           late' = IF waits THEN [late EXCEPT ![o] = @ \cup names] ELSE late
    PROVE  /\ late' \in [Checklist -> SUBSET (TaskName \cup {NULL})]
           /\ \A p \in Checklist : late[p] \subseteq late'[p]
           /\ waits => names \subseteq late'[o]
<1>1. late \in [Checklist -> SUBSET (TaskName \cup {NULL})]
  BY DEF OnboardingInv, OnboardingTypeOK
<1> QED BY <1>1

LEMMA AllCompletedNames ==
    ASSUME NEW tasks, AllCompleted(tasks)
    PROVE  Names(tasks) \subseteq CompletedIn(tasks)
BY DEF AllCompleted, Names, CompletedIn

LEMMA CreateChecklistStep ==
    ASSUME OnboardingInv, NEW a \in Agent, NEW o \in Checklist, CreateChecklist(a, o),
           onboardingOps' \in 0..MaxOnboardingOps
    PROVE  OnboardingInv'
<1>1. PICK call \in OnboardingCall :
        /\ call = onboardingCalls[a] /\ call.at = "checklist.create" /\ OnboardingCallSound(call)
  BY OnboardingCallOf DEF CreateChecklist, At
<1>2. call.of \in Newcomer /\ call.tasks \in Seq(Task) /\ AreNew(call.tasks)
  BY <1>1, OnboardingCallFields DEF OnboardingCallSound
<1>3. PICK new : new = [of |-> call.of, tasks |-> call.tasks, completed |-> FALSE, version |-> 0]
  OBVIOUS
<1>4. new \in ChecklistDoc /\ new.tasks = call.tasks /\ ~ new.completed
  BY <1>2, <1>3 DEF ChecklistDoc
<1>5. /\ checklists[o] = NULL /\ checklists' = [checklists EXCEPT ![o] = new]
      /\ onboardingCalls' = Finish(onboardingCalls, a)
      /\ UNCHANGED <<overwritten, cancelled, done, late>>
  BY <1>1, <1>3 DEF CreateChecklist
<1>6. checklists'[o] = new
  BY <1>5 DEF OnboardingInv, OnboardingTypeOK
<1>7. CompletedIn(new.tasks) = {}
  BY <1>2, <1>4 DEF AreNew, CompletedIn
<1>8. TasksFit(new.tasks)
  BY <1>2, <1>4, OnboardingAssumption DEF AreNew, TasksFit
<1>9. ListSound(o)'
  BY <1>4, <1>6, <1>7, <1>8 DEF ListSound
<1>10. /\ HistoryGrows /\ overwritten' \subseteq Checklist /\ cancelled' \subseteq Checklist
       /\ done' \in [Checklist -> SUBSET (TaskName \cup {NULL})]
       /\ late' \in [Checklist -> SUBSET (TaskName \cup {NULL})]
  BY <1>5 DEF HistoryGrows, OnboardingInv, OnboardingTypeOK
<1> QED BY <1>4, <1>5, <1>9, <1>10, ListBecomes

LEMMA ReplaceTasksStep ==
    ASSUME OnboardingInv, NEW a \in Agent, ReplaceTasks(a), onboardingOps' \in 0..MaxOnboardingOps
    PROVE  OnboardingInv'
<1>1. PICK call \in OnboardingCall :
        /\ call = onboardingCalls[a] /\ call.at = "tasks.replace" /\ OnboardingCallSound(call)
  BY OnboardingCallOf DEF ReplaceTasks, At
<1>2. PICK o \in Checklist, tasks \in Seq(Task), read \in Seq(Task) :
        /\ o = call.checklist /\ tasks = call.tasks /\ read = call.read /\ checklists[o] # NULL
        /\ GoesOn(read, tasks) /\ (call.completed => AllCompleted(tasks))
        /\ o \notin overwritten => TasksFit(tasks)
  BY <1>1, OnboardingCallFields DEF OnboardingCallSound, ReplacementSound
<1>3. PICK old \in ChecklistDoc : old = checklists[o]
  BY <1>2, ChecklistOf
<1>4. PICK completed \in BOOLEAN : completed = (old.completed \/ call.completed)
  BY <1>1, OnboardingCallFields DEF ChecklistDoc
<1>5. PICK new : new = [old EXCEPT !.tasks = tasks, !.completed = completed]
  OBVIOUS
<1>6. /\ new \in ChecklistDoc /\ new.tasks = tasks /\ (new.completed <=> completed)
      /\ new.version = old.version
  BY <1>5 DEF ChecklistDoc
<1>7. checklists \in [Checklist -> ChecklistDoc \cup {NULL}]
  BY DEF OnboardingInv, OnboardingTypeOK
<1>8. checklists' = [checklists EXCEPT ![o] = new]
  <2>1. checklists' = [checklists EXCEPT ![o].tasks = tasks, ![o].completed = @ \/ call.completed]
    BY <1>1, <1>2 DEF ReplaceTasks
  <2>2. new = [old EXCEPT !.tasks = tasks, !.completed = old.completed \/ call.completed]
    BY <1>4, <1>5
  <2>3. new = [old EXCEPT !.tasks = tasks, !.completed = @ \/ call.completed]
    BY <2>2
  <2> QED BY <1>3, <1>7, <2>1, <2>3
<1>9. checklists'[o] = new
  BY <1>7, <1>8
<1>10. PICK added \in SUBSET (TaskName \cup {NULL}) :
         added = {tasks[i].name : i \in (DOMAIN tasks) \ DOMAIN read}
  BY TaskFields
<1>11. Names(tasks) \subseteq Names(read) \cup added
  BY <1>2, <1>10 DEF GoesOn, Names
<1>12. PICK waits \in BOOLEAN : waits = (old.completed \/ SavingFields(o) # {})
  OBVIOUS
<1>13. /\ late' \in [Checklist -> SUBSET (TaskName \cup {NULL})]
       /\ \A p \in Checklist : late[p] \subseteq late'[p]
       /\ waits => added \subseteq late'[o]
  <2>1. late' = IF waits THEN [late EXCEPT ![o] = @ \cup added] ELSE late
    BY <1>1, <1>2, <1>3, <1>10, <1>12 DEF ReplaceTasks
  <2> QED BY <2>1, LateGrows
<1>14. /\ done' \in [Checklist -> SUBSET (TaskName \cup {NULL})]
       /\ \A p \in Checklist : done[p] \subseteq done'[p]
       /\ done'[o] = done[o] \cup CompletedIn(tasks)
  <2>1. NoteDone(o)
    BY <1>1, <1>2 DEF ReplaceTasks
  <2> QED BY <1>6, <1>9, <2>1, DoneIsNoted
<1>15. /\ overwritten \subseteq overwritten' /\ overwritten' \subseteq Checklist
       /\ o \notin overwritten' => read = old.tasks
  <2>1. overwritten' = IF read = old.tasks THEN overwritten ELSE overwritten \cup {o}
    BY <1>1, <1>2, <1>3 DEF ReplaceTasks
  <2> QED BY <2>1 DEF OnboardingInv, OnboardingTypeOK
<1>16. cancelled' = cancelled /\ cancelled \subseteq Checklist
  BY DEF ReplaceTasks, OnboardingInv, OnboardingTypeOK
<1>17. HistoryGrows
  BY <1>13, <1>14, <1>15, <1>16 DEF HistoryGrows
<1>18. ASSUME completed, o \notin cancelled', o \notin overwritten'
       PROVE  Names(tasks) \subseteq done'[o] \cup late'[o]
  <2>1. CASE old.completed
    <3>1. Names(old.tasks) \subseteq done[o] \cup late[o]
      BY <1>2, <1>3, <1>15, <1>16, <1>18, <2>1 DEF OnboardingInv, ListSound
    <3> QED BY <1>11, <1>12, <1>13, <1>14, <1>15, <1>18, <2>1, <3>1
  <2>2. CASE call.completed
    BY <1>2, <1>14, <2>2, AllCompletedNames
  <2> QED BY <1>4, <1>18, <2>1, <2>2
<1>19. ListSound(o)'
  BY <1>2, <1>6, <1>9, <1>14, <1>15, <1>18 DEF ListSound
<1>20. ListMoves(o)
  <2>1. old.version \in Nat /\ new # NULL
    BY <1>6, OnboardingAssumption DEF ChecklistDoc
  <2>2. o \notin overwritten' => GoesOn(old.tasks, tasks)
    BY <1>2, <1>15
  <2>3. SavingFields(o) # {} /\ o \notin overwritten' =>
          Names(tasks) \subseteq Names(old.tasks) \cup late'[o]
    BY <1>11, <1>12, <1>13, <1>15
  <2> QED BY <1>3, <1>6, <1>9, <2>1, <2>2, <2>3 DEF ListMoves
<1>21. onboardingCalls' = Finish(onboardingCalls, a) /\ cancelled' \subseteq Checklist
  BY <1>16 DEF ReplaceTasks
<1> QED BY <1>6, <1>8, <1>13, <1>14, <1>15, <1>17, <1>19, <1>20, <1>21, ListBecomes

LEMMA PushTasksStep ==
    ASSUME OnboardingInv, NEW a \in Agent, PushTasks(a), onboardingOps' \in 0..MaxOnboardingOps
    PROVE  OnboardingInv'
<1>1. PICK call \in OnboardingCall :
        /\ call = onboardingCalls[a] /\ call.at = "tasks.push" /\ OnboardingCallSound(call)
  BY OnboardingCallOf DEF PushTasks, At
<1>2. PICK o \in Checklist, added \in Seq(Task) :
        o = call.checklist /\ added = call.tasks /\ checklists[o] # NULL /\ AreNew(added)
  BY <1>1, OnboardingCallFields DEF OnboardingCallSound
<1>3. PICK old \in ChecklistDoc : old = checklists[o]
  BY <1>2, ChecklistOf
<1>4. old.tasks \in Seq(Task) /\ old.version \in Nat
  BY DEF ChecklistDoc
<1>5. PICK tasks : tasks = old.tasks \o added
  OBVIOUS
<1>6. /\ tasks \in Seq(Task) /\ GoesOn(old.tasks, tasks)
      /\ Names(tasks) = Names(old.tasks) \cup Names(added)
      /\ CompletedIn(tasks) = CompletedIn(old.tasks)
      /\ TasksFit(old.tasks) => TasksFit(tasks)
  BY <1>2, <1>4, <1>5, NewBehind
<1>7. PICK version \in Nat : version = old.version + 1
  BY <1>4
<1>8. PICK new : new = [old EXCEPT !.tasks = tasks, !.version = version]
  OBVIOUS
<1>9. /\ new \in ChecklistDoc /\ new.tasks = tasks /\ new.completed = old.completed
      /\ new.version = version
  BY <1>6, <1>8 DEF ChecklistDoc
<1>10. checklists \in [Checklist -> ChecklistDoc \cup {NULL}]
  BY DEF OnboardingInv, OnboardingTypeOK
<1>11. checklists' = [checklists EXCEPT ![o] = new]
  <2>1. checklists' = [checklists EXCEPT ![o].tasks = @ \o added, ![o].version = @ + 1]
    BY <1>1, <1>2 DEF PushTasks
  <2>2. new = [old EXCEPT !.tasks = old.tasks \o added, !.version = old.version + 1]
    BY <1>5, <1>7, <1>8
  <2>3. new = [old EXCEPT !.tasks = @ \o added, !.version = @ + 1]
    BY <2>2
  <2> QED BY <1>3, <1>10, <2>1, <2>3
<1>12. checklists'[o] = new
  BY <1>10, <1>11
<1>13. PICK waits \in BOOLEAN :
         waits = (\/ old.completed
                  \/ \E b \in SavingFields(o) : ChangedPlaces(onboardingCalls[b]) = {})
  OBVIOUS
<1>14. /\ late' \in [Checklist -> SUBSET (TaskName \cup {NULL})]
       /\ \A p \in Checklist : late[p] \subseteq late'[p]
       /\ waits => Names(added) \subseteq late'[o]
  <2>1. late' = IF waits THEN [late EXCEPT ![o] = @ \cup Names(added)] ELSE late
    BY <1>1, <1>2, <1>3, <1>13 DEF PushTasks
  <2> QED BY <2>1, NamesTyped, LateGrows
<1>15. /\ UNCHANGED <<overwritten, cancelled, done>> /\ onboardingCalls' = Finish(onboardingCalls, a)
       /\ overwritten' \subseteq Checklist /\ cancelled' \subseteq Checklist
       /\ done' \in [Checklist -> SUBSET (TaskName \cup {NULL})]
  BY DEF PushTasks, OnboardingInv, OnboardingTypeOK
<1>16. HistoryGrows
  BY <1>14, <1>15 DEF HistoryGrows
<1>17. ListSound(o)
  BY DEF OnboardingInv
<1>18. ASSUME new.completed, o \notin cancelled' \cup overwritten'
       PROVE  Names(tasks) \subseteq done'[o] \cup late'[o]
  <2>1. old.completed /\ waits
    BY <1>9, <1>13, <1>18
  <2>2. Names(old.tasks) \subseteq done[o] \cup late[o]
    BY <1>2, <1>3, <1>15, <1>17, <1>18, <2>1 DEF ListSound
  <2> QED BY <1>6, <1>14, <1>15, <2>1, <2>2
<1>19. ListSound(o)'
  BY <1>2, <1>3, <1>6, <1>9, <1>12, <1>15, <1>17, <1>18 DEF ListSound
<1>20. ListMoves(o)
  <2>1. old.version < version /\ old.version <= version /\ new # NULL
    BY <1>4, <1>7, <1>9, OnboardingAssumption
  <2>2. \/ Names(tasks) \subseteq Names(old.tasks) \cup late'[o]
        \/ \A b \in SavingFields(o) : ChangedPlaces(onboardingCalls[b]) # {}
    BY <1>6, <1>13, <1>14
  <2> QED BY <1>3, <1>6, <1>9, <1>12, <2>1, <2>2 DEF ListMoves
<1> QED BY <1>9, <1>11, <1>14, <1>15, <1>16, <1>19, <1>20, ListBecomes

\* The list after a save that is accepted.
LEMMA SavedListSound ==
    ASSUME OnboardingInv, NEW call \in OnboardingCall, call.at = "fields.save",
           OnboardingCallSound(call), SaveIsAccepted(call),
           NEW o \in Checklist, o = call.checklist, o \notin overwritten,
           NEW old \in ChecklistDoc, old = checklists[o],
           NEW tasks \in Seq(Task), tasks = SavedPlaces(old.tasks, call)
    PROVE  /\ GoesOn(old.tasks, tasks) /\ Names(tasks) = Names(old.tasks)
           /\ TasksFit(tasks)
           /\ call.completed /\ ~ call.cancels =>
                Names(tasks) \subseteq done[o] \cup CompletedIn(tasks) \cup late[o]
<1>1. checklists[o] # NULL /\ ChangesSound(call) /\ ReadIsThere(call)
  BY DEF OnboardingCallSound
<1>2. PICK current \in Seq(Task), read \in Seq(Task), made \in Seq(Task) :
        current = old.tasks /\ read = call.read /\ made = call.tasks
  BY OnboardingCallFields DEF ChecklistDoc
<1>3. /\ GoesOn(read, made) /\ DOMAIN made = DOMAIN read /\ GoesOn(read, current)
      /\ CompletedIn(read) \subseteq done[o]
  BY <1>1, <1>2 DEF ChangesSound, ReadIsThere
<1>4. PICK changed : changed = ChangedPlaces(call) /\ changed = {i \in DOMAIN made : made[i] # read[i]}
  BY <1>2 DEF ChangedPlaces
<1>5. /\ DOMAIN tasks = DOMAIN current
      /\ \A i \in DOMAIN current :
           /\ tasks[i].name = current[i].name
           /\ i \in changed =>
                /\ tasks[i].status = IF made[i].status = read[i].status
                                     THEN current[i].status ELSE made[i].status
                /\ tasks[i].document = IF made[i].document = read[i].document
                                       THEN current[i].document ELSE made[i].document
           /\ i \notin changed => tasks[i] = current[i]
  <2>1. tasks = SavedPlaces(current, call)
    BY <1>2
  <2>2. GoesOn(call.read, call.tasks) /\ DOMAIN call.tasks = DOMAIN call.read
        /\ GoesOn(call.read, current)
    BY <1>2, <1>3
  <2>3. /\ DOMAIN tasks = DOMAIN current
        /\ \A i \in DOMAIN current :
             /\ tasks[i].name = current[i].name
             /\ i \in ChangedPlaces(call) =>
                  /\ tasks[i].status =
                       IF call.tasks[i].status = call.read[i].status
                       THEN current[i].status ELSE call.tasks[i].status
                  /\ tasks[i].document =
                       IF call.tasks[i].document = call.read[i].document
                       THEN current[i].document ELSE call.tasks[i].document
             /\ i \notin ChangedPlaces(call) => tasks[i] = current[i]
    BY <2>1, <2>2, SavedPlacesAre
  <2> QED BY <1>2, <1>4, <2>3
<1>6. GoesOn(old.tasks, tasks) /\ Names(tasks) = Names(old.tasks)
  <2>1. GoesOn(current, tasks)
    BY <1>5 DEF GoesOn
  <2>2. Names(tasks) = Names(current)
    <3>1. DOMAIN tasks = DOMAIN current /\ \A i \in DOMAIN current : tasks[i].name = current[i].name
      BY <1>5
    <3>2. ASSUME NEW x PROVE x \in Names(tasks) <=> x \in Names(current)
      BY <3>1 DEF Names
    <3> QED BY <3>2
  <2> QED BY <1>2, <2>1, <2>2
<1>7. TasksFit(tasks)
  <2>1. TasksFit(current)
    BY <1>1, <1>2 DEF OnboardingInv, ListSound
  <2>2. ASSUME NEW i \in changed, i \in DOMAIN current, made[i].document # read[i].document
        PROVE  /\ made[i].document \in DocumentType
               /\ current[i].name \in Fits[made[i].document]
    BY <1>1, <1>2, <1>3, <1>4, <2>2 DEF ChangesSound, GoesOn
  <2> QED BY <1>5, <2>1, <2>2 DEF TasksFit
<1>8. ASSUME call.completed, ~ call.cancels
      PROVE  Names(tasks) \subseteq done[o] \cup CompletedIn(tasks) \cup late[o]
  <2>1. AllCompleted(made)
    BY <1>1, <1>2, <1>8 DEF ChangesSound
  <2>2. Names(current) \subseteq Names(read) \cup late[o]
    BY <1>1, <1>2 DEF ReadIsThere, SaveIsAccepted
  <2>3. ASSUME NEW i \in DOMAIN read PROVE read[i].name \in done[o] \cup CompletedIn(tasks)
    <3>1. CASE read[i].status = "completed"
      BY <1>3, <2>3, <3>1 DEF CompletedIn
    <3>2. CASE read[i].status # "completed"
      <4>1. made[i].status = "completed" /\ i \in changed
        BY <1>3, <1>4, <2>1, <3>2 DEF AllCompleted
      <4>2. i \in DOMAIN current /\ current[i].name = read[i].name
        BY <1>3 DEF GoesOn
      <4>3. i \in DOMAIN tasks /\ tasks[i].name = read[i].name /\ tasks[i].status = "completed"
        BY <1>5, <3>2, <4>1, <4>2
      <4> QED BY <4>3 DEF CompletedIn
    <3> QED BY <3>1, <3>2
  <2>4. Names(read) \subseteq done[o] \cup CompletedIn(tasks)
    BY <2>3 DEF Names
  <2> QED BY <1>2, <1>6, <2>2, <2>4
<1> QED BY <1>6, <1>7, <1>8

LEMMA SaveFieldsStep ==
    ASSUME OnboardingInv, NEW a \in Agent, SaveFields(a), onboardingOps' \in 0..MaxOnboardingOps
    PROVE  OnboardingInv'
<1>1. PICK call \in OnboardingCall :
        /\ call = onboardingCalls[a] /\ call.at = "fields.save" /\ OnboardingCallSound(call)
  BY OnboardingCallOf DEF SaveFields, At
<1>2. PICK o \in Checklist :
        /\ o = call.checklist /\ checklists[o] # NULL
        /\ GoesOn(call.read, call.tasks) /\ DOMAIN call.tasks = DOMAIN call.read
  BY <1>1, OnboardingCallFields DEF OnboardingCallSound, ChangesSound
<1>3. onboardingCalls' = Finish(onboardingCalls, a) /\ UNCHANGED <<overwritten, late>>
  BY DEF SaveFields
<1>4. CASE ~ SaveIsAccepted(call)
  <2>1. UNCHANGED <<checklists, overwritten, cancelled, done, late>>
    BY <1>1, <1>3, <1>4 DEF SaveFields
  <2> QED BY <1>3, <2>1, OnboardingEnds
<1>5. CASE SaveIsAccepted(call)
  <2>1. PICK old \in ChecklistDoc : old = checklists[o]
    BY <1>2, ChecklistOf
  <2>2. PICK tasks : tasks = SavedPlaces(old.tasks, call)
    OBVIOUS
  <2>3. old.tasks \in Seq(Task) /\ old.version \in Nat
    BY DEF ChecklistDoc
  <2>4. tasks \in Seq(Task)
    BY <1>1, <1>2, <2>2, <2>3, SavedPlacesAre
  <2>5. PICK completed \in BOOLEAN : completed = (old.completed \/ call.completed)
    BY <1>1, OnboardingCallFields DEF ChecklistDoc
  <2>6. PICK new : new = [old EXCEPT !.tasks = tasks, !.completed = completed]
    OBVIOUS
  <2>7. /\ new \in ChecklistDoc /\ new.tasks = tasks /\ (new.completed <=> completed)
        /\ new.version = old.version
    BY <2>4, <2>6 DEF ChecklistDoc
  <2>8. checklists \in [Checklist -> ChecklistDoc \cup {NULL}]
    BY DEF OnboardingInv, OnboardingTypeOK
  <2>9. checklists' = [checklists EXCEPT ![o] = new]
    <3>1. checklists' = [checklists EXCEPT ![o].tasks = SavedPlaces(@, call),
                                           ![o].completed = @ \/ call.completed]
      BY <1>1, <1>2, <1>5 DEF SaveFields
    <3>2. new = [old EXCEPT !.tasks = SavedPlaces(old.tasks, call),
                            !.completed = old.completed \/ call.completed]
      BY <2>2, <2>5, <2>6
    <3>3. new = [old EXCEPT !.tasks = SavedPlaces(@, call), !.completed = @ \/ call.completed]
      BY <3>2
    <3> QED BY <2>1, <2>8, <3>1, <3>3
  <2>10. checklists'[o] = new
    BY <2>8, <2>9
  <2>11. /\ done' \in [Checklist -> SUBSET (TaskName \cup {NULL})]
         /\ \A p \in Checklist : done[p] \subseteq done'[p]
         /\ done'[o] = done[o] \cup CompletedIn(tasks)
    <3>1. NoteDone(o)
      BY <1>1, <1>2, <1>5 DEF SaveFields
    <3> QED BY <2>4, <2>7, <2>10, <3>1, DoneIsNoted
  <2>12. cancelled' = IF call.cancels THEN cancelled \cup {o} ELSE cancelled
    BY <1>1, <1>2, <1>5 DEF SaveFields
  <2>13. /\ overwritten' \subseteq Checklist /\ cancelled' \subseteq Checklist
         /\ late' \in [Checklist -> SUBSET (TaskName \cup {NULL})]
    BY <1>3, <2>12 DEF OnboardingInv, OnboardingTypeOK
  <2>14. HistoryGrows
    BY <1>3, <2>11, <2>12 DEF HistoryGrows
  <2>15. o \notin overwritten =>
           /\ GoesOn(old.tasks, tasks) /\ Names(tasks) = Names(old.tasks)
           /\ TasksFit(tasks)
           /\ call.completed /\ ~ call.cancels =>
                Names(tasks) \subseteq done[o] \cup CompletedIn(tasks) \cup late[o]
    BY <1>1, <1>2, <1>5, <2>1, <2>2, <2>4, SavedListSound
  <2>16. ASSUME completed, o \notin cancelled' \cup overwritten'
         PROVE  Names(tasks) \subseteq done'[o] \cup late'[o]
    <3>1. o \notin overwritten /\ o \notin cancelled /\ ~ call.cancels
      BY <1>3, <2>12, <2>16
    <3>2. CASE old.completed
      <4>1. Names(old.tasks) \subseteq done[o] \cup late[o]
        BY <1>2, <2>1, <3>1, <3>2 DEF OnboardingInv, ListSound
      <4> QED BY <1>3, <2>11, <2>15, <3>1, <4>1
    <3>3. CASE call.completed
      BY <1>3, <2>11, <2>15, <3>1, <3>3
    <3> QED BY <2>5, <2>16, <3>2, <3>3
  <2>17. ListSound(o)'
    <3>1. CompletedIn(tasks) \subseteq done'[o]
      BY <2>11
    <3>2. o \notin overwritten' => TasksFit(tasks)
      BY <1>3, <2>15
    <3> QED BY <2>7, <2>10, <2>16, <3>1, <3>2 DEF ListSound
  <2>18. ListMoves(o)
    <3>1. new # NULL /\ old.version <= new.version
      BY <2>3, <2>7, OnboardingAssumption
    <3> QED BY <1>3, <2>1, <2>7, <2>10, <2>15, <3>1 DEF ListMoves
  <2> QED BY <1>3, <2>7, <2>9, <2>11, <2>13, <2>14, <2>17, <2>18, ListBecomes
<1> QED BY <1>4, <1>5

LEMMA OnboardingCallFailsStep ==
    ASSUME OnboardingInv, NEW a \in Agent, OnboardingCallFails(a),
           onboardingOps' \in 0..MaxOnboardingOps
    PROVE  OnboardingInv'
BY OnboardingEnds DEF OnboardingCallFails

-----------------------------------------------------------------------------
(* The theorems.                                                           *)

LEMMA OnboardingStepStep ==
    ASSUME OnboardingInv, NEW a \in Agent, OnboardingStep(a), onboardingOps' \in 0..MaxOnboardingOps
    PROVE  OnboardingInv'
BY CreateChecklistStep, ReplaceTasksStep, PushTasksStep, SaveFieldsStep, OnboardingCallFailsStep
   DEF OnboardingStep

LEMMA RequestOnboardingStep ==
    ASSUME OnboardingInv, NEW a \in Agent, NEW n \in Newcomer, RequestOnboarding(a, n),
           onboardingOps' \in 0..MaxOnboardingOps
    PROVE  OnboardingInv'
<1>1. ASSUME NEW name \in TaskName PROVE <<name>> \in Seq(TaskName)
  OBVIOUS
<1>2. ASSUME NEW name \in TaskName, CreateOnboardingChecklist(a, n, <<name>>) PROVE OnboardingInv'
  <2>1. PICK names \in Seq(TaskName) : names = <<name>>
    BY <1>1
  <2>2. CreateOnboardingChecklist(a, n, names)
    BY <1>2, <2>1
  <2> QED BY <2>2, CreateOnboardingChecklistStep
<1>3. ASSUME NEW name \in TaskName, CreateOnboardingWithDefaults(a, n, <<name>>) PROVE OnboardingInv'
  <2>1. PICK names \in Seq(TaskName) : names = <<name>>
    BY <1>1
  <2>2. CreateOnboardingWithDefaults(a, n, names)
    BY <1>3, <2>1
  <2> QED BY <2>2, CreateOnboardingWithDefaultsStep
<1> QED BY <1>2, <1>3, UpdateTaskStatusStep, UploadComplianceDocumentsStep, CancelOnboardingStep
        DEF RequestOnboarding

LEMMA OnboardingSteps == ASSUME OnboardingInv, [OnboardingNext]_onboardingVars PROVE OnboardingInv'
<1>1. CASE UNCHANGED onboardingVars
  <2>1. /\ UNCHANGED <<checklists, overwritten, cancelled, done, late>>
        /\ onboardingCalls' = onboardingCalls /\ onboardingOps' = onboardingOps
    BY <1>1 DEF onboardingVars
  <2>2. OnboardingTypeOK'
    BY <2>1 DEF OnboardingInv, OnboardingTypeOK
  <2>3. \A o \in Checklist : ListSound(o)'
    BY <2>1 DEF OnboardingInv, ListSound
  <2>4. \A a \in Agent : onboardingCalls'[a] # NULL => OnboardingCallSound(onboardingCalls[a])'
    BY <2>1 DEF OnboardingInv, OnboardingCallSound, ReadIsThere
  <2> QED BY <2>2, <2>3, <2>4 DEF OnboardingInv
<1>2. CASE /\ onboardingOps < MaxOnboardingOps /\ onboardingOps' = onboardingOps + 1
           /\ \E a \in Agent, n \in Newcomer : RequestOnboarding(a, n)
  <2>1. onboardingOps' \in 0..MaxOnboardingOps
    BY <1>2, OnboardingAssumption DEF OnboardingInv, OnboardingTypeOK
  <2> QED BY <1>2, <2>1, RequestOnboardingStep
<1>3. CASE onboardingOps' = onboardingOps /\ \E a \in Agent : OnboardingStep(a)
  <2>1. onboardingOps' \in 0..MaxOnboardingOps
    BY <1>3 DEF OnboardingInv, OnboardingTypeOK
  <2> QED BY <1>3, <2>1, OnboardingStepStep
<1> QED BY <1>1, <1>2, <1>3 DEF OnboardingNext

\* What the handlers read stays in the lists, and every list is sound.
THEOREM OnboardingInvariant == OnboardingSpec => []OnboardingInv
BY OnboardingInitially, OnboardingSteps, PTL DEF OnboardingSpec

\* Every checklist, call in flight and history has its type.
THEOREM OnboardingTypeCorrect == OnboardingSpec => []OnboardingTypeOK
<1>1. OnboardingInv => OnboardingTypeOK
  BY DEF OnboardingInv
<1> QED BY <1>1, OnboardingInvariant, PTL

\* A complete list has no task that was never completed, but for the late ones.
THEOREM CompletionWasEarned == OnboardingSpec => []CompletedWasDone
<1>1. OnboardingInv => CompletedWasDone
  BY DEF OnboardingInv, ListSound, CompletedWasDone
<1> QED BY <1>1, OnboardingInvariant, PTL

\* Documents are linked to tasks that ask for them.
THEOREM LinkedDocumentsFit == OnboardingSpec => []DocumentsFit
<1>1. OnboardingInv => DocumentsFit
  BY DEF OnboardingInv, ListSound, TasksFit, DocumentsFit
<1> QED BY <1>1, OnboardingInvariant, PTL

=============================================================================
