------------------------ MODULE OnboardingChecklist -------------------------
(***************************************************************************)
(* The onboarding checklist of a new employee: tasks are added, their      *)
(* status is updated, uploaded documents complete them, and HR may cancel. *)
(*                                                                         *)
(* Three kinds of write meet here.  updateById replaces the whole list     *)
(* that was read.  document.save() sends a $push for tasks that were       *)
(* added, which counts up the version of the document, and otherwise only  *)
(* the fields of the tasks that changed, by their places in the list, if   *)
(* the version is still the one that was read.                             *)
(*                                                                         *)
(* Deadlines, departments and the contract are left out, and of the notes  *)
(* all but a cancellation.  A gap in a list is a null that MongoDB puts    *)
(* where a save reaches beyond the end: a loop over the tasks throws at    *)
(* it.  No list is empty, and none that tasks are added to gets longer     *)
(* than TaskLimit.                                                         *)
(* overwritten, cancelled, done and late are history; onboardingOps bounds *)
(* the exploration.                                                        *)
(***************************************************************************)
EXTENDS Integers, Sequences, FiniteSets, Handlers

CONSTANTS
    Newcomer,        \* employees
    Checklist,       \* identifiers of checklists
    TaskName,        \* the names of tasks
    DocumentType,    \* the types of documents
    Fits,            \* the tasks that a document of a type completes
    TaskLimit,       \* bound on the tasks of a list
    MaxOnboardingOps \* bound on the requests that are handled

VARIABLES
    checklists,      \* the checklist with an identifier, or NULL
    onboardingCalls, \* the handlers in flight
    overwritten,     \* history: lists replaced by one that was read before a change
    cancelled,       \* history: checklists that were cancelled
    done,            \* history: the tasks of a list that have been COMPLETED
    late,            \* history: tasks added where nothing waits for them
    onboardingOps    \* the requests that were handled or are in flight

onboardingVars == <<checklists, onboardingCalls, overwritten, cancelled, done, late, onboardingOps>>

OnboardingTaskStatus == {"pending", "in_progress", "completed"}

\* A document that a client names has no type that is known.
Task ==
    [name : TaskName \cup {NULL}, status : OnboardingTaskStatus \cup {"gap"},
     document : DocumentType \cup {"given", NULL}, noted : BOOLEAN]

ChecklistDoc ==
    [of : Newcomer, tasks : Seq(Task), completed : BOOLEAN, version : Nat]

OnboardingCall ==
    [at : {"checklist.create"}, of : Newcomer, tasks : Seq(Task)]
      \cup
    [at : {"tasks.replace"}, checklist : Checklist, read : Seq(Task), tasks : Seq(Task),
     completed : BOOLEAN]
      \cup
    [at : {"tasks.push"}, checklist : Checklist, tasks : Seq(Task)]
      \cup
    [at : {"fields.save"}, checklist : Checklist, version : Nat, read : Seq(Task),
     tasks : Seq(Task), completed : BOOLEAN, cancels : BOOLEAN]

ASSUME OnboardingAssumption ==
    /\ Fits \in [DocumentType -> SUBSET TaskName]
    /\ TaskLimit \in Nat \ {0}
    /\ MaxOnboardingOps \in Nat
    /\ NULL \notin ChecklistDoc \cup OnboardingCall \cup TaskName \cup DocumentType
    /\ "given" \notin DocumentType

\* findByEmployeeId returns any of them.
ChecklistsOf(n) == {o \in Checklist : checklists[o] # NULL /\ checklists[o].of = n}

Pending(names) ==
    [i \in DOMAIN names |->
       [name |-> names[i], status |-> "pending", document |-> NULL, noted |-> FALSE]]

\* Mutant: a list is complete when none of its tasks waits to be started.
AllStarted(tasks) == \A i \in DOMAIN tasks : tasks[i].status # "pending"

AllCompleted(tasks) == \A i \in DOMAIN tasks : tasks[i].status = "completed"

Names(tasks) == {tasks[i].name : i \in DOMAIN tasks}

First(places) == CHOOSE i \in places : \A j \in places : i <= j

Gap == [name |-> NULL, status |-> "gap", document |-> NULL, noted |-> FALSE]

Gaps(tasks) == {i \in DOMAIN tasks : tasks[i].status = "gap"}

\* every() goes as far as the first task that is not completed.
EveryThrows(tasks) ==
    LET open == {i \in DOMAIN tasks : tasks[i].status # "completed"}
    IN  open # {} /\ First(open) \in Gaps(tasks)

\* The history of a list that was written.
NoteDone(o) ==
    done' = [done EXCEPT ![o] = @ \cup
               {checklists'[o].tasks[i].name :
                  i \in {j \in DOMAIN checklists'[o].tasks :
                           checklists'[o].tasks[j].status = "completed"}}]

\* The places of the tasks that a handler has changed since it read them.
ChangedPlaces(call) == {i \in DOMAIN call.tasks : call.tasks[i] # call.read[i]}

SavingFields(o) ==
    {b \in Agent : At(onboardingCalls, b, "fields.save") /\ onboardingCalls[b].checklist = o}

-----------------------------------------------------------------------------
(* Tasks are added.                                                        *)

BeginCreation(a, n, names) ==
    /\ ChecklistsOf(n) = {}
    /\ onboardingCalls' = Begin(onboardingCalls, a,
         [at |-> "checklist.create", of |-> n, tasks |-> Pending(names)])

\* Mutant: the new tasks go in front.
InFront(tasks, names) == Pending(names) \o tasks

Extended(tasks, names) == tasks \o Pending(names)

CreateOnboardingChecklist(a, n, names) ==
    /\ Idle(onboardingCalls, a)
    /\ \/ BeginCreation(a, n, names)
       \/ \E o \in ChecklistsOf(n) :
            /\ Len(checklists[o].tasks) + Len(names) <= TaskLimit
            /\ onboardingCalls' = Begin(onboardingCalls, a,
                 [at |-> "tasks.replace", checklist |-> o, read |-> checklists[o].tasks,
                  tasks |-> Extended(checklists[o].tasks, names), completed |-> FALSE])
    /\ UNCHANGED <<checklists, overwritten, cancelled, done, late>>

CreateOnboardingWithDefaults(a, n, names) ==
    /\ Idle(onboardingCalls, a)
    /\ \/ BeginCreation(a, n, names)
       \/ \E o \in ChecklistsOf(n) :
            onboardingCalls' = Begin(onboardingCalls, a,
              [at |-> "tasks.push", checklist |-> o, tasks |-> Pending(names)])
    /\ UNCHANGED <<checklists, overwritten, cancelled, done, late>>

CreateChecklist(a, o) ==
    /\ At(onboardingCalls, a, "checklist.create")
    /\ checklists[o] = NULL
    /\ checklists' = [checklists EXCEPT ![o] =
         [of |-> onboardingCalls[a].of, tasks |-> onboardingCalls[a].tasks,
          completed |-> FALSE, version |-> 0]]
    /\ onboardingCalls' = Finish(onboardingCalls, a)
    /\ UNCHANGED <<overwritten, cancelled, done, late>>

\* Nothing compares versions: the list is the one that was read, and changed.
ReplaceTasks(a) ==
    /\ At(onboardingCalls, a, "tasks.replace")
    /\ LET call  == onboardingCalls[a]
           o     == call.checklist
           added == {call.tasks[i].name : i \in (DOMAIN call.tasks) \ DOMAIN call.read}
       IN  /\ checklists' = [checklists EXCEPT
                ![o].tasks = call.tasks,
                ![o].completed = @ \/ call.completed]
           /\ overwritten' = IF call.read = checklists[o].tasks
                             THEN overwritten ELSE overwritten \cup {o}
           /\ late' = IF checklists[o].completed \/ SavingFields(o) # {}
                      THEN [late EXCEPT ![o] = @ \cup added] ELSE late
           /\ NoteDone(o)
    /\ onboardingCalls' = Finish(onboardingCalls, a)
    /\ UNCHANGED cancelled

PushTasks(a) ==
    /\ At(onboardingCalls, a, "tasks.push")
    /\ LET call == onboardingCalls[a]
           o    == call.checklist
       IN  /\ Len(checklists[o].tasks) + Len(call.tasks) <= TaskLimit
           /\ checklists' = [checklists EXCEPT
                ![o].tasks = @ \o call.tasks,
                ![o].version = @ + 1]
           /\ late' = IF \/ checklists[o].completed
                         \/ \E b \in SavingFields(o) : ChangedPlaces(onboardingCalls[b]) = {}
                      THEN [late EXCEPT ![o] = @ \cup Names(call.tasks)] ELSE late
    /\ onboardingCalls' = Finish(onboardingCalls, a)
    /\ UNCHANGED <<overwritten, cancelled, done>>

-----------------------------------------------------------------------------
(* Tasks are completed.                                                    *)

Called(tasks, name) == {i \in DOMAIN tasks : tasks[i].name = name}

WorkedOn(task, status, document) ==
    [task EXCEPT !.status = status,
                 !.document = IF document = NULL THEN task.document ELSE document]

\* document is "given" when the client names one, else NULL.  The status is
\* not validated: any other string counts as one that is not COMPLETED.
UpdateTaskStatus(a, n, name, status, document) ==
    /\ Idle(onboardingCalls, a)
    /\ \E o \in ChecklistsOf(n) :
         LET read == checklists[o].tasks
             i    == First(Called(read, name))
             new  == [read EXCEPT ![i] = WorkedOn(read[i], status, document)]
         IN  /\ Called(read, name) # {}
             /\ First(Called(read, name) \cup Gaps(read)) \notin Gaps(read)
             /\ ~ EveryThrows(new)
             /\ onboardingCalls' = Begin(onboardingCalls, a,
                  [at |-> "tasks.replace", checklist |-> o, read |-> read, tasks |-> new,
                   completed |-> AllCompleted(new)])
    /\ UNCHANGED <<checklists, overwritten, cancelled, done, late>>

\* Where the search for a task that a document completes ends: at the first
\* match, or with an exception at a task that has no name.
SearchEnds(tasks, document) ==
    {i \in DOMAIN tasks :
        \/ tasks[i].name = NULL
        \/ tasks[i].name \in Fits[document] /\ tasks[i].status # "completed"}

\* The tasks after the upload of a document.
Matched(tasks, document) ==
    IF SearchEnds(tasks, document) = {} THEN tasks
    ELSE [tasks EXCEPT ![First(SearchEnds(tasks, document))] =
            [@ EXCEPT !.status = "completed", !.document = document]]

\* One document of an upload: several are matched one after the other before
\* the same save.
UploadComplianceDocuments(a, n, document) ==
    /\ Idle(onboardingCalls, a)
    /\ \E o \in ChecklistsOf(n) :
         LET read == checklists[o].tasks
             ends == SearchEnds(read, document)
             new  == Matched(read, document)
         IN  /\ ends # {} => read[First(ends)].name # NULL
             /\ ~ EveryThrows(new)
             /\ onboardingCalls' = Begin(onboardingCalls, a,
                  [at |-> "fields.save", checklist |-> o, version |-> checklists[o].version,
                   read |-> read, tasks |-> new, completed |-> AllCompleted(new),
                   cancels |-> FALSE])
    /\ UNCHANGED <<checklists, overwritten, cancelled, done, late>>

\* What is open goes back to PENDING, with a note.
CancelOnboarding(a, n) ==
    /\ Idle(onboardingCalls, a)
    /\ \E o \in ChecklistsOf(n) :
         LET read == checklists[o].tasks
         IN  /\ ~ checklists[o].completed
             /\ Gaps(read) = {}
             /\ onboardingCalls' = Begin(onboardingCalls, a,
                  [at |-> "fields.save", checklist |-> o, version |-> checklists[o].version,
                   read |-> read,
                   tasks |-> [i \in DOMAIN read |->
                                IF read[i].status = "completed" THEN read[i]
                                ELSE [read[i] EXCEPT !.status = "pending", !.noted = TRUE]],
                   completed |-> TRUE, cancels |-> TRUE])
    /\ UNCHANGED <<checklists, overwritten, cancelled, done, late>>

-----------------------------------------------------------------------------
(* document.save() of a list whose tasks were changed in their places.     *)

\* A field that is set at a place behind the end of the list makes a task of
\* nothing else; status has a default.
NamelessTask == [name |-> NULL, status |-> "pending", document |-> NULL, noted |-> FALSE]

SavedPlaces(current, call) ==
    LET changed == ChangedPlaces(call)
    IN  [i \in (DOMAIN current) \cup UNION {1..j : j \in changed} |->
           IF i \in changed
           THEN Saved(IF i \in DOMAIN current THEN current[i] ELSE NamelessTask,
                      call.read[i], call.tasks[i])
           ELSE IF i \in DOMAIN current THEN current[i] ELSE Gap]

\* Only a change of a place in the list depends on the version, and no field
\* of a gap can be set.
SaveIsAccepted(call) ==
    ChangedPlaces(call) # {} =>
        /\ checklists[call.checklist].version = call.version
        /\ ChangedPlaces(call) \cap Gaps(checklists[call.checklist].tasks) = {}

SaveFields(a) ==
    /\ At(onboardingCalls, a, "fields.save")
    /\ LET call == onboardingCalls[a]
           o    == call.checklist
       IN  IF SaveIsAccepted(call)
           THEN /\ checklists' = [checklists EXCEPT
                     ![o].tasks = SavedPlaces(@, call),
                     ![o].completed = @ \/ call.completed]
                /\ cancelled' = IF call.cancels THEN cancelled \cup {o} ELSE cancelled
                /\ NoteDone(o)
           ELSE UNCHANGED <<checklists, cancelled, done>>
    /\ onboardingCalls' = Finish(onboardingCalls, a)
    /\ UNCHANGED <<overwritten, late>>

-----------------------------------------------------------------------------

\* A database call throws, or the process stops.
OnboardingCallFails(a) ==
    /\ ~ Idle(onboardingCalls, a)
    /\ onboardingCalls' = Finish(onboardingCalls, a)
    /\ UNCHANGED <<checklists, overwritten, cancelled, done, late>>

OnboardingInit ==
    /\ checklists = [o \in Checklist |-> NULL]
    /\ onboardingCalls = [a \in Agent |-> NULL]
    /\ overwritten = {}
    /\ cancelled = {}
    /\ done = [o \in Checklist |-> {}]
    /\ late = [o \in Checklist |-> {}]
    /\ onboardingOps = 0

RequestOnboarding(a, n) ==
    \/ \E name \in TaskName :
         \/ CreateOnboardingChecklist(a, n, <<name>>)
         \/ CreateOnboardingWithDefaults(a, n, <<name>>)
         \/ \E status \in OnboardingTaskStatus, document \in {"given", NULL} :
              UpdateTaskStatus(a, n, name, status, document)
    \/ \E document \in DocumentType : UploadComplianceDocuments(a, n, document)
    \/ CancelOnboarding(a, n)

OnboardingStep(a) ==
    \/ \E o \in Checklist : CreateChecklist(a, o)
    \/ ReplaceTasks(a) \/ PushTasks(a) \/ SaveFields(a)
    \/ OnboardingCallFails(a)

OnboardingNext ==
    \/ /\ onboardingOps < MaxOnboardingOps
       /\ onboardingOps' = onboardingOps + 1
       /\ \E a \in Agent, n \in Newcomer : RequestOnboarding(a, n)
    \/ /\ onboardingOps' = onboardingOps
       /\ \E a \in Agent : OnboardingStep(a)

OnboardingSpec == OnboardingInit /\ [][OnboardingNext]_onboardingVars

-----------------------------------------------------------------------------
(* Properties.                                                             *)

\* Every checklist, call in flight and history has its type.
OnboardingTypeOK ==
    /\ checklists \in [Checklist -> ChecklistDoc \cup {NULL}]
    /\ onboardingCalls \in [Agent -> OnboardingCall \cup {NULL}]
    /\ overwritten \subseteq Checklist
    /\ cancelled \subseteq Checklist
    /\ done \in [Checklist -> SUBSET (TaskName \cup {NULL})]
    /\ late \in [Checklist -> SUBSET (TaskName \cup {NULL})]
    /\ onboardingOps \in 0..MaxOnboardingOps

\* A checklist that is complete without having been cancelled has no task that
\* was never completed, even if default tasks are pushed while an upload is
\* about to complete it.  Only a task that is added later, by the replacement
\* of a list that an upload or a cancellation is about to save, or while an
\* upload that found nothing to change is about to save, is not waited for.
CompletedWasDone ==
    \A o \in Checklist :
      checklists[o] # NULL /\ checklists[o].completed /\ o \notin cancelled \cup overwritten =>
        Names(checklists[o].tasks) \subseteq done[o] \cup late[o]

\* An uploaded document is linked to a task that asks for its type, although
\* the task is written by its place in a list that others extend meanwhile, as
\* long as no list is replaced by one that was read before a change.
DocumentsFit ==
    \A o \in Checklist :
      checklists[o] # NULL /\ o \notin overwritten =>
        \A i \in DOMAIN checklists[o].tasks :
          LET task == checklists[o].tasks[i]
          IN  task.document \in DocumentType => task.name \in Fits[task.document]

=============================================================================
