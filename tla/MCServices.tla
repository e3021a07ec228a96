----------------------------- MODULE MCServices ------------------------------
(***************************************************************************)
(* The services that share no documents, one in each behaviour: part is    *)
(* chosen at the start, and only that service moves.                       *)
(***************************************************************************)
EXTENDS Leaves, Appraisals, Applications, Attendance, PayrollRuns,
        Organization, Configurations, OnboardingChecklist,
        ReportingLines, Profiles, TLC

CONSTANT Parts      \* the services that are checked

VARIABLE part       \* the service of this behaviour

vars == <<part, leaveVars, appraisalVars, applicationVars, attendanceVars,
          runVars, orgVars, configVars, onboardingVars, lineVars, profileVars>>

\* An active employee, as onboarding leaves one.
FirstPerson ==
    LET datum == CHOOSE t \in Datum : TRUE
    IN  [data |-> [f \in Field |-> datum], isActive |-> TRUE]

Init ==
    /\ part \in Parts
    /\ LeavesInit
    /\ AppraisalsInit
    /\ ApplicationsInit
    /\ AttendanceInit
    /\ PayrollRunsInit
    /\ OrganizationInit
    /\ ConfigurationsInit
    /\ OnboardingInit
    /\ LinesInit
    /\ ProfilesInit
    /\ part # "leaves" => \A b \in Balance : leavePolicy[b].carryForwardAllowed
    /\ part # "runs" => \A r \in PayrollRun : runs[r].status = "UNDER_REVIEW"
    /\ part # "organization" => employed = Member
    /\ part # "lines" => onStaff = Staff
    /\ people = [e \in Employee |-> FirstPerson]

Others(moving) ==
    /\ part = moving
    /\ part' = part
    /\ moving # "leaves" => UNCHANGED leaveVars
    /\ moving # "appraisals" => UNCHANGED appraisalVars
    /\ moving # "applications" => UNCHANGED applicationVars
    /\ moving # "attendance" => UNCHANGED attendanceVars
    /\ moving # "runs" => UNCHANGED runVars
    /\ moving # "organization" => UNCHANGED orgVars
    /\ moving # "configurations" => UNCHANGED configVars
    /\ moving # "onboarding" => UNCHANGED onboardingVars
    /\ moving # "lines" => UNCHANGED lineVars
    /\ moving # "profiles" => UNCHANGED profileVars

Next ==
    \/ Others("leaves") /\ LeavesNext
    \/ Others("appraisals") /\ AppraisalsNext
    \/ Others("applications") /\ ApplicationsNext
    \/ Others("attendance") /\ AttendanceNext
    \/ Others("runs") /\ PayrollRunsNext
    \/ Others("organization") /\ OrganizationNext
    \/ Others("configurations") /\ ConfigurationsNext
    \/ Others("onboarding") /\ OnboardingNext
    \/ Others("lines") /\ LinesNext
    \/ Others("profiles") /\ ProfilesNext

Spec == Init /\ [][Next]_vars

\* Every document, call in flight and history of each service has its type.
TypeOK ==
    /\ part = "leaves" => LeavesTypeOK
    /\ part = "appraisals" => AppraisalsTypeOK
    /\ part = "applications" => ApplicationsTypeOK
    /\ part = "attendance" => AttendanceTypeOK
    /\ part = "runs" => PayrollRunsTypeOK
    /\ part = "organization" => OrganizationTypeOK
    /\ part = "configurations" => ConfigurationsTypeOK
    /\ part = "onboarding" => OnboardingTypeOK
    /\ part = "lines" => LinesTypeOK
    /\ part = "profiles" => ProfilesTypeOK

\* A policy with a balance that is rounded and carried over, and one without.
TwoPolicies ==
    {[method |-> "monthly", monthly |-> 1, yearly |-> 1, rounding |-> "round_up",
      carryForwardAllowed |-> TRUE, maxCarryForward |-> 1],
     [method |-> "yearly", monthly |-> 1, yearly |-> 1, rounding |-> "none",
      carryForwardAllowed |-> FALSE, maxCarryForward |-> 0]}

\* What the code does not tell apart.
Symmetry == Permutations(Agent)

Numbered == [e \in Appraisee |-> "EMP-1"]
LowestIsOne == [t \in Template |-> 1]
AtStartOfDay == {[checkIn |-> 0, grace |-> 0, threshold |-> 0, deduction |-> 1]}
IdsOfPeople == [document \in DocumentType |-> {"Upload ID"}]
OneRun == [p \in Payslip |-> CHOOSE r \in PayrollRun : TRUE]
=============================================================================
