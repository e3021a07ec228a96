--------------------------- MODULE ServicesProofs ----------------------------
(***************************************************************************)
(* The services of MCServices, one in each behaviour: every behaviour is   *)
(* one of each service's specification, in which that service moves or     *)
(* stutters.  So what is proved of each of them holds of MCServices, its   *)
(* TypeOK among it.                                                        *)
(***************************************************************************)
EXTENDS MCServices, PayrollProofs, ApplicationsProofs, PeopleProofs, TimeProofs

\* Every service moves by its own steps.
ServicesMove ==
    /\ [LeavesNext]_leaveVars
    /\ [AppraisalsNext]_appraisalVars
    /\ [ApplicationsNext]_applicationVars
    /\ [AttendanceNext]_attendanceVars
    /\ [PayrollRunsNext]_runVars
    /\ [OrganizationNext]_orgVars
    /\ [ConfigurationsNext]_configVars
    /\ [OnboardingNext]_onboardingVars
    /\ [LinesNext]_lineVars
    /\ [ProfilesNext]_profileVars

\* The services that one of them leaves alone.
LEMMA OthersStay ==
    ASSUME NEW moving, Others(moving)
    PROVE  /\ moving # "leaves" => UNCHANGED leaveVars
           /\ moving # "appraisals" => UNCHANGED appraisalVars
           /\ moving # "applications" => UNCHANGED applicationVars
           /\ moving # "attendance" => UNCHANGED attendanceVars
           /\ moving # "runs" => UNCHANGED runVars
           /\ moving # "organization" => UNCHANGED orgVars
           /\ moving # "configurations" => UNCHANGED configVars
           /\ moving # "onboarding" => UNCHANGED onboardingVars
           /\ moving # "lines" => UNCHANGED lineVars
           /\ moving # "profiles" => UNCHANGED profileVars
BY DEF Others

LEMMA EveryServiceMoves == ASSUME [Next]_vars PROVE ServicesMove
<1>1. CASE UNCHANGED vars
  BY <1>1 DEF vars, ServicesMove
<1>2. CASE Others("leaves") /\ LeavesNext
  BY <1>2, OthersStay DEF ServicesMove
<1>3. CASE Others("appraisals") /\ AppraisalsNext
  BY <1>3, OthersStay DEF ServicesMove
<1>4. CASE Others("applications") /\ ApplicationsNext
  BY <1>4, OthersStay DEF ServicesMove
<1>5. CASE Others("attendance") /\ AttendanceNext
  BY <1>5, OthersStay DEF ServicesMove
<1>6. CASE Others("runs") /\ PayrollRunsNext
  BY <1>6, OthersStay DEF ServicesMove
<1>7. CASE Others("organization") /\ OrganizationNext
  BY <1>7, OthersStay DEF ServicesMove
<1>8. CASE Others("configurations") /\ ConfigurationsNext
  BY <1>8, OthersStay DEF ServicesMove
<1>9. CASE Others("onboarding") /\ OnboardingNext
  BY <1>9, OthersStay DEF ServicesMove
<1>10. CASE Others("lines") /\ LinesNext
  BY <1>10, OthersStay DEF ServicesMove
<1>11. CASE Others("profiles") /\ ProfilesNext
  BY <1>11, OthersStay DEF ServicesMove
<1> QED BY <1>1, <1>2, <1>3, <1>4, <1>5, <1>6, <1>7, <1>8, <1>9, <1>10, <1>11 DEF Next

\* Whichever service moves, the behaviour is one of every service.
THEOREM ServicesBehave ==
    Spec => /\ LeavesSpec /\ AppraisalsSpec /\ ApplicationsSpec /\ AttendanceSpec
            /\ PayrollRunsSpec /\ OrganizationSpec /\ ConfigurationsSpec
            /\ OnboardingSpec /\ LinesSpec /\ ProfilesSpec
<1>1. Init => /\ LeavesInit /\ AppraisalsInit /\ ApplicationsInit /\ AttendanceInit
              /\ PayrollRunsInit /\ OrganizationInit /\ ConfigurationsInit
              /\ OnboardingInit /\ LinesInit /\ ProfilesInit
  BY DEF Init
<1>2. [Next]_vars => /\ [LeavesNext]_leaveVars
                     /\ [AppraisalsNext]_appraisalVars
                     /\ [ApplicationsNext]_applicationVars
                     /\ [AttendanceNext]_attendanceVars
                     /\ [PayrollRunsNext]_runVars
                     /\ [OrganizationNext]_orgVars
                     /\ [ConfigurationsNext]_configVars
                     /\ [OnboardingNext]_onboardingVars
                     /\ [LinesNext]_lineVars
                     /\ [ProfilesNext]_profileVars
  BY EveryServiceMoves DEF ServicesMove
<1> QED
  BY <1>1, <1>2, PTL
     DEF Spec, LeavesSpec, AppraisalsSpec, ApplicationsSpec, AttendanceSpec, PayrollRunsSpec,
         OrganizationSpec, ConfigurationsSpec, OnboardingSpec, LinesSpec, ProfilesSpec

\* Every document, call in flight and history of each service has its type.
THEOREM ServicesTypeCorrect == Spec => []TypeOK
<1>1. /\ LeavesTypeOK /\ AppraisalsTypeOK /\ ApplicationsTypeOK /\ AttendanceTypeOK
      /\ PayrollRunsTypeOK /\ OrganizationTypeOK /\ ConfigurationsTypeOK
      /\ OnboardingTypeOK /\ LinesTypeOK /\ ProfilesTypeOK
      => TypeOK
  BY DEF TypeOK
<1> QED
  BY <1>1, ServicesBehave, LeavesTypeCorrect, AppraisalsTypeCorrect, ApplicationsTypeCorrect,
     AttendanceTypeCorrect, PayrollRunsTypeCorrect, OrganizationTypeCorrect,
     ConfigurationsTypeCorrect, OnboardingTypeCorrect, LinesTypeCorrect, ProfilesTypeCorrect, PTL

=============================================================================
