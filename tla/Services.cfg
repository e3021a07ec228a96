SPECIFICATION Spec
CONSTANTS
  Parts = {"leaves", "appraisals", "applications", "attendance", "runs", "organization", "configurations", "onboarding", "lines", "profiles"}
  NULL = NULL
  Agent = {a1, a2}
  LeaveRequest = {l1}
  Entitlement = {e1, e2}
  Balance = {b1}
  PartTime = {b1}
  LeavePolicy <- TwoPolicies
  Days = {1}
  MaxLeaveOps = 5
  Appraisee = {"profile"}
  EmployeeNumber <- Numbered
  Assignment = {g1}
  AppraisalRecord = {r1, r2, r3}
  AppraisalDispute = {d1}
  Template = {t1}
  MinRating <- LowestIsOne
  Rating = {1}
  Threshold = 2
  MaxAppraisalOps = 5
  Application = {x1}
  Applicant = {c1}
  Requisition = {q1}
  Interview = {i1}
  Score = {1}
  Asked = {"hr_interview", "in_process", "scheduled"}
  MaxApplicationOps = 5
  Worker = {w1}
  AttendanceRecord = {k1, k2}
  Correction = {m1}
  Second = {0, 30, 60}
  Expectation <- AtStartOfDay
  PunchLimit = 4
  MaxAttendanceOps = 4
  PayrollRun = {u1}
  Payslip = {s1, s2}
  RunOf <- OneRun
  MaxRunOps = 7
  Position = {p1, p2}
  Department = {n1, n2}
  Member = {y1}
  PositionAssignment = {z1, z2}
  ChangeRequest = {h1}
  MaxOrgOps = 4
  Config = {f1, f2}
  Newcomer = {j1}
  Checklist = {o1, o2}
  TaskName = {"Upload ID", "Setup Payroll"}
  DocumentType = {"id"}
  Fits <- IdsOfPeople
  TaskLimit = 3
  MaxOnboardingOps = 5
  KeptBackups = 1
  MaxConfigOps = 6
  Post = {v1, v2}
  Unit = {units1, units2}
  Staff = {staff1}
  MaxLineOps = 5
  Employee = {employee1}
  ProfileRequest = {profileRequest1}
  RoleDoc = {roles1, roles2}
  Datum = {1, 2}
  MaxProfileOps = 4
SYMMETRY Symmetry
INVARIANT TypeOK
INVARIANT DecisionsAreLogged
INVARIANT DeductionsWereApproved
INVARIANT TakenIsDeducted
INVARIANT SuspendedWasRatedLow
INVARIANT ManagerPublishesAfterDispute
INVARIANT EveryChangeIsRecorded
INVARIANT SubmittedIsLinked
INVARIANT WorkWithinSpan
INVARIANT FinalisedWasApproved
INVARIANT PaidWasSigned
INVARIANT DepartmentWasOfPosition
INVARIANT PositionIsRecorded
INVARIANT OneBackupAtATime
INVARIANT CompletedWasDone
INVARIANT DocumentsFit
INVARIANT SupervisorWasHead
INVARIANT SettledHeadsMakeTrees
INVARIANT ApprovedWasApplied
INVARIANT RolesFollowAccess
CHECK_DEADLOCK FALSE
