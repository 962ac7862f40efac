SPECIFICATION Spec
CONSTANTS
  Client = {1, 2}
  Payment = {11, 12}
  Slot = {1, 2}
  Free = 1
  Included = 2
  Extras = {0}
  Limits = {1}
  Periods = {1}
  TrialDays = 1
  EducationDays = 1
  CodeAttempts = 1
  GivenPlans <- MCGivenPlans
  MaxRequests = 2
  MaxTime = 1
PROPERTY ExtendsFromTheEnd
CHECK_DEADLOCK FALSE
