SPECIFICATION Spec
CONSTANTS
  s1 = s1
  s2 = s2
  s3 = s3
  u1 = u1
  u2 = u2
  Sagas <- MCSagas
  Users <- MCUsers
  UserOf <- MCUserOf
  Steps <- MCSteps
  BadAmount <- MCBadAmount
  MaxAttempts <- MCMaxAttempts
  MaxFailures = 1
INVARIANT OkIsInForce
CHECK_DEADLOCK FALSE
