SPECIFICATION LabsSpec
CONSTANTS
  s1 = s1
  s2 = s2
  s3 = s3
  u1 = u1
  u2 = u2
  Sagas <- MCSagas
  Users <- MCUsers
  UserOf <- MCUserOf
  Steps <- MCSteps
  BadAmount <- MCBadAmount
  MaxAttempts <- MCMaxAttempts
  MaxFailures = 2
  c1 = c1
  c2 = c2
  c3 = c3
  Callers <- MCCallers
  MaxVersion = 1
  Empty = Empty
  ann = ann
  bob = bob
  cus1 = cus1
  cus2 = cus2
  cus3 = cus3
  sub1 = sub1
  inv3 = inv3
  q1 = q1
  q2 = q2
  q3 = q3
  None = None
  MaxFaults = 1
  StripeEvents <- MCStripeEvents
  Kind <- MCKind
  CustomerOf <- MCCustomerOf
  ObjectOf <- MCObjectOf
  CreatedAt <- MCCreatedAt
  Customers <- MCCustomers
  Objects <- MCObjects
  Buyers <- MCBuyers
  MetadataUser <- MCMetadataUser
  Placeholder <- MCPlaceholder
  Calls <- MCCalls
  CallerOf <- MCCallerOf
  e1 = e1
  d1 = d1
  d2 = d2
  Events <- MCEvents
  Deliveries <- MCDeliveries
  MaxSkew = 1
  MaxSeconds = 3
  MaxTrouble = 2
  AccessTtl = 1
  RefreshTtl = 4
  SessionTtl = 4
  Leeway = 1
  MaxMinute = 6
  MaxSignIns = 1
  MaxBoots = 1
  k1 = k1
  k2 = k2
  Buckets <- MCBuckets
  MaxRequests = 2
  Window = 2
  CountCeiling = 4
  MaxTicks = 5
  textA = textA
  textB = textB
  Gone = Gone
  Texts <- MCTexts
  PageSizes <- MCPageSizes
  MaxPage = 3
  MaxNotes = 5
  usd = usd
  jpy = jpy
  Error = Error
  Currencies <- MCCurrencies
  Half = 16
  Ceiling = 10
  MaxWeight = 3
  MaxShares = 3
  o1 = o1
  o2 = o2
  Never = Never
  Orgs <- MCOrgs
  StepUpAge = 1
  LastMinute = 3
  url1 = url1
  url2 = url2
  url3 = url3
  Urls <- MCUrls
  Concurrency = 2
  Timeout = 1
  Deadlines <- MCDeadlines
  FromPosition = 1
  PollBatch = 2
  Capacity = 1
  MaxRows = 5
INVARIANTS LimitsHold AllOrNothing HandledOnce AdmissionIsFair
  WalkShowsEachOnce SplitExact AccessEnds
  ErrorsHaveACause SlotHasComputation WaitersAgree
  OncePerEvent RowsFollowTheCustomer CallersGetTheirOwnCustomer
PROPERTIES CallsReturn FlightsReturn StripeIsAnswered EveryEventMirrored
  TrustKeepsRights SeesAllUnlessStalled
CHECK_DEADLOCK FALSE
