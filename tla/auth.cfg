SPECIFICATION AuthSpec
CONSTANTS
  r1 = r1
  r2 = r2
  e1 = e1
  e2 = e2
  g1 = g1
  g2 = g2
  NoSub = NoSub
  owner = owner
  moderator = moderator
  stranger = stranger
  root = root
  b1 = b1
  Requests <- MCRequests
  Callers <- MCRequests
  Emails <- MCEmails
  Subs <- MCSubs
  Identities <- MCIdentities
  MaxFlows = 2
  MaxSecrets = 2
  MaxLinks <- MCMaxLinks
  MaxSessions = 2
  MaxRefresh = 3
  Handlers <- MCRequests
  Users <- MCUsers
  RoleOf <- MCRoleOf
  TierOf <- MCTierOf
  OrgOf <- MCOrgOf
  Bodies = {b1}
  Tiers = {"free", "pro"}
  MaxUsers = 3
  MaxLogins = 1
  MaxNotes = 1
SYMMETRY Symmetric
INVARIANTS OnlyFirstIsAdmin OneAccountPerIdentity OneLiveTokenPerFamily ResetRevokes ReadersMayRead
PROPERTIES RedeemedOnce ChangesArePermitted
CHECK_DEADLOCK FALSE
