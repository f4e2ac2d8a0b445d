SPECIFICATION AccountsSpec
CONSTANTS
  r1 = r1
  r2 = r2
  e1 = e1
  e2 = e2
  g1 = g1
  g2 = g2
  NoSub = NoSub
  Callers <- MCCallers
  Emails <- MCEmails
  Subs <- MCSubs
  Identities <- MCIdentities
  MaxFlows = 2
  MaxSecrets = 2
SYMMETRY Symmetric
INVARIANT EnabledOnlyAfterProof
CHECK_DEADLOCK FALSE
