SPECIFICATION Spec
CONSTANTS
  t1 = t1
  t2 = t2
  c1 = c1
  c2 = c2
  None = None
  Tenants <- TwoTenants
  Commands <- TwoCommands
  Levels <- AnyLevel
  AccessTTL = 2
  RefreshTTL = 2
  MaxTokens = 3
  MaxEvents = 3
SYMMETRY Symmetry
INVARIANTS
  TypeOK
  AccessFollowsMembership
  SessionKept
