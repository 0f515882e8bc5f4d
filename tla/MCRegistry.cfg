SPECIFICATION Spec
CONSTANTS
  Requests = {r1, r2}
  Cancels = {c1}
  Deletes = {d1}
  t1 = t1
  t2 = t2
  a = a
  ab = ab
  Tenants <- TenantsDef
  RunIds <- RunIdsDef
  PrefixOf <- PrefixDef
  MaxRuns <- MaxRunsDef
  None = None
SYMMETRY RequestSymmetry
CHECK_DEADLOCK FALSE
INVARIANTS TypeOK RegistryTracksRuns NoRowLeftOpen WorkingRunKeepsContainer
