SPECIFICATION Spec
CONSTANTS
  Threads = {t1, t2}
  Principals = {k1}
  Conversations = {c1}
  Tenants = {x, y}
  NoTenant = NoTenant
  Keys = {k1}
  MaxTurns = 3
  MaxRestarts = 0
INVARIANTS
  TurnsAreKept
CHECK_DEADLOCK FALSE
