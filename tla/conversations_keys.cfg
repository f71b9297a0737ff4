SPECIFICATION Spec
CONSTANTS
  Threads = {t1, t2}
  Principals = {k1, cli}
  Conversations = {c1, c2}
  Tenants = {x, y}
  NoTenant = NoTenant
  Keys = {k1}
  MaxTurns = 3
  MaxRestarts = 1
INVARIANTS
  TurnsShareTenant
  BoundKeysStayInTenant
CHECK_DEADLOCK FALSE
