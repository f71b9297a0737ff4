SPECIFICATION Spec
CONSTANTS
  Processes = {api, cli}
  Cli = {cli}
  Tenants = {t1, t2}
  None = None
  Missing = Missing
  Torn = Torn
  Judgements <- MCJudgements
  Patches <- MCPatches
  Assignees = {"ann"}
  MaxFeedback = 2
  MaxReports = 2
  MaxItems = 1
  MaxDigest = 2
  MaxCalls = 2
SYMMETRY TenantSymmetry
CHECK_DEADLOCK FALSE
INVARIANTS
  TenantsStayApart
  LinksStayInTenant
  PatchIsKept
  RefusedDigestIsNotSent
  QueueKeepsTheMostUrgent
