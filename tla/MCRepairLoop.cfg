SPECIFICATION FairSpec
CONSTANTS
  local = local  remote = remote  small = small
  tools = tools  json = json
  failure1 = failure1  failure2 = failure2  failure3 = failure3
  NoProfile = NoProfile
  Profile = {local, remote, small}
  Provider <- MCProvider
  Registered <- MCRegistered
  Capability = {tools, json}
  Capabilities <- MCCapabilities
  Window <- MCWindow
  Required = {json}
  MinimumWindow = 1
  ContextTokens = 2
  Steps <- MCSteps
  Optional <- MCOptional
  Log = {failure1, failure2, failure3}
  MaxAttempts = 3
  Policies <- MCPolicies
INVARIANTS RepairsAreWarranted VerifiedByEvidence AuthorIsNamed
PROPERTIES WorkRunsDown ComesToRest
CHECK_DEADLOCK FALSE
