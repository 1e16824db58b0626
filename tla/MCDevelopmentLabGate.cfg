SPECIFICATION Spec
CONSTANTS
  h1 = h1  h2 = h2
  pause = pause  resume = resume  cancel = cancel
  gate = gate  verify = verify  rollback = rollback
  Handler = {h1}
  Pause = {pause}
  Resume = {resume}
  Cancel = {}
  Gate = {gate}
  Verify = {verify}
  Rollback = {}
  NoRequest = NoRequest
  MaxPatch = 1
  MaxRevision = 9
INVARIANT WaitingGateIsOpen
CHECK_DEADLOCK FALSE
