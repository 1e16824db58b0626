SPECIFICATION Spec
CONSTANTS
  h1 = h1  h2 = h2
  pause = pause  resume = resume  cancel = cancel
  gate = gate  verify = verify  rollback = rollback
  Handler = {h1, h2}
  Pause = {pause}
  Resume = {resume}
  Cancel = {cancel}
  Gate = {gate}
  Verify = {verify}
  Rollback = {rollback}
  NoRequest = NoRequest
  MaxPatch = 1
  MaxRevision = 7
SYMMETRY Symmetry
INVARIANTS JournalIsTrue CompletionIsOnRecord DriftIsExplained
PROPERTY NothingIsUndone
CHECK_DEADLOCK FALSE
