SPECIFICATION Spec
CONSTANTS
  h1 = h1  h2 = h2
  approveSpec = approveSpec  approveDesign = approveDesign
  approvePlan = approvePlan  returnSpec = returnSpec
  returnDesign = returnDesign  cancel = cancel
  Handler = {h1, h2}
  Approval = {approveSpec, approveDesign, approvePlan}
  Revision = {returnSpec, returnDesign}
  Cancellation = {cancel}
  SubjectOf <- SubjectsAsked
  NoText = NoText
  NoRequest = NoRequest
  MaxVersion = 2
  MaxRevision = 10
  MaxRequests = 3
  Exclusive = TRUE
SYMMETRY Symmetry
INVARIANTS TypeOK StoredAuthority EventsKept GenerationCanProceed
PROPERTIES ImplementsPlanning
CHECK_DEADLOCK FALSE
