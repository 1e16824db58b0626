SPECIFICATION Spec
CONSTANTS
  h1 = h1  h2 = h2
  approveSpec = approveSpec  approveDesign = approveDesign
  approvePlan = approvePlan  returnSpec = returnSpec
  returnDesign = returnDesign  cancel = cancel
  Handler = {h1, h2}
  Approval = {approveSpec}
  Revision = {returnSpec}
  Cancellation = {}
  SubjectOf <- SubjectsAsked
  NoText = NoText
  NoRequest = NoRequest
  MaxVersion = 2
  MaxRevision = 9
  MaxRequests = 3
  Exclusive = TRUE
SYMMETRY Symmetry
INVARIANT ApprovedAsNamed
CHECK_DEADLOCK FALSE
