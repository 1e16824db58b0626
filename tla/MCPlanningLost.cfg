SPECIFICATION Spec
CONSTANTS
  h1 = h1  h2 = h2
  approveSpec = approveSpec  approveDesign = approveDesign
  approvePlan = approvePlan  returnSpec = returnSpec
  returnDesign = returnDesign  cancel = cancel
  Handler = {h1, h2}
  Approval = {approveSpec}
  Revision = {}
  Cancellation = {}
  SubjectOf <- SubjectsAsked
  NoText = NoText
  NoRequest = NoRequest
  MaxVersion = 2
  MaxRevision = 9
  MaxRequests = 3
  Exclusive = FALSE
SYMMETRY Symmetry
PROPERTY AnswersStay
CHECK_DEADLOCK FALSE
