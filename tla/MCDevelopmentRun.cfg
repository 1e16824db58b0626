SPECIFICATION Spec
CONSTANTS
  design = design  delivery = delivery
  spec = spec  ship = ship
  gate = gate
  specTest = specTest  shipTest = shipTest
  testReport = testReport
  Phase <- TwoPhases
  Task <- PairTasks
  Gate <- OneGate
  Step <- PairSteps
  TaskPhase <- PairPhase
  TaskDependencies <- PairDependencies
  PhaseDependencies <- PhaseChain
  TaskRank <- PairOrder
  PhaseRank <- PhaseOrder
  GatePhase <- AfterDesign
  GateTypes <- WantsReport
  StepTask <- PairStepTask
  RequiredSteps <- PairSteps
  EvidenceType <- Reports
  StepType <- PairStepType
  Model = {m1, m2}
  Agent = {a1, a2, a3}
  EvidenceId = {e1, e2}
  Artifact = {log}
  Workspace = {w1}
  MaxAttempts = 1
  NoModel = NoModel  NoAgent = NoAgent  NoTask = NoTask  NoPhase = NoPhase
SYMMETRY IdSymmetry
INVARIANTS TypeOK DependenciesRespected CompletedHasEvidence ConfirmedGateCoversPhase CompletionIsEarned OneLiveAgent CancelledRunQuiesces StaleTaskStopsRun
PROPERTIES LeavingCompletedInvalidates
CHECK_DEADLOCK FALSE
