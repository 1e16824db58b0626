SPECIFICATION DriverSpec
CONSTANTS
  design = design  delivery = delivery  release = release
  spec = spec  survey = survey  ship = ship  audit = audit
  scope = scope  budget = budget
  specTest = specTest  specLint = specLint  surveyLog = surveyLog
  shipTest = shipTest  auditLog = auditLog
  testReport = testReport  runtimeLog = runtimeLog
  Phase <- ForkPhases
  Task <- ForkTasks
  Gate <- ForkGates
  Step <- ForkSteps
  TaskPhase <- ForkTaskPhase
  TaskDependencies <- ForkDependencies
  PhaseDependencies <- ForkPhaseDependencies
  TaskRank <- ForkTaskRank
  PhaseRank <- ForkPhaseRank
  GatePhase <- ForkGatePhase
  GateTypes <- ForkGateTypes
  StepTask <- ForkStepTask
  RequiredSteps <- ForkRequired
  EvidenceType <- ForkTypes
  StepType <- ForkStepType
  Model = {m1, m2}
  Agent = {1, 2, 3, 4}
  EvidenceId = {1, 2, 3, 4}
  Artifact = {log}
  Workspace = {w1, w2}
  MaxAttempts = 2
  NoModel = NoModel  NoAgent = NoAgent  NoTask = NoTask  NoPhase = NoPhase
INVARIANTS SerialWork
PROPERTIES RunCompletes
CHECK_DEADLOCK FALSE
