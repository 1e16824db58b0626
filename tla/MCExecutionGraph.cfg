SPECIFICATION Spec
CONSTANTS
  PhaseCount = 2
  TaskCount = 3
  MaxDependencies = 4
  gate1 = gate1  gate2 = gate2
  Gate = {gate1, gate2}
  MaxGates = 2
SYMMETRY MCSymmetry
INVARIANTS HelpersAreExact CyclesAreFound ApprovedIsExecutable
INVARIANTS AcceptedPlanIsOrdered RunIsNeverStuck RefusalsAreExplained
CHECK_DEADLOCK FALSE
