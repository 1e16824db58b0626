-------------------------- MODULE MCDevelopmentRun --------------------------
(***************************************************************************)
(* An instance of DevelopmentRun for TLC: two phases with one task each,   *)
(* the second depending on the first, whose gate asks for a test report.   *)
(***************************************************************************)
EXTENDS DevelopmentRun, TLC

CONSTANTS design, delivery, spec, ship, gate, specTest, shipTest, testReport

TwoPhases == {design, delivery}
PhaseOrder == design :> 0 @@ delivery :> 1
PhaseChain == design :> {} @@ delivery :> {design}
OneGate == {gate}
AfterDesign == gate :> design
WantsReport == gate :> {testReport}
Reports == {testReport}

PairTasks == {spec, ship}
PairSteps == {specTest, shipTest}
PairPhase == spec :> design @@ ship :> delivery
PairDependencies == spec :> {} @@ ship :> {spec}
PairOrder == spec :> 0 @@ ship :> 1
PairStepTask == specTest :> spec @@ shipTest :> ship
PairStepType == [s \in PairSteps |-> testReport]

IdSymmetry == Permutations(Agent) \cup Permutations(EvidenceId) \cup Permutations(Model)
=============================================================================
