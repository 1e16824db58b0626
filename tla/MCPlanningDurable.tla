-------------------------- MODULE MCPlanningDurable --------------------------
EXTENDS PlanningDurable, TLC

CONSTANTS h1, h2, approveSpec, approveDesign, approvePlan,
          returnSpec, returnDesign, cancel

Subjects == approveSpec :> "project_spec" @@ approveDesign :> "technical_design"
  @@ approvePlan :> "execution_plan" @@ returnSpec :> "project_spec"
  @@ returnDesign :> "technical_design" @@ cancel :> "project_spec"

SubjectsAsked == [r \in Request |-> Subjects[r]]

Symmetry == Permutations(Handler)
=============================================================================
