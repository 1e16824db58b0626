------------------------- MODULE MCDevelopmentDriver -------------------------
(***************************************************************************)
(* A plan with a fork: delivery and release both depend on design only.    *)
(* Design holds spec and, independent of it, survey, and is closed by two  *)
(* gates; ship needs both of them, audit needs spec.                       *)
(***************************************************************************)
EXTENDS DevelopmentDriver, TLC

CONSTANTS design, delivery, release, spec, survey, ship, audit, scope, budget,
          specTest, specLint, surveyLog, shipTest, auditLog, testReport, runtimeLog

ForkPhases == {design, delivery, release}
ForkTasks == {spec, survey, ship, audit}
ForkGates == {scope, budget}
ForkSteps == {specTest, specLint, surveyLog, shipTest, auditLog}
ForkTaskPhase == spec :> design @@ survey :> design @@ ship :> delivery @@ audit :> release
ForkDependencies == spec :> {} @@ survey :> {} @@ ship :> {spec, survey} @@ audit :> {spec}
ForkPhaseDependencies == design :> {} @@ delivery :> {design} @@ release :> {design}
ForkTaskRank == survey :> 0 @@ spec :> 1 @@ audit :> 2 @@ ship :> 3
ForkPhaseRank == design :> 0 @@ delivery :> 1 @@ release :> 2
ForkGatePhase == scope :> design @@ budget :> design
ForkGateTypes == scope :> {testReport} @@ budget :> {runtimeLog}
ForkStepTask == specTest :> spec @@ specLint :> spec @@ surveyLog :> survey
                @@ shipTest :> ship @@ auditLog :> audit
ForkRequired == ForkSteps \ {specLint}
ForkTypes == {testReport, runtimeLog}
ForkStepType == [s \in ForkSteps |->
  IF s \in {surveyLog, auditLog} THEN runtimeLog ELSE testReport]
=============================================================================
