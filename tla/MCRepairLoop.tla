----------------------------- MODULE MCRepairLoop -----------------------------
EXTENDS RepairLoop, TLC

CONSTANTS local, remote, small, tools, json, failure1, failure2, failure3

\* A local model, a remote one, and one whose context window is too small.
MCProvider == local :> "ollama" @@ remote :> "openai_compatible" @@ small :> "ollama"
MCCapabilities == local :> {json} @@ remote :> {json, tools} @@ small :> {json}
MCWindow == local :> 2 @@ remote :> 3 @@ small :> 1
MCRegistered == {"ollama", "openai_compatible"}

\* The last step is one the plan does not require.
MCSteps == <<"command", "manual", "manual">>
MCOptional == {3}

\* The policies name each other's selection as fallback.
MCPolicies ==
  {[applicationDefault |-> local, projectDefault |-> NoProfile,
    stageOverride |-> NoProfile, fallback |-> remote],
   [applicationDefault |-> small, projectDefault |-> local,
    stageOverride |-> remote, fallback |-> local]}
=============================================================================
