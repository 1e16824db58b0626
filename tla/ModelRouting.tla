----------------------------- MODULE ModelRouting -----------------------------
(***************************************************************************)
(* Which model an agent run uses: the selection of resolveModelRoute, the  *)
(* capabilities it is refused for, the fallback that may replace it, and   *)
(* what becomes of a provider's answer on its way through its adapter.     *)
(***************************************************************************)
EXTENDS Integers, FiniteSets

CONSTANTS
  Profile,        \* model profile identifiers
  NoProfile,
  Provider,       \* [Profile -> provider type]
  Registered,     \* provider types that have an adapter
  Capability,     \* structuredOutput, toolCalling, vision, localOnly
  Capabilities,   \* [Profile -> SUBSET Capability]
  Window,         \* [Profile -> Nat], 0 for an undeclared context window
  Required,       \* capabilities a route request demands
  MinimumWindow, ContextTokens

ProviderType == {"deterministic", "ollama", "openai_compatible"}

ASSUME RoutingAssumption ==
  /\ NoProfile \notin Profile
  /\ Provider \in [Profile -> ProviderType] /\ Registered \subseteq ProviderType
  /\ Capabilities \in [Profile -> SUBSET Capability] /\ Required \subseteq Capability
  /\ Window \in [Profile -> Nat] /\ MinimumWindow \in Nat /\ ContextTokens \in Nat

\* A policy as modelPolicySchema accepts it, for the one stage that repairs:
\* fallback is NoProfile when the policy is to pause.
Policy == [applicationDefault : Profile, projectDefault : Profile \cup {NoProfile},
           stageOverride : Profile \cup {NoProfile},
           fallback : Profile \cup {NoProfile}]

SelectionSource == {"run_override", "stage_override", "project_default",
                    "application_default", "fallback"}

\* selectProfile.  A run override may name a profile the policy lacks.
Selected(policy, override) ==
  CASE override # NoProfile -> [profile |-> override, source |-> "run_override"]
    [] override = NoProfile /\ policy.stageOverride # NoProfile ->
         [profile |-> policy.stageOverride, source |-> "stage_override"]
    [] override = NoProfile /\ policy.stageOverride = NoProfile
       /\ policy.projectDefault # NoProfile ->
         [profile |-> policy.projectDefault, source |-> "project_default"]
    [] OTHER -> [profile |-> policy.applicationDefault,
                 source |-> "application_default"]

\* capabilityFailure finds nothing to refuse.
Capable(p) ==
  /\ Required \subseteq Capabilities[p]
  /\ Window[p] >= MinimumWindow /\ Window[p] >= ContextTokens /\ Window[p] > 0

\* resolveModelRoute is ready.
RouteIsReady(policy, override) ==
  LET p == Selected(policy, override).profile IN p \in Profile /\ Capable(p)

HasAdapter(p) == Provider[p] \in Registered

FailureCode == {"unavailable", "timeout", "authentication_failed",
                "invalid_response", "configuration_error"}

\* What meets a provider call: an answer, a refused credential, an abort or a
\* gateway timeout, a server or a transport that fails, an answer that is not
\* the one asked for, a reference that cannot be resolved.
Fate == {"answered", "refused", "late", "down", "garbled", "unresolved"}

Fates(p) == IF Provider[p] = "deterministic" THEN {"answered"} ELSE Fate

FailureOf(fate) ==
  CASE fate = "refused"    -> "authentication_failed"
    [] fate = "late"       -> "timeout"
    [] fate = "down"       -> "unavailable"
    [] fate = "garbled"    -> "invalid_response"
    [] fate = "unresolved" -> "configuration_error"

\* a slip: a fallback is offered for any failure.
FallsBackOnAnything(policy, p, code) ==
  policy.fallback \notin {NoProfile, p}

\* canFallback of invoke.
CanFallback(policy, p, code) ==
  code \in {"unavailable", "timeout"} /\ policy.fallback \notin {NoProfile, p}

\* A fallback profile that is checked again and found fit.
FallbackIsReady(policy) == Capable(policy.fallback)
=============================================================================
