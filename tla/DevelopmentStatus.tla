-------------------------- MODULE DevelopmentStatus --------------------------
(***************************************************************************)
(* The status tables of packages/development-domain/src/state-machine.ts,  *)
(* shared by the development aggregate and by the checkpoint that carries  *)
(* one.                                                                    *)
(***************************************************************************)

RunTransitions ==
  [ validating_input   |-> {"ready", "failed", "cancelled"},
    ready              |-> {"running", "stale", "cancelled"},
    running            |-> {"awaiting_user_gate", "paused", "needs_user_action",
                            "stale", "completed", "failed", "cancelled"},
    awaiting_user_gate |-> {"running", "stale", "cancelled"},
    paused             |-> {"running", "needs_user_action", "stale", "cancelled"},
    needs_user_action  |-> {"running", "stale", "failed", "cancelled"},
    stale              |-> {"cancelled"},
    completed          |-> {"running", "stale"},
    failed             |-> {},
    cancelled          |-> {} ]

PhaseTransitions ==
  [ pending       |-> {"ready", "stale", "cancelled"},
    ready         |-> {"running", "stale", "cancelled"},
    running       |-> {"awaiting_gate", "completed", "blocked", "stale", "cancelled"},
    awaiting_gate |-> {"running", "completed", "stale", "cancelled"},
    completed     |-> {"running", "stale"},
    blocked       |-> {"running", "stale", "cancelled"},
    stale         |-> {"running", "cancelled"},
    cancelled     |-> {} ]

TaskTransitions ==
  [ pending                 |-> {"ready", "cancelled", "stale"},
    ready                   |-> {"assembling_context", "cancelled", "stale"},
    assembling_context      |-> {"generating_change", "blocked", "failed",
                                 "cancelled", "stale"},
    generating_change       |-> {"awaiting_patch_approval", "applying_patch",
                                 "blocked", "failed", "cancelled", "stale"},
    awaiting_patch_approval |-> {"applying_patch", "cancelled", "stale"},
    applying_patch          |-> {"verifying", "failed", "rolled_back", "stale"},
    verifying               |-> {"completed", "repairing", "blocked", "failed",
                                 "rolled_back", "stale"},
    repairing               |-> {"applying_patch", "verifying", "blocked", "failed",
                                 "rolled_back", "stale"},
    completed               |-> {"assembling_context", "stale"},
    blocked                 |-> {"ready", "cancelled", "stale"},
    failed                  |-> {"ready", "cancelled", "stale"},
    rolled_back             |-> {"ready", "cancelled", "stale"},
    cancelled               |-> {},
    stale                   |-> {"ready", "cancelled"} ]

AgentTransitions ==
  [ ready     |-> {"running", "cancelled", "stale"},
    running   |-> {"completed", "failed", "cancelled", "stale"},
    completed |-> {"stale"},
    failed    |-> {},
    cancelled |-> {},
    stale     |-> {} ]

RunStatus == DOMAIN RunTransitions
PhaseStatus == DOMAIN PhaseTransitions
TaskStatus == DOMAIN TaskTransitions
AgentStatus == DOMAIN AgentTransitions

(* updateRunStatus, updatePhaseStatus, updateTaskStatus, updateAgentStatus: *)
(* a move the table does not list is silently dropped.                      *)
Moved(table, from, to) == IF to \in table[from] THEN to ELSE from
=============================================================================
