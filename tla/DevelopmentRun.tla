--------------------------- MODULE DevelopmentRun ---------------------------
(***************************************************************************)
(* The development aggregate of packages/development-domain: one run over  *)
(* an approved execution plan, with its phases, tasks, agent runs, repair  *)
(* attempts, evidence, gate decisions and invalidations.                   *)
(*                                                                         *)
(* A command of aggregate.ts is one action.  A rejected command and a      *)
(* replayed request leave every variable alone (only the receipt map grows,*)
(* which modules CheckpointStore and DevelopmentLab cover), so both are    *)
(* stuttering steps here.                                                  *)
(*                                                                         *)
(* What is abstracted: revisions, timestamps, the transition history and   *)
(* all hashes.  An evidence record keeps its step, model snapshot, outcome,*)
(* artifact and the workspace it was taken on (workspaceHash together with *)
(* patchJournalEntryId, which the code compares side by side).             *)
(***************************************************************************)
EXTENDS Naturals, FiniteSets, DevelopmentStatus

CONSTANTS
  Phase, Task, Gate,        \* the approved ExecutionPlanVersion
  TaskPhase,                \* graph.taskPhase
  TaskDependencies,         \* graph.taskDependencies
  PhaseDependencies,        \* graph.phaseDependencies
  TaskRank, PhaseRank,      \* positions in graph.taskOrder / graph.phaseOrder
  GatePhase, GateTypes,     \* afterPhaseId and requiredEvidenceTypes of a gate
  Step, StepTask,           \* verification steps and the task that owns each
  RequiredSteps,            \* the steps whose `required` flag is set
  EvidenceType, StepType,   \* evidence type of a step, after mappedEvidenceType
  Model,                    \* model snapshot ids
  Agent, EvidenceId,        \* ids callers may issue; each is used once
  Artifact, Workspace,      \* artifact hashes and workspace states of evidence
  MaxAttempts,              \* command.maxAttempts of beginRepair
  NoModel, NoAgent, NoTask, NoPhase

(* What validateDevelopmentGraph guarantees of every accepted plan: ranks   *)
(* are a topological order, and a task depends on tasks of its own phase or *)
(* of phases ordered before it.                                             *)
ASSUME PlanAssumption ==
  /\ TaskPhase \in [Task -> Phase]
  /\ TaskDependencies \in [Task -> SUBSET Task]
  /\ PhaseDependencies \in [Phase -> SUBSET Phase]
  /\ TaskRank \in [Task -> Nat] /\ PhaseRank \in [Phase -> Nat]
  /\ \A t, u \in Task : TaskRank[t] = TaskRank[u] => t = u
  /\ \A p, q \in Phase : PhaseRank[p] = PhaseRank[q] => p = q
  /\ \A t \in Task : \A d \in TaskDependencies[t] :
       /\ TaskRank[d] < TaskRank[t]
       /\ PhaseRank[TaskPhase[d]] <= PhaseRank[TaskPhase[t]]
  /\ \A p \in Phase : \A d \in PhaseDependencies[p] : PhaseRank[d] < PhaseRank[p]

ASSUME ContentAssumption ==
  /\ GatePhase \in [Gate -> Phase]
  /\ GateTypes \in [Gate -> SUBSET EvidenceType]
  /\ StepTask \in [Step -> Task]
  /\ RequiredSteps \subseteq Step
  /\ StepType \in [Step -> EvidenceType]
  /\ MaxAttempts \in Nat
  /\ NoModel \notin Model /\ NoAgent \notin Agent
  /\ NoTask \notin Task /\ NoPhase \notin Phase

VARIABLES
  runStatus,      \* run.status
  current,        \* run.currentPhaseRunId and run.currentTaskRunId
  phaseStatus,    \* phaseRuns[p].status
  taskStatus,     \* taskRuns[t].status
  taskModel,      \* taskRuns[t].modelSnapshotId
  taskAgent,      \* the last entry of taskRuns[t].agentRunIds
  taskEvidence,   \* taskRuns[t].evidenceIds
  agentTask,      \* agentRuns[a].taskRunId, NoTask for an id never issued
  agentStatus,    \* agentRuns[a].status
  repairHistory,  \* repairHistory: one attempt per repair agent
  evidence,       \* evidenceHistory
  invalidated,    \* evidence ids named by invalidationHistory
  confirmed,      \* gates with a decision that no invalidation names
  reopened        \* history: completed tasks that transitionTask took up again
                  \* and that were neither completed nor invalidated since

taskVars == <<taskStatus, taskModel, taskAgent, taskEvidence>>
agentVars == <<agentTask, agentStatus>>
evidenceVars == <<evidence, invalidated, confirmed>>
vars == <<runStatus, current, phaseStatus, taskVars, agentVars, repairHistory,
          evidenceVars, reopened>>

-----------------------------------------------------------------------------
(* Types.                                                                   *)

Outcome == {"passed", "verification_failed", "unrepairable"}
Evidence == [id : EvidenceId, step : Step, model : Model, outcome : Outcome,
             artifact : Artifact, workspace : Workspace]
Fingerprint == [step : Step, artifact : Artifact]
AttemptStatus == {"proposed", "patch_applied", "verification_failed", "verified"}
Attempt == [agent : Agent, fingerprint : Fingerprint, status : AttemptStatus]

TypeOK ==
  /\ runStatus \in RunStatus
  /\ current \in [phase : Phase \cup {NoPhase}, task : Task \cup {NoTask}]
  /\ phaseStatus \in [Phase -> PhaseStatus]
  /\ taskStatus \in [Task -> TaskStatus]
  /\ taskModel \in [Task -> Model \cup {NoModel}]
  /\ taskAgent \in [Task -> Agent \cup {NoAgent}]
  /\ taskEvidence \in [Task -> SUBSET EvidenceId]
  /\ agentTask \in [Agent -> Task \cup {NoTask}]
  /\ agentStatus \in [Agent -> AgentStatus]
  /\ repairHistory \subseteq Attempt
  /\ evidence \subseteq Evidence
  /\ invalidated \subseteq EvidenceId
  /\ confirmed \subseteq Gate
  /\ reopened \subseteq Task

-----------------------------------------------------------------------------
(* The plan graph.                                                          *)

PhaseTasks(p) == {t \in Task : TaskPhase[t] = p}
PhaseGates(p) == {g \in Gate : GatePhase[g] = p}
StepsOf(t) == {s \in RequiredSteps : StepTask[s] = t}

(* A slip: the tasks downstream of the roots are forgotten.                 *)
RootsOnly(roots) == roots

(* dependentTaskIds: the roots and everything downstream of them, as the    *)
(* least set of tasks that holds the roots and every task that depends on a *)
(* member.                                                                  *)
ClosedDownstream(S) ==
  \A t \in Task : TaskDependencies[t] \cap S # {} => t \in S

DependentTasks(roots) ==
  {t \in Task : \A S \in SUBSET Task :
                  (roots \subseteq S /\ ClosedDownstream(S)) => t \in S}

PhasesOf(tasks) == {TaskPhase[t] : t \in tasks}

-----------------------------------------------------------------------------
(* Evidence.                                                                *)

ValidEvidence == {e \in evidence : e.id \notin invalidated}
TaskOf(e) == StepTask[e.step]

(* A slip: evidence of an earlier model counts.                             *)
MatchesAnyModel(t, ids) ==
  LET selected == {e \in ValidEvidence : e.id \in ids}
  IN /\ selected # {}
     /\ \A e, f \in selected : e.workspace = f.workspace
     /\ \A s \in StepsOf(t) : \E e \in selected : e.step = s /\ e.outcome = "passed"

(* requiredEvidenceMatches: the ids a caller submits must name valid        *)
(* evidence taken on a single workspace, and prove every required step for  *)
(* the task's current model snapshot.  Ids that name nothing are ignored.   *)
RequiredEvidenceMatches(t, ids) ==
  LET selected == {e \in ValidEvidence : e.id \in ids}
  IN /\ taskModel[t] # NoModel
     /\ selected # {}
     /\ \A e, f \in selected : e.workspace = f.workspace
     /\ \A s \in StepsOf(t) : \E e \in selected :
          e.step = s /\ e.model = taskModel[t] /\ e.outcome = "passed"

(* allRequiredTaskEvidencePresent, over the ids kept by each task.          *)
AllRequiredTaskEvidencePresent(p, kept) ==
  \A t \in PhaseTasks(p) : \A s \in StepsOf(t) : \E e \in ValidEvidence :
    e.id \in kept[t] /\ e.step = s /\ e.outcome = "passed"

GateEvidenceSatisfied(g) ==
  \A type \in GateTypes[g] : \E e \in ValidEvidence :
    /\ TaskPhase[TaskOf(e)] = GatePhase[g]
    /\ StepType[e.step] = type
    /\ e.outcome = "passed"

-----------------------------------------------------------------------------
(* Scheduling.  A schedule holds the statuses the helpers of aggregate.ts   *)
(* thread through a command.                                                *)

Schedule == [run |-> runStatus, current |-> current,
             phase |-> phaseStatus, task |-> taskStatus]

Adopt(s) == /\ runStatus' = s.run
            /\ current' = s.current
            /\ phaseStatus' = s.phase
            /\ taskStatus' = s.task

MoveRun(s, to) == [s EXCEPT !.run = Moved(RunTransitions, s.run, to)]

(* A slip: only a running phase moves.                                      *)
MoveRunningPhase(s, p, to) == IF s.phase[p] = "running" THEN [s EXCEPT !.phase[p] = to] ELSE s

MovePhase(s, p, to) ==
  [s EXCEPT !.phase[p] = Moved(PhaseTransitions, s.phase[p], to)]

DependenciesComplete(status, t) ==
  \A d \in TaskDependencies[t] : status[d] = "completed"

AllPhaseTasksCompleted(s, p) == \A t \in PhaseTasks(p) : s.task[t] = "completed"

First(S, rank) == CHOOSE x \in S : \A y \in S : rank[x] <= rank[y]

(* A slip: every runnable task of the phase is made ready.                  *)
ActivateAllRunnable(s, p) ==
  [s EXCEPT !.phase[p] = "running",
            !.task = [t \in Task |->
               IF t \in PhaseTasks(p) /\ s.task[t] = "pending" /\ DependenciesComplete(s.task, t)
               THEN "ready" ELSE s.task[t]]]

(* activatePhaseAndTask: start the phase if it has not started, and make    *)
(* its first runnable pending task ready.                                   *)
ActivatePhaseAndTask(s, p) ==
  LET started == IF s.phase[p] \in {"pending", "ready"}
                 THEN [s EXCEPT !.phase[p] = "running"] ELSE s
      runnable == {t \in PhaseTasks(p) :
                     s.task[t] = "pending" /\ DependenciesComplete(s.task, t)}
      next == First(runnable, TaskRank)
  IN IF runnable = {} THEN started
     ELSE [started EXCEPT !.task[next] = "ready",
                          !.current = [phase |-> p, task |-> next]]

ActivateNextPhase(s) ==
  LET startable == {p \in Phase :
        /\ s.phase[p] = "pending"
        /\ \A d \in PhaseDependencies[p] : s.phase[d] = "completed"}
  IN IF startable = {} THEN s
     ELSE ActivatePhaseAndTask(s, First(startable, PhaseRank))

(* A slip: some completed phase is taken for all of them.                   *)
CompleteRunOnAnyPhase(s) ==
  IF \E p \in Phase : s.phase[p] = "completed" THEN MoveRun(s, "completed") ELSE s

CompleteRunIfDone(s) ==
  IF \A p \in Phase : s.phase[p] = "completed" THEN MoveRun(s, "completed") ELSE s

(* progressAfterTaskCompletion.                                             *)
ProgressAfterTaskCompletion(s, t, kept) ==
  LET p == TaskPhase[t]
  IN IF ~AllPhaseTasksCompleted(s, p) THEN ActivatePhaseAndTask(s, p)
     ELSE IF ~AllRequiredTaskEvidencePresent(p, kept)
     THEN MoveRun(s, "needs_user_action")
     ELSE IF PhaseGates(p) # {}
     THEN LET waiting == MovePhase(s, p, "awaiting_gate")
          IN IF "awaiting_user_gate" \in RunTransitions[s.run]
             THEN [waiting EXCEPT !.run = "awaiting_user_gate", !.current.phase = p]
             ELSE waiting
     ELSE CompleteRunIfDone(ActivateNextPhase(MovePhase(s, p, "completed")))

(* The status change of a set of agent runs, where their table allows it.   *)
MoveAgents(agents, to) ==
  [a \in Agent |-> IF a \in agents
                   THEN Moved(AgentTransitions, agentStatus[a], to)
                   ELSE agentStatus[a]]

(* A slip: agents that have not started are overlooked.                     *)
RunningAgentsOf(tasks) == {a \in Agent : agentTask[a] \in tasks /\ agentStatus[a] = "running"}
AgentsOf(tasks) == {a \in Agent : agentTask[a] \in tasks}
Unissued(a) == agentTask[a] = NoTask

-----------------------------------------------------------------------------
(* createDevelopmentAggregate.                                              *)
Init ==
  /\ runStatus = "ready"
  /\ current = [phase |-> NoPhase, task |-> NoTask]
  /\ phaseStatus = [p \in Phase |-> "pending"]
  /\ taskStatus = [t \in Task |-> "pending"]
  /\ taskModel = [t \in Task |-> NoModel]
  /\ taskAgent = [t \in Task |-> NoAgent]
  /\ taskEvidence = [t \in Task |-> {}]
  /\ agentTask = [a \in Agent |-> NoTask]
  /\ agentStatus = [a \in Agent |-> "ready"]
  /\ repairHistory = {}
  /\ evidence = {} /\ invalidated = {} /\ confirmed = {} /\ reopened = {}

StartDevelopmentRun ==
  /\ runStatus = "ready"
  /\ Adopt(ActivateNextPhase(MoveRun(Schedule, "running")))
  /\ UNCHANGED <<taskModel, taskAgent, taskEvidence, agentVars, repairHistory,
                 evidenceVars, reopened>>

BeginTask(t, m, a) ==
  /\ runStatus = "running"
  /\ taskStatus[t] = "ready"
  /\ DependenciesComplete(taskStatus, t)
  /\ Unissued(a)
  /\ taskStatus' = [taskStatus EXCEPT ![t] = "assembling_context"]
  /\ taskModel' = [taskModel EXCEPT ![t] = m]
  /\ taskAgent' = [taskAgent EXCEPT ![t] = a]
  /\ agentTask' = [agentTask EXCEPT ![a] = t]
  /\ agentStatus' = [agentStatus EXCEPT ![a] = "ready"]
  /\ UNCHANGED <<runStatus, current, phaseStatus, taskEvidence, repairHistory,
                 evidenceVars, reopened>>

UnderVerification(t) == taskStatus[t] \in {"verifying", "repairing"}
AttemptsOf(t) == {x \in repairHistory : agentTask[x.agent] = t}
StepFingerprint(e) == [step |-> e.step]  \* a slip: the artifact hash is left out
FingerprintOf(e) == [step |-> e.step, artifact |-> e.artifact]

(* beginRepair: only a plain verification failure of the current model may  *)
(* be repaired, within the budget and never twice for one fingerprint.      *)
BeginRepair(t, e, m, a) ==
  /\ runStatus = "running"
  /\ UnderVerification(t)
  /\ e \in ValidEvidence
  /\ e.outcome = "verification_failed"
  /\ TaskOf(e) = t /\ e.model = taskModel[t]
  /\ Cardinality(AttemptsOf(t)) < MaxAttempts
  /\ \A x \in AttemptsOf(t) : x.fingerprint # FingerprintOf(e)
  /\ Unissued(a)
  /\ taskStatus' = [taskStatus EXCEPT ![t] = "repairing"]
  /\ taskModel' = [taskModel EXCEPT ![t] = m]
  /\ taskAgent' = [taskAgent EXCEPT ![t] = a]
  /\ agentTask' = [agentTask EXCEPT ![a] = t]
  /\ agentStatus' = [MoveAgents({taskAgent[t]},
                       IF taskStatus[t] = "repairing" THEN "failed" ELSE "completed")
                     EXCEPT ![a] = "running"]
  /\ repairHistory' = repairHistory \cup
       {[agent |-> a, fingerprint |-> FingerprintOf(e), status |-> "proposed"]}
  /\ UNCHANGED <<runStatus, current, phaseStatus, taskEvidence, evidenceVars, reopened>>

RequireDevelopmentUserAction(t) ==
  /\ runStatus = "running"
  /\ UnderVerification(t)
  /\ runStatus' = "needs_user_action"
  /\ UNCHANGED <<current, phaseStatus, taskVars, agentVars, repairHistory,
                 evidenceVars, reopened>>

RecordRepairAttemptOutcome(x, to) ==
  /\ \/ x.status = "proposed" /\ to = "patch_applied"
     \/ x.status = "patch_applied" /\ to \in {"verification_failed", "verified"}
  /\ taskStatus[agentTask[x.agent]] = "repairing"
  /\ repairHistory' = (repairHistory \ {x}) \cup {[x EXCEPT !.status = to]}
  /\ agentStatus' = IF to = "verification_failed"
                    THEN MoveAgents({x.agent}, "failed") ELSE agentStatus
  /\ UNCHANGED <<runStatus, current, phaseStatus, taskVars, agentTask, evidenceVars,
                 reopened>>

(* transitionTask: the statuses a caller may not ask for belong to other    *)
(* commands; the agent follows when its own table lets it.  Taking up a     *)
(* completed task again (to assembling_context) is accepted whatever the    *)
(* status of the run, and resets neither its evidence nor its gates, its    *)
(* phase and its dependents.                                                *)
TransitionTask(t, to) ==
  /\ to \notin {"completed", "stale", "ready", "pending"}
  /\ to \in TaskTransitions[taskStatus[t]]
  /\ taskStatus' = [taskStatus EXCEPT ![t] = to]
  /\ reopened' = IF taskStatus[t] = "completed" THEN reopened \cup {t} ELSE reopened
  /\ agentStatus' = CASE to = "generating_change" -> MoveAgents({taskAgent[t]}, "running")
                      [] to = "failed" -> MoveAgents({taskAgent[t]}, "failed")
                      [] OTHER -> agentStatus
  /\ UNCHANGED <<runStatus, current, phaseStatus, taskModel, taskAgent, taskEvidence,
                 agentTask, repairHistory, evidenceVars>>

(* recordTaskEvidence: the type of the evidence is the type of its step.    *)
RecordTaskEvidence(e) ==
  /\ \A f \in evidence : f.id # e.id
  /\ UnderVerification(TaskOf(e))
  /\ e.model = taskModel[TaskOf(e)]
  /\ evidence' = evidence \cup {e}
  /\ UNCHANGED <<runStatus, current, phaseStatus, taskVars, agentVars, repairHistory,
                 invalidated, confirmed, reopened>>

CompleteTask(t, ids) ==
  /\ taskStatus[t] = "verifying"
  /\ RequiredEvidenceMatches(t, ids)
  /\ taskEvidence' = [taskEvidence EXCEPT ![t] = ids]
  /\ agentStatus' = MoveAgents({taskAgent[t]}, "completed")
  /\ Adopt(ProgressAfterTaskCompletion(
       [Schedule EXCEPT !.task[t] = "completed"], t, taskEvidence'))
  /\ reopened' = reopened \ {t}
  /\ UNCHANGED <<taskModel, taskAgent, agentTask, repairHistory, evidenceVars>>

(* confirmPhaseGate: the last gate of a phase completes it and moves on.    *)
ConfirmPhaseGate(g) ==
  LET p == GatePhase[g]
      phaseDone == CompleteRunIfDone(ActivateNextPhase(
                     MoveRun(MovePhase(Schedule, p, "completed"), "running")))
  IN /\ g \notin confirmed
     /\ phaseStatus[p] = "awaiting_gate"
     /\ runStatus = "awaiting_user_gate"
     /\ AllPhaseTasksCompleted(Schedule, p)
     /\ AllRequiredTaskEvidencePresent(p, taskEvidence)
     /\ GateEvidenceSatisfied(g)
     /\ confirmed' = confirmed \cup {g}
     /\ Adopt(IF PhaseGates(p) \subseteq confirmed' THEN phaseDone ELSE Schedule)
     /\ UNCHANGED <<taskModel, taskAgent, taskEvidence, agentVars, repairHistory,
                    evidence, invalidated, reopened>>

(* Two slips: gate decisions, or evidence, survive the invalidation.        *)
InvalidateEvidenceOnly(affected) ==
  /\ invalidated' = invalidated \cup {e.id : e \in {f \in evidence : TaskOf(f) \in affected}}
  /\ UNCHANGED <<evidence, confirmed>>

InvalidateGatesOnly(affected) ==
  /\ confirmed' = {g \in confirmed : GatePhase[g] \notin PhasesOf(affected)}
  /\ UNCHANGED <<evidence, invalidated>>

(* What both invalidating commands do to the histories of affected tasks.   *)
InvalidateHistory(affected) ==
  /\ invalidated' = invalidated \cup {e.id : e \in {f \in evidence : TaskOf(f) \in affected}}
  /\ confirmed' = {g \in confirmed : GatePhase[g] \notin PhasesOf(affected)}
  /\ UNCHANGED evidence

(* markPlanningRevision: the roots named by the revision, or every task for *)
(* a revised project spec.                                                  *)
MarkPlanningRevision(roots) ==
  LET affected == DependentTasks(roots)
  IN /\ runStatus \notin {"failed", "cancelled", "stale"}
     /\ roots # {}
     /\ InvalidateHistory(affected)
     /\ taskStatus' = [t \in Task |-> IF t \in affected
          THEN Moved(TaskTransitions, taskStatus[t], "stale") ELSE taskStatus[t]]
     /\ phaseStatus' = [p \in Phase |-> IF p \in PhasesOf(affected)
          THEN Moved(PhaseTransitions, phaseStatus[p], "stale") ELSE phaseStatus[p]]
     /\ agentStatus' = MoveAgents(AgentsOf(affected), "stale")
     /\ runStatus' = Moved(RunTransitions, runStatus, "stale")
     /\ reopened' = reopened \ affected
     /\ UNCHANGED <<current, taskModel, taskAgent, taskEvidence, agentTask,
                    repairHistory>>

(* rerunTaskWithModel: the root restarts under the new model, everything    *)
(* downstream goes back to pending whatever it was doing.                   *)
RerunTaskWithModel(root, m, a) ==
  LET affected == DependentTasks({root})
  IN /\ Unissued(a)
     /\ taskModel[root] # m
     /\ runStatus \in {"running", "completed", "awaiting_user_gate", "needs_user_action"}
     /\ taskStatus[root] \in {"completed", "failed", "blocked", "stale"}
     /\ InvalidateHistory(affected)
     /\ taskStatus' = [t \in Task |->
          IF t = root THEN "assembling_context"
          ELSE IF t \in affected THEN "pending" ELSE taskStatus[t]]
     /\ taskEvidence' = [t \in Task |-> IF t \in affected THEN {} ELSE taskEvidence[t]]
     /\ taskModel' = [taskModel EXCEPT ![root] = m]
     /\ taskAgent' = [taskAgent EXCEPT ![root] = a]
     /\ agentTask' = [agentTask EXCEPT ![a] = root]
     /\ agentStatus' = [MoveAgents(AgentsOf(affected), "stale") EXCEPT ![a] = "ready"]
     /\ phaseStatus' = [p \in Phase |->
          IF p = TaskPhase[root] THEN "running"
          ELSE IF p \in PhasesOf(affected) THEN "pending" ELSE phaseStatus[p]]
     /\ runStatus' = Moved(RunTransitions, runStatus, "running")
     /\ current' = [phase |-> TaskPhase[root], task |-> root]
     /\ reopened' = reopened \ affected
     /\ UNCHANGED repairHistory

(* controlDevelopmentRun.                                                   *)
PauseRun ==
  /\ "paused" \in RunTransitions[runStatus]
  /\ runStatus' = "paused"
  /\ UNCHANGED <<current, phaseStatus, taskVars, agentVars, repairHistory, evidenceVars,
                 reopened>>

(* A slip: any run that is not over resumes.                                *)
ResumeUnlessOver ==
  /\ runStatus \notin {"failed", "cancelled"}
  /\ runStatus' = "running"
  /\ UNCHANGED <<current, phaseStatus, taskVars, agentVars, repairHistory, evidenceVars,
                 reopened>>

ResumeRun ==
  /\ "running" \in RunTransitions[runStatus]
  /\ runStatus' = "running"
  /\ UNCHANGED <<current, phaseStatus, taskVars, agentVars, repairHistory, evidenceVars,
                 reopened>>

CancelRun ==
  /\ "cancelled" \in RunTransitions[runStatus]
  /\ runStatus' = "cancelled"
  /\ phaseStatus' = [p \in Phase |-> Moved(PhaseTransitions, phaseStatus[p], "cancelled")]
  /\ taskStatus' = [t \in Task |-> Moved(TaskTransitions, taskStatus[t], "cancelled")]
  /\ agentStatus' = MoveAgents(AgentsOf(Task), "cancelled")
  /\ UNCHANGED <<current, taskModel, taskAgent, taskEvidence, agentTask,
                 repairHistory, evidenceVars, reopened>>

-----------------------------------------------------------------------------
Next ==
  \/ StartDevelopmentRun
  \/ \E t \in Task, m \in Model, a \in Agent : BeginTask(t, m, a)
  \/ \E t \in Task, e \in evidence, m \in Model, a \in Agent : BeginRepair(t, e, m, a)
  \/ \E t \in Task : RequireDevelopmentUserAction(t)
  \/ \E x \in repairHistory, to \in AttemptStatus : RecordRepairAttemptOutcome(x, to)
  \/ \E t \in Task, to \in TaskStatus : TransitionTask(t, to)
  \/ \E e \in Evidence : RecordTaskEvidence(e)
  \/ \E t \in Task, ids \in SUBSET EvidenceId : CompleteTask(t, ids)
  \/ \E g \in Gate : ConfirmPhaseGate(g)
  \/ \E roots \in SUBSET Task : MarkPlanningRevision(roots)
  \/ \E t \in Task, m \in Model, a \in Agent : RerunTaskWithModel(t, m, a)
  \/ PauseRun \/ ResumeRun \/ CancelRun

Spec == Init /\ [][Next]_vars

-----------------------------------------------------------------------------
(* Safety.                                                                  *)

(* What transitionTask can undo: it takes up a completed task again without *)
(* telling anything that rests on it.  The properties below say that nothing*)
(* else does, for any mix of commands.                                      *)
CompletedOrReopened(t) == taskStatus[t] = "completed" \/ t \in reopened
WorkDone(p) == \A t \in PhaseTasks(p) : CompletedOrReopened(t)

(* A task that has been made ready, is being worked on or is done has all   *)
(* its dependencies done, through any mix of reruns, planning revisions,    *)
(* cancellation and concurrent work (taskDependenciesComplete), except for  *)
(* dependencies that transitionTask took up again.                          *)
DependenciesRespected ==
  \A t \in Task : taskStatus[t] \notin {"pending", "stale", "cancelled"} =>
    \A d \in TaskDependencies[t] : CompletedOrReopened(d)

(* A completed task keeps, for every required step, evidence that passed,   *)
(* is still valid and belongs to its current model snapshot, all of it from *)
(* one workspace state (ADR 014).  Evidence recorded later under an id the  *)
(* task also submitted cannot take that away.                               *)
CompletedHasEvidence ==
  \A t \in Task : taskStatus[t] = "completed" =>
    \E w \in Workspace : \A s \in StepsOf(t) : \E e \in ValidEvidence :
      /\ e.id \in taskEvidence[t] /\ e.step = s /\ e.workspace = w
      /\ e.model = taskModel[t] /\ e.outcome = "passed"

(* A user's confirmation of a gate never outlives the work it confirmed:    *)
(* while the decision counts, every task of the gate's phase is completed,  *)
(* or was and has been taken up again by transitionTask.                    *)
ConfirmedGateCoversPhase == \A g \in confirmed : WorkDone(GatePhase[g])

(* A completed phase has all its tasks completed and all its gates          *)
(* confirmed, and a completed run has only completed phases: nothing is     *)
(* reported done on the strength of work that was since invalidated.  Only a*)
(* task taken up again by transitionTask leaves its phase and run completed.*)
CompletionIsEarned ==
  /\ \A p \in Phase : phaseStatus[p] = "completed" =>
       WorkDone(p) /\ PhaseGates(p) \subseteq confirmed
  /\ runStatus = "completed" => \A p \in Phase : phaseStatus[p] = "completed"

(* Reruns, repairs and failures hand a task from one agent run to the next: *)
(* at any time at most the latest agent run of a task can still act.        *)
OneLiveAgent ==
  \A a \in Agent : (~Unissued(a) /\ agentStatus[a] \in {"ready", "running"}) =>
    taskAgent[agentTask[a]] = a

(* After cancellation no agent run is live and no task can be begun, even   *)
(* when work that was in flight still reports and completes; the one way    *)
(* back into work is transitionTask on a completed task, and no agent run   *)
(* follows it.                                                              *)
CancelledRunQuiesces ==
  runStatus = "cancelled" =>
    /\ \A a \in Agent : ~Unissued(a) => agentStatus[a] \notin {"ready", "running"}
    /\ \A t \in Task : taskStatus[t] \notin {"pending", "ready"}
    /\ \A t \in Task :
         taskStatus[t] \in {"assembling_context", "generating_change"} => t \in reopened

(* A task is stale only in a run that a planning revision made stale, so no *)
(* command ever works on an outdated plan's tasks in a live run.            *)
StaleTaskStopsRun ==
  (\E t \in Task : taskStatus[t] = "stale") => runStatus \in {"stale", "cancelled"}

(* A completed task leaves that status only together with the evidence it   *)
(* was completed on (ADR 014: explicit invalidation resets), unless         *)
(* transitionTask takes it up again; that step changes nothing else that    *)
(* rests on the task, and the next completion may use the old evidence.     *)
LeavingCompletedInvalidates ==
  [][\A t \in Task : (taskStatus[t] = "completed" /\ taskStatus'[t] # "completed") =>
      \/ \A e \in evidence : TaskOf(e) = t => e.id \in invalidated'
      \/ /\ taskStatus'[t] = "assembling_context" /\ t \in reopened'
         /\ UNCHANGED <<runStatus, phaseStatus, evidenceVars, agentVars>>]_vars

(* Work on the tasks of a run is serial: at most one task is past ready and *)
(* not at rest.                                                             *)
AtWork(t) == taskStatus[t] \in
  {"ready", "assembling_context", "generating_change", "awaiting_patch_approval",
   "applying_patch", "verifying", "repairing"}
SerialWork == \A t, u \in Task : AtWork(t) /\ AtWork(u) => t = u
=============================================================================
