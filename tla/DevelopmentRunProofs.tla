------------------------ MODULE DevelopmentRunProofs ------------------------
(***************************************************************************)
(* Proofs about DevelopmentRun, for every plan that satisfies              *)
(* PlanAssumption and ContentAssumption and any number of models, agents   *)
(* and evidence ids.                                                       *)
(*                                                                         *)
(* Typing comes first.  Every other invariant rests on a split of the steps*)
(* (StepCases, StepKinds): a forward step changes one task at its own      *)
(* initiative and keeps what is completed, an invalidating step takes a    *)
(* downward closed set of tasks, DependentTasks(roots), out of completed   *)
(* together with its evidence, its gates and its phases.                   *)
(*                                                                         *)
(* The last sections are about who works on a run: a task never has two    *)
(* agent runs that can still act, a cancelled run has none and begins no   *)
(* task, and the driver (DevelopmentDriver) works on one task at a time.   *)
(***************************************************************************)
EXTENDS DevelopmentDriver, WellFoundedInduction, TLAPS

LEMMA NatMinimum ==
  ASSUME NEW S, S \subseteq Nat, S # {}
  PROVE  \E n \in S : \A m \in S : n <= m
<1> DEFINE R == {ss \in Nat \X Nat : ss[1] < ss[2]}
<1>1. IsWellFoundedOn(R, Nat)
  BY NatLessThanWellFounded DEF OpToRel
<1>2. PICK n \in S : \A m \in S : ~(<<m, n>> \in R)
  <2> HIDE DEF R
  <2> QED BY <1>1, WFMin
<1>3. ASSUME NEW m \in S PROVE n <= m
  <2>1. <<m, n>> \in R <=> m < n
    OBVIOUS
  <2> QED BY <1>2, <2>1
<1> QED BY <1>3

(* First picks a member of least rank.                                      *)
LEMMA FirstMember ==
  ASSUME NEW D, NEW rank \in [D -> Nat], NEW S \in SUBSET D, S # {}
  PROVE  First(S, rank) \in S
<1> DEFINE ranks == {rank[x] : x \in S}
<1>1. ranks \subseteq Nat /\ ranks # {}
  OBVIOUS
<1>2. PICK n \in ranks : \A m \in ranks : n <= m
  <2> HIDE DEF ranks
  <2> QED BY <1>1, NatMinimum
<1>3. \E x \in S : \A y \in S : rank[x] <= rank[y]
  BY <1>2
<1> QED BY <1>3, Zenon DEF First

-----------------------------------------------------------------------------
(* The shapes the scheduling helpers give a schedule.                       *)

ScheduleType ==
  [run : RunStatus, current : [phase : Phase \cup {NoPhase}, task : Task \cup {NoTask}],
   phase : [Phase -> PhaseStatus], task : [Task -> TaskStatus]]

LEMMA Statuses ==
  /\ RunStatus = {"validating_input", "ready", "running", "awaiting_user_gate",
                  "paused", "needs_user_action", "stale", "completed", "failed",
                  "cancelled"}
  /\ PhaseStatus = {"pending", "ready", "running", "awaiting_gate", "completed",
                    "blocked", "stale", "cancelled"}
  /\ TaskStatus = {"pending", "ready", "assembling_context", "generating_change",
                   "awaiting_patch_approval", "applying_patch", "verifying",
                   "repairing", "completed", "blocked", "failed", "rolled_back",
                   "cancelled", "stale"}
  /\ AgentStatus = {"ready", "running", "completed", "failed", "cancelled", "stale"}
<1>1. RunStatus = {"validating_input", "ready", "running", "awaiting_user_gate",
                  "paused", "needs_user_action", "stale", "completed", "failed",
                  "cancelled"}
  BY DEF RunStatus, RunTransitions
<1>2. PhaseStatus = {"pending", "ready", "running", "awaiting_gate", "completed",
                    "blocked", "stale", "cancelled"}
  BY DEF PhaseStatus, PhaseTransitions
<1>3. TaskStatus = {"pending", "ready", "assembling_context", "generating_change",
                   "awaiting_patch_approval", "applying_patch", "verifying",
                   "repairing", "completed", "blocked", "failed", "rolled_back",
                   "cancelled", "stale"}
  BY DEF TaskStatus, TaskTransitions
<1>4. AgentStatus = {"ready", "running", "completed", "failed", "cancelled", "stale"}
  BY DEF AgentStatus, AgentTransitions
<1> QED BY <1>1, <1>2, <1>3, <1>4

(* A move through a status table ends in a status of the table.             *)
LEMMA MovedStatus ==
  /\ \A from \in RunStatus : \A to : Moved(RunTransitions, from, to) \in RunStatus
  /\ \A from \in PhaseStatus : \A to : Moved(PhaseTransitions, from, to) \in PhaseStatus
  /\ \A from \in TaskStatus : \A to : Moved(TaskTransitions, from, to) \in TaskStatus
  /\ \A from \in AgentStatus : \A to : Moved(AgentTransitions, from, to) \in AgentStatus
<1>1. ASSUME NEW from \in RunStatus, NEW to PROVE Moved(RunTransitions, from, to) \in RunStatus
  BY Statuses DEF Moved, RunTransitions
<1>2. ASSUME NEW from \in PhaseStatus, NEW to PROVE Moved(PhaseTransitions, from, to) \in PhaseStatus
  BY Statuses DEF Moved, PhaseTransitions
<1>3. ASSUME NEW from \in TaskStatus, NEW to PROVE Moved(TaskTransitions, from, to) \in TaskStatus
  BY Statuses DEF Moved, TaskTransitions
<1>4. ASSUME NEW from \in AgentStatus, NEW to PROVE Moved(AgentTransitions, from, to) \in AgentStatus
  BY Statuses DEF Moved, AgentTransitions
<1> QED BY <1>1, <1>2, <1>3, <1>4

-----------------------------------------------------------------------------
(* What scheduling may do to the tasks: nothing, or make ready one pending  *)
(* task whose dependencies are all completed.                               *)
Readied(s, r) ==
  \/ r.task = s.task
  \/ \E n \in Task : /\ s.task[n] = "pending"
                     /\ DependenciesComplete(s.task, n)
                     /\ r.task = [s.task EXCEPT ![n] = "ready"]

SameCompletedPhases(s, r) ==
  \A p \in Phase : r.phase[p] = "completed" <=> s.phase[p] = "completed"

LEMMA ScheduleIsTyped == TypeOK => Schedule \in ScheduleType
  BY DEF TypeOK, Schedule, ScheduleType

LEMMA ActivatePhaseAndTaskSchedules ==
  ASSUME NEW s \in ScheduleType, NEW p \in Phase
  PROVE  LET r == ActivatePhaseAndTask(s, p)
         IN r \in ScheduleType /\ Readied(s, r) /\ SameCompletedPhases(s, r) /\ r.run = s.run
<1> DEFINE started == IF s.phase[p] \in {"pending", "ready"}
                      THEN [s EXCEPT !.phase[p] = "running"] ELSE s
           runnable == {t \in PhaseTasks(p) :
                          s.task[t] = "pending" /\ DependenciesComplete(s.task, t)}
           next == First(runnable, TaskRank)
<1>1. started \in ScheduleType /\ started.task = s.task /\ started.run = s.run
      /\ SameCompletedPhases(s, started)
  BY Statuses DEF ScheduleType, SameCompletedPhases
<1>2. CASE runnable = {}
  BY <1>1, <1>2 DEF ActivatePhaseAndTask, Readied
<1>3. CASE runnable # {}
  <2>1. runnable \in SUBSET Task
    BY DEF PhaseTasks
  <2>2. next \in runnable
    <3> HIDE DEF runnable
    <3> QED BY <1>3, <2>1, FirstMember, PlanAssumption
  <2> DEFINE r == [started EXCEPT !.task[next] = "ready",
                                  !.current = [phase |-> p, task |-> next]]
  <2>3. ActivatePhaseAndTask(s, p) = r
    BY <1>3 DEF ActivatePhaseAndTask
  <2>4. next \in Task /\ s.task[next] = "pending" /\ DependenciesComplete(s.task, next)
    BY <2>1, <2>2
  <2>5. /\ r \in ScheduleType /\ r.task = [s.task EXCEPT ![next] = "ready"]
        /\ r.phase = started.phase /\ r.run = s.run
    <3> HIDE DEF started, next
    <3> QED BY <1>1, <2>4, Statuses DEF ScheduleType
  <2> QED
    <3> HIDE DEF next, r, started
    <3> QED BY <1>1, <2>3, <2>4, <2>5 DEF Readied, SameCompletedPhases
<1> QED BY <1>2, <1>3

LEMMA ActivateNextPhaseSchedules ==
  ASSUME NEW s \in ScheduleType
  PROVE  LET r == ActivateNextPhase(s)
         IN r \in ScheduleType /\ Readied(s, r) /\ SameCompletedPhases(s, r) /\ r.run = s.run
<1> DEFINE startable == {p \in Phase :
      /\ s.phase[p] = "pending"
      /\ \A d \in PhaseDependencies[p] : s.phase[d] = "completed"}
<1>1. CASE startable = {}
  BY <1>1 DEF ActivateNextPhase, Readied, SameCompletedPhases
<1>2. CASE startable # {}
  <2>1. startable \in SUBSET Phase
    OBVIOUS
  <2>2. First(startable, PhaseRank) \in Phase
    <3>1. First(startable, PhaseRank) \in startable
      <4> HIDE DEF startable
      <4> QED BY <1>2, <2>1, FirstMember, PlanAssumption
    <3> QED BY <2>1, <3>1
  <2>3. ActivateNextPhase(s) = ActivatePhaseAndTask(s, First(startable, PhaseRank))
    BY <1>2 DEF ActivateNextPhase
  <2> QED
    <3> HIDE DEF startable
    <3> QED BY <2>2, <2>3, ActivatePhaseAndTaskSchedules
<1> QED BY <1>1, <1>2

(* Only a run whose phases are all completed is reported completed.         *)
LEMMA CompleteRunIfDoneSchedules ==
  ASSUME NEW s \in ScheduleType
  PROVE  LET r == CompleteRunIfDone(s)
         IN /\ r \in ScheduleType /\ r.task = s.task /\ r.phase = s.phase
            /\ \/ r.run = s.run
               \/ /\ r.run = "completed" /\ r.run \in RunTransitions[s.run]
                  /\ \A p \in Phase : r.phase[p] = "completed"
<1>1. Moved(RunTransitions, s.run, "completed") \in RunStatus
  BY MovedStatus DEF ScheduleType
<1>2. \/ Moved(RunTransitions, s.run, "completed") = s.run
      \/ /\ Moved(RunTransitions, s.run, "completed") = "completed"
         /\ "completed" \in RunTransitions[s.run]
  BY DEF Moved
<1> QED BY <1>1, <1>2 DEF CompleteRunIfDone, MoveRun, ScheduleType

(* A phase completed by the completion of task t is t's own, has no gate    *)
(* and only completed tasks; a run completed by it has only completed       *)
(* phases; a run is otherwise only left running, waiting for its user or    *)
(* asking for one, and then no task is made ready.                          *)
ProgressedRun(s, r) ==
  \/ r.run = s.run
  \/ /\ r.run \in {"needs_user_action", "awaiting_user_gate"} /\ r.run \in RunTransitions[s.run]
     /\ r.task = s.task
  \/ /\ r.run = "completed" /\ r.run \in RunTransitions[s.run]
     /\ \A p \in Phase : r.phase[p] = "completed"

ProgressedPhases(s, t, r) ==
  \A p \in Phase : r.phase[p] = "completed" =>
    \/ s.phase[p] = "completed"
    \/ p = TaskPhase[t] /\ AllPhaseTasksCompleted(s, p) /\ PhaseGates(p) = {}

PhasesStayCompleted(s, r) ==
  \A p \in Phase : s.phase[p] = "completed" => r.phase[p] = "completed"

LEMMA ProgressSchedules ==
  ASSUME NEW s \in ScheduleType, NEW t \in Task, NEW kept
  PROVE  LET r == ProgressAfterTaskCompletion(s, t, kept)
         IN /\ r \in ScheduleType /\ Readied(s, r) /\ ProgressedRun(s, r)
            /\ ProgressedPhases(s, t, r) /\ PhasesStayCompleted(s, r)
<1> DEFINE p == TaskPhase[t]
           r == ProgressAfterTaskCompletion(s, t, kept)
<1> SUFFICES /\ r \in ScheduleType /\ Readied(s, r) /\ ProgressedRun(s, r)
             /\ ProgressedPhases(s, t, r) /\ PhasesStayCompleted(s, r)
  OBVIOUS
<1>p. p \in Phase
  BY PlanAssumption
<1>1. CASE ~AllPhaseTasksCompleted(s, p)
  <2>1. r = ActivatePhaseAndTask(s, p)
    BY <1>1 DEF ProgressAfterTaskCompletion
  <2>2. r \in ScheduleType /\ Readied(s, r) /\ SameCompletedPhases(s, r) /\ r.run = s.run
    <3> HIDE DEF p, r
    <3> QED BY <1>p, <2>1, ActivatePhaseAndTaskSchedules
  <2> QED
    <3> HIDE DEF r
    <3> QED BY <2>2 DEF SameCompletedPhases, ProgressedRun, ProgressedPhases, PhasesStayCompleted
<1>2. CASE AllPhaseTasksCompleted(s, p) /\ ~AllRequiredTaskEvidencePresent(p, kept)
  <2>1. r = MoveRun(s, "needs_user_action")
    BY <1>2 DEF ProgressAfterTaskCompletion
  <2>2. Moved(RunTransitions, s.run, "needs_user_action") \in RunStatus
    BY MovedStatus DEF ScheduleType
  <2>3. r \in ScheduleType /\ r.task = s.task /\ r.phase = s.phase
    BY <2>1, <2>2 DEF MoveRun, ScheduleType
  <2>4. r.run = Moved(RunTransitions, s.run, "needs_user_action")
    BY <2>1 DEF MoveRun, ScheduleType
  <2>5. ProgressedRun(s, r)
    BY <2>3, <2>4 DEF ProgressedRun, Moved
  <2> QED
    <3> HIDE DEF r
    <3> QED BY <2>3, <2>5 DEF Readied, ProgressedPhases, PhasesStayCompleted
<1>3. CASE /\ AllPhaseTasksCompleted(s, p) /\ AllRequiredTaskEvidencePresent(p, kept)
           /\ PhaseGates(p) # {}
  <2> DEFINE waiting == MovePhase(s, p, "awaiting_gate")
  <2>1. r = IF "awaiting_user_gate" \in RunTransitions[s.run]
            THEN [waiting EXCEPT !.run = "awaiting_user_gate", !.current.phase = p]
            ELSE waiting
    BY <1>3 DEF ProgressAfterTaskCompletion
  <2>2. /\ Moved(PhaseTransitions, s.phase[p], "awaiting_gate") \in PhaseStatus
        /\ Moved(PhaseTransitions, s.phase[p], "awaiting_gate") = "completed"
             <=> s.phase[p] = "completed"
    BY <1>p, MovedStatus DEF ScheduleType, Moved, PhaseTransitions
  <2>3. waiting \in ScheduleType /\ waiting.task = s.task /\ waiting.run = s.run
        /\ SameCompletedPhases(s, waiting)
    BY <1>p, <2>2 DEF ScheduleType, MovePhase, SameCompletedPhases
  <2>4. r \in ScheduleType /\ r.task = s.task /\ r.phase = waiting.phase
        /\ \/ r.run = s.run
           \/ r.run = "awaiting_user_gate" /\ r.run \in RunTransitions[s.run]
    <3>1. CASE "awaiting_user_gate" \in RunTransitions[s.run]
      <4>1. r = [waiting EXCEPT !.run = "awaiting_user_gate", !.current.phase = p]
        BY <2>1, <3>1
      <4> HIDE DEF p, r, waiting
      <4> QED BY <1>p, <2>3, <3>1, <4>1, Statuses DEF ScheduleType
    <3>2. CASE ~("awaiting_user_gate" \in RunTransitions[s.run])
      BY <2>1, <2>3, <3>2
    <3> QED BY <3>1, <3>2
  <2> QED
    <3> HIDE DEF r, waiting, p
    <3> QED BY <2>3, <2>4
         DEF Readied, SameCompletedPhases, ProgressedRun, ProgressedPhases, PhasesStayCompleted
<1>4. CASE /\ AllPhaseTasksCompleted(s, p) /\ AllRequiredTaskEvidencePresent(p, kept)
           /\ PhaseGates(p) = {}
  <2> DEFINE done == MovePhase(s, p, "completed")
             next == ActivateNextPhase(done)
  <2>1. r = CompleteRunIfDone(next)
    BY <1>4 DEF ProgressAfterTaskCompletion
  <2>2. /\ Moved(PhaseTransitions, s.phase[p], "completed") \in PhaseStatus
        /\ s.phase[p] = "completed" => Moved(PhaseTransitions, s.phase[p], "completed") = "completed"
    BY <1>p, MovedStatus DEF ScheduleType, Moved, PhaseTransitions
  <2>3. /\ done \in ScheduleType /\ done.task = s.task /\ done.run = s.run
        /\ \A q \in Phase : q # p => done.phase[q] = s.phase[q]
        /\ PhasesStayCompleted(s, done)
    BY <1>p, <2>2 DEF ScheduleType, MovePhase, PhasesStayCompleted
  <2>4. next \in ScheduleType /\ Readied(done, next) /\ SameCompletedPhases(done, next)
        /\ next.run = s.run
    <3> HIDE DEF done
    <3> QED BY <2>3, ActivateNextPhaseSchedules
  <2>5. /\ r \in ScheduleType /\ r.task = next.task /\ r.phase = next.phase
        /\ \/ r.run = s.run
           \/ /\ r.run = "completed" /\ r.run \in RunTransitions[s.run]
              /\ \A q \in Phase : r.phase[q] = "completed"
    <3> HIDE DEF r, next
    <3> QED BY <2>1, <2>4, CompleteRunIfDoneSchedules
  <2>6. Readied(s, r) /\ ProgressedRun(s, r)
    <3> HIDE DEF r, next, done
    <3> QED BY <2>3, <2>4, <2>5 DEF Readied, ProgressedRun
  <2>7. ProgressedPhases(s, t, r) /\ PhasesStayCompleted(s, r)
    <3> HIDE DEF r, next, done
    <3> QED BY <1>4, <2>3, <2>4, <2>5
         DEF SameCompletedPhases, ProgressedPhases, PhasesStayCompleted
  <2> QED BY <2>5, <2>6, <2>7
<1> QED BY <1>1, <1>2, <1>3, <1>4

(* The last confirmation of a phase completes that phase, and starts the    *)
(* next one or completes the run.                                           *)
PhaseDone(s, p) == CompleteRunIfDone(ActivateNextPhase(
                     MoveRun(MovePhase(s, p, "completed"), "running")))

LEMMA PhaseDoneSchedules ==
  ASSUME NEW s \in ScheduleType, NEW p \in Phase
  PROVE  LET r == PhaseDone(s, p)
         IN /\ r \in ScheduleType /\ Readied(s, r) /\ PhasesStayCompleted(s, r)
            /\ \A q \in Phase : r.phase[q] = "completed" => s.phase[q] = "completed" \/ q = p
            /\ \/ r.run \in {s.run, "running"} /\ r.run = Moved(RunTransitions, s.run, "running")
               \/ r.run = "completed" /\ \A q \in Phase : r.phase[q] = "completed"
<1> DEFINE moved == MovePhase(s, p, "completed")
           done == MoveRun(moved, "running")
           next == ActivateNextPhase(done)
           r == PhaseDone(s, p)
<1> SUFFICES /\ r \in ScheduleType /\ Readied(s, r) /\ PhasesStayCompleted(s, r)
             /\ \A q \in Phase : r.phase[q] = "completed" => s.phase[q] = "completed" \/ q = p
             /\ \/ r.run \in {s.run, "running"} /\ r.run = Moved(RunTransitions, s.run, "running")
                \/ r.run = "completed" /\ \A q \in Phase : r.phase[q] = "completed"
  OBVIOUS
<1>1. /\ Moved(PhaseTransitions, s.phase[p], "completed") \in PhaseStatus
      /\ s.phase[p] = "completed" => Moved(PhaseTransitions, s.phase[p], "completed") = "completed"
  BY MovedStatus DEF ScheduleType, Moved
<1>2. /\ moved \in ScheduleType /\ moved.task = s.task /\ moved.run = s.run
      /\ PhasesStayCompleted(s, moved)
      /\ \A q \in Phase : q # p => moved.phase[q] = s.phase[q]
  BY <1>1 DEF MovePhase, ScheduleType, PhasesStayCompleted
<1>3. /\ done \in ScheduleType /\ done.task = s.task /\ done.phase = moved.phase
      /\ done.run \in {s.run, "running"} /\ done.run = Moved(RunTransitions, s.run, "running")
  <2>1. /\ Moved(RunTransitions, moved.run, "running") \in RunStatus
        /\ Moved(RunTransitions, moved.run, "running") \in {s.run, "running"}
    BY <1>2, MovedStatus DEF ScheduleType, Moved
  <2> HIDE DEF moved
  <2> QED BY <1>2, <2>1 DEF MoveRun, ScheduleType
<1>4. next \in ScheduleType /\ Readied(done, next) /\ SameCompletedPhases(done, next)
      /\ next.run = done.run
  <2> HIDE DEF done
  <2> QED BY <1>3, ActivateNextPhaseSchedules
<1>5. /\ r \in ScheduleType /\ r.task = next.task /\ r.phase = next.phase
      /\ \/ r.run = next.run
         \/ r.run = "completed" /\ \A q \in Phase : r.phase[q] = "completed"
  <2>1. r = CompleteRunIfDone(next)
    BY DEF PhaseDone
  <2> HIDE DEF r, next
  <2> QED BY <1>4, <2>1, CompleteRunIfDoneSchedules
<1> HIDE DEF r, next, done, moved
<1> QED BY <1>2, <1>3, <1>4, <1>5 DEF Readied, SameCompletedPhases, PhasesStayCompleted

-----------------------------------------------------------------------------
(* Type correctness.                                                        *)

LEMMA AdoptKeepsTypes ==
  ASSUME NEW s \in ScheduleType, Adopt(s)
  PROVE  /\ runStatus' \in RunStatus
         /\ current' \in [phase : Phase \cup {NoPhase}, task : Task \cup {NoTask}]
         /\ phaseStatus' \in [Phase -> PhaseStatus]
         /\ taskStatus' \in [Task -> TaskStatus]
  BY DEF Adopt, ScheduleType

LEMMA MoveAgentsIsTyped ==
  ASSUME agentStatus \in [Agent -> AgentStatus], NEW agents, NEW to
  PROVE  MoveAgents(agents, to) \in [Agent -> AgentStatus]
<1>1. \A a \in Agent : Moved(AgentTransitions, agentStatus[a], to) \in AgentStatus
  BY MovedStatus
<1> QED BY <1>1 DEF MoveAgents

LEMMA InvalidationIsTyped ==
  ASSUME TypeOK, NEW affected, InvalidateHistory(affected)
  PROVE  invalidated' \subseteq EvidenceId /\ confirmed' \subseteq Gate /\ evidence' = evidence
  BY DEF TypeOK, InvalidateHistory, Evidence

LEMMA InitTyped == Init => TypeOK
  BY Statuses DEF Init, TypeOK

LEMMA StepTyped == TypeOK /\ [Next]_vars => TypeOK'
<1> SUFFICES ASSUME TypeOK, [Next]_vars PROVE TypeOK'
  OBVIOUS
<1> USE DEF TypeOK
<1>1. CASE StartDevelopmentRun
  <2>1. MoveRun(Schedule, "running") \in ScheduleType
    BY ScheduleIsTyped, MovedStatus DEF MoveRun, ScheduleType
  <2>2. ActivateNextPhase(MoveRun(Schedule, "running")) \in ScheduleType
    BY <2>1, ActivateNextPhaseSchedules
  <2> QED
    BY <1>1, <2>2, AdoptKeepsTypes DEF StartDevelopmentRun, agentVars, evidenceVars
<1>2. ASSUME NEW t \in Task, NEW m \in Model, NEW a \in Agent, BeginTask(t, m, a)
      PROVE  TypeOK'
  BY <1>2, Statuses DEF BeginTask, evidenceVars
<1>3. ASSUME NEW t \in Task, NEW e \in evidence, NEW m \in Model, NEW a \in Agent,
             BeginRepair(t, e, m, a)
      PROVE  TypeOK'
  <2>1. agentStatus' \in [Agent -> AgentStatus]
    BY <1>3, Statuses, MoveAgentsIsTyped DEF BeginRepair
  <2>2. repairHistory' \subseteq Attempt
    BY <1>3 DEF BeginRepair, Attempt, AttemptStatus, Fingerprint, FingerprintOf, Evidence
  <2> QED BY <1>3, <2>1, <2>2, Statuses DEF BeginRepair, evidenceVars
<1>4. ASSUME NEW t \in Task, RequireDevelopmentUserAction(t)
      PROVE  TypeOK'
  BY <1>4, Statuses DEF RequireDevelopmentUserAction, taskVars, agentVars, evidenceVars
<1>5. ASSUME NEW x \in repairHistory, NEW to \in AttemptStatus,
             RecordRepairAttemptOutcome(x, to)
      PROVE  TypeOK'
  <2>1. agentStatus' \in [Agent -> AgentStatus]
    BY <1>5, MoveAgentsIsTyped DEF RecordRepairAttemptOutcome
  <2>2. repairHistory' \subseteq Attempt
    <3>1. [x EXCEPT !.status = to] \in Attempt
      BY DEF Attempt
    <3> QED BY <1>5, <3>1 DEF RecordRepairAttemptOutcome
  <2> QED BY <1>5, <2>1, <2>2 DEF RecordRepairAttemptOutcome, taskVars, evidenceVars
<1>6. ASSUME NEW t \in Task, NEW to \in TaskStatus, TransitionTask(t, to)
      PROVE  TypeOK'
  <2>1. agentStatus' \in [Agent -> AgentStatus]
    BY <1>6, MoveAgentsIsTyped DEF TransitionTask
  <2> QED BY <1>6, <2>1 DEF TransitionTask, evidenceVars
<1>7. ASSUME NEW e \in Evidence, RecordTaskEvidence(e)
      PROVE  TypeOK'
  BY <1>7 DEF RecordTaskEvidence, taskVars, agentVars
<1>8. ASSUME NEW t \in Task, NEW ids \in SUBSET EvidenceId, CompleteTask(t, ids)
      PROVE  TypeOK'
  <2> DEFINE s == [Schedule EXCEPT !.task[t] = "completed"]
             r == ProgressAfterTaskCompletion(s, t, taskEvidence')
  <2>1. s \in ScheduleType
    BY ScheduleIsTyped, Statuses DEF ScheduleType
  <2>2. r \in ScheduleType
    <3> HIDE DEF s
    <3> QED BY <2>1, ProgressSchedules
  <2>3. Adopt(r)
    BY <1>8 DEF CompleteTask
  <2>4. agentStatus' \in [Agent -> AgentStatus]
    BY <1>8, MoveAgentsIsTyped DEF CompleteTask
  <2> HIDE DEF s, r
  <2> QED BY <1>8, <2>2, <2>3, <2>4, AdoptKeepsTypes DEF CompleteTask, evidenceVars
<1>9. ASSUME NEW g \in Gate, ConfirmPhaseGate(g)
      PROVE  TypeOK'
  <2> DEFINE p == GatePhase[g]
             r == IF PhaseGates(p) \subseteq confirmed' THEN PhaseDone(Schedule, p)
                  ELSE Schedule
  <2>1. r \in ScheduleType
    BY ScheduleIsTyped, PhaseDoneSchedules, ContentAssumption
  <2>2. Adopt(r)
    BY <1>9 DEF ConfirmPhaseGate, PhaseDone
  <2> HIDE DEF r
  <2> QED BY <1>9, <2>1, <2>2, AdoptKeepsTypes DEF ConfirmPhaseGate, agentVars
<1>10. ASSUME NEW roots \in SUBSET Task, MarkPlanningRevision(roots)
      PROVE  TypeOK'
  <2>1. agentStatus' \in [Agent -> AgentStatus]
    BY <1>10, MoveAgentsIsTyped DEF MarkPlanningRevision
  <2>2. /\ phaseStatus' \in [Phase -> PhaseStatus]
        /\ taskStatus' \in [Task -> TaskStatus]
        /\ runStatus' \in RunStatus
    BY <1>10, MovedStatus DEF MarkPlanningRevision
  <2>3. invalidated' \subseteq EvidenceId /\ confirmed' \subseteq Gate /\ evidence' = evidence
    BY <1>10, InvalidationIsTyped DEF MarkPlanningRevision
  <2> QED BY <1>10, <2>1, <2>2, <2>3 DEF MarkPlanningRevision
<1>11. ASSUME NEW t \in Task, NEW m \in Model, NEW a \in Agent, RerunTaskWithModel(t, m, a)
      PROVE  TypeOK'
  <2>1. agentStatus' \in [Agent -> AgentStatus]
    <3> DEFINE moved == MoveAgents(AgentsOf(DependentTasks({t})), "stale")
    <3>1. moved \in [Agent -> AgentStatus]
      BY MoveAgentsIsTyped
    <3>2. agentStatus' = [moved EXCEPT ![a] = "ready"]
      BY <1>11 DEF RerunTaskWithModel
    <3> HIDE DEF moved
    <3> QED BY <3>1, <3>2, Statuses
  <2>2. phaseStatus' \in [Phase -> PhaseStatus]
    BY <1>11, Statuses DEF RerunTaskWithModel
  <2>3. taskStatus' \in [Task -> TaskStatus]
    BY <1>11, Statuses DEF RerunTaskWithModel
  <2>4. runStatus' \in RunStatus
    BY <1>11, MovedStatus DEF RerunTaskWithModel
  <2>5. invalidated' \subseteq EvidenceId /\ confirmed' \subseteq Gate /\ evidence' = evidence
    BY <1>11, InvalidationIsTyped DEF RerunTaskWithModel
  <2>6. current' \in [phase : Phase \cup {NoPhase}, task : Task \cup {NoTask}]
    BY <1>11, PlanAssumption DEF RerunTaskWithModel
  <2>7. /\ taskModel' \in [Task -> Model \cup {NoModel}]
        /\ taskAgent' \in [Task -> Agent \cup {NoAgent}]
        /\ taskEvidence' \in [Task -> SUBSET EvidenceId]
        /\ agentTask' \in [Agent -> Task \cup {NoTask}]
        /\ repairHistory' = repairHistory /\ reopened' \subseteq Task
    BY <1>11 DEF RerunTaskWithModel
  <2> QED BY <2>1, <2>2, <2>3, <2>4, <2>5, <2>6, <2>7
<1>12. CASE PauseRun
  BY <1>12, Statuses DEF PauseRun, taskVars, agentVars, evidenceVars
<1>13. CASE ResumeRun
  BY <1>13, Statuses DEF ResumeRun, taskVars, agentVars, evidenceVars
<1>14. CASE CancelRun
  <2>1. agentStatus' \in [Agent -> AgentStatus]
    BY <1>14, MoveAgentsIsTyped DEF CancelRun
  <2>2. /\ phaseStatus' \in [Phase -> PhaseStatus]
        /\ taskStatus' \in [Task -> TaskStatus]
    BY <1>14, MovedStatus DEF CancelRun
  <2> QED BY <1>14, <2>1, <2>2, Statuses DEF CancelRun, evidenceVars
<1>15. CASE UNCHANGED vars
  BY <1>15 DEF vars, taskVars, agentVars, evidenceVars
<1> QED
  BY <1>1, <1>2, <1>3, <1>4, <1>5, <1>6, <1>7, <1>8, <1>9, <1>10, <1>11, <1>12, <1>13,
     <1>14, <1>15 DEF Next

(* Every reachable state is well typed, for every plan, every set of ids    *)
(* and every mix of commands.                                               *)
THEOREM TypeCorrect == Spec => []TypeOK
<1> QED BY InitTyped, StepTyped, PTL DEF Spec

-----------------------------------------------------------------------------
(* The tasks a command invalidates.                                         *)

LEMMA RootsAffected ==
  ASSUME NEW roots \in SUBSET Task
  PROVE  roots \subseteq DependentTasks(roots)
  BY DEF DependentTasks

LEMMA AffectedClosedDownstream ==
  ASSUME NEW roots \in SUBSET Task, NEW t \in Task, NEW d \in TaskDependencies[t],
         d \in DependentTasks(roots)
  PROVE  t \in DependentTasks(roots)
<1>1. ASSUME NEW S \in SUBSET Task, roots \subseteq S, ClosedDownstream(S)
      PROVE  t \in S
  BY <1>1 DEF DependentTasks, ClosedDownstream
<1> QED BY <1>1 DEF DependentTasks

(* Nothing a root depends on is downstream of the root.                     *)
LEMMA RootDependenciesUnaffected ==
  ASSUME NEW root \in Task, NEW d \in TaskDependencies[root]
  PROVE  d \notin DependentTasks({root})
<1> DEFINE S == {u \in Task : TaskRank[root] <= TaskRank[u]}
<1>1. {root} \subseteq S
  BY PlanAssumption
<1>2. ClosedDownstream(S)
  <2> SUFFICES ASSUME NEW t \in Task, NEW u \in TaskDependencies[t], u \in S
               PROVE  t \in S
    BY DEF ClosedDownstream
  <2>1. TaskRank[u] \in Nat /\ TaskRank[t] \in Nat /\ TaskRank[root] \in Nat
    BY PlanAssumption
  <2>2. TaskRank[u] < TaskRank[t] /\ TaskRank[root] <= TaskRank[u]
    BY PlanAssumption
  <2> QED BY <2>1, <2>2
<1>3. d \notin S
  <2>1. d \in Task /\ TaskRank[d] < TaskRank[root]
    BY PlanAssumption
  <2>2. TaskRank[d] \in Nat /\ TaskRank[root] \in Nat
    BY <2>1, PlanAssumption
  <2> QED BY <2>1, <2>2
<1>4. S \in SUBSET Task
  OBVIOUS
<1> HIDE DEF S
<1> QED BY <1>1, <1>2, <1>3, <1>4 DEF DependentTasks

-----------------------------------------------------------------------------
(* How a step moves the tasks.                                              *)

AtRest == {"pending", "stale", "cancelled"}

LEMMA ReadiedTask ==
  ASSUME NEW s \in ScheduleType, NEW r \in ScheduleType, Readied(s, r), NEW t \in Task
  PROVE  \/ r.task[t] = s.task[t]
         \/ s.task[t] = "pending" /\ r.task[t] = "ready" /\ DependenciesComplete(r.task, t)
<1>1. CASE r.task = s.task
  BY <1>1
<1>2. ASSUME NEW n \in Task, s.task[n] = "pending", DependenciesComplete(s.task, n),
             r.task = [s.task EXCEPT ![n] = "ready"]
      PROVE  \/ r.task[t] = s.task[t]
             \/ s.task[t] = "pending" /\ r.task[t] = "ready" /\ DependenciesComplete(r.task, t)
  <2>1. \A u \in Task : s.task[u] = "completed" => r.task[u] = "completed"
    BY <1>2 DEF ScheduleType
  <2>2. DependenciesComplete(r.task, n)
    BY <1>2, <2>1, PlanAssumption DEF DependenciesComplete
  <2> QED BY <1>2, <2>2 DEF ScheduleType
<1> QED BY <1>1, <1>2 DEF Readied

(* A command other than a planning revision or a rerun leaves completed     *)
(* tasks completed unless it takes one up again, and wakes only tasks whose *)
(* dependencies are then all completed.                                     *)
MovesForward ==
  \A t \in Task :
    /\ CompletedOrReopened(t) => CompletedOrReopened(t)'
    /\ taskStatus[t] = "completed" =>
         taskStatus'[t] = "completed" \/ TransitionTask(t, "assembling_context")
    /\ taskStatus'[t] \notin AtRest =>
         taskStatus[t] \notin AtRest \/ DependenciesComplete(taskStatus', t)

Forward ==
  \/ StartDevelopmentRun
  \/ \E t \in Task, m \in Model, a \in Agent : BeginTask(t, m, a)
  \/ \E t \in Task, e \in evidence, m \in Model, a \in Agent : BeginRepair(t, e, m, a)
  \/ \E t \in Task : RequireDevelopmentUserAction(t)
  \/ \E x \in repairHistory, to \in AttemptStatus : RecordRepairAttemptOutcome(x, to)
  \/ \E t \in Task, to \in TaskStatus : TransitionTask(t, to)
  \/ \E e \in Evidence : RecordTaskEvidence(e)
  \/ \E t \in Task, ids \in SUBSET EvidenceId : CompleteTask(t, ids)
  \/ \E g \in Gate : ConfirmPhaseGate(g)
  \/ PauseRun \/ ResumeRun \/ CancelRun
  \/ UNCHANGED vars

LEMMA StepCases ==
  ASSUME [Next]_vars
  PROVE  \/ Forward
         \/ \E roots \in SUBSET Task : MarkPlanningRevision(roots)
         \/ \E t \in Task, m \in Model, a \in Agent : RerunTaskWithModel(t, m, a)
  BY DEF Next, Forward

LEMMA ForwardSteps ==
  ASSUME TypeOK, Forward
  PROVE  MovesForward
<1> USE DEF TypeOK, MovesForward, AtRest, CompletedOrReopened
<1>1. CASE StartDevelopmentRun
  <2> DEFINE s == MoveRun(Schedule, "running")
  <2>1. s \in ScheduleType /\ s.task = taskStatus
    BY ScheduleIsTyped, MovedStatus DEF MoveRun, ScheduleType, Schedule
  <2>2. /\ ActivateNextPhase(s) \in ScheduleType /\ Readied(s, ActivateNextPhase(s))
        /\ taskStatus' = ActivateNextPhase(s).task
    <3>1. taskStatus' = ActivateNextPhase(s).task
      BY <1>1 DEF StartDevelopmentRun, Adopt
    <3> HIDE DEF s
    <3> QED BY <2>1, <3>1, ActivateNextPhaseSchedules
  <2>3. reopened' = reopened
    BY <1>1 DEF StartDevelopmentRun
  <2> HIDE DEF s
  <2> QED BY <2>1, <2>2, <2>3, ReadiedTask
<1>2. ASSUME NEW t \in Task, NEW m \in Model, NEW a \in Agent, BeginTask(t, m, a)
      PROVE  MovesForward
  BY <1>2 DEF BeginTask
<1>3. ASSUME NEW t \in Task, NEW e \in evidence, NEW m \in Model, NEW a \in Agent,
             BeginRepair(t, e, m, a)
      PROVE  MovesForward
  BY <1>3 DEF BeginRepair, UnderVerification
<1>4. ASSUME NEW t \in Task, NEW to \in TaskStatus, TransitionTask(t, to)
      PROVE  MovesForward
  <2>1. /\ taskStatus' = [taskStatus EXCEPT ![t] = to]
        /\ reopened' = IF taskStatus[t] = "completed" THEN reopened \cup {t} ELSE reopened
        /\ to \in TaskTransitions[taskStatus[t]] /\ to \notin {"completed", "stale", "ready"}
    BY <1>4 DEF TransitionTask
  <2>2. /\ taskStatus[t] = "completed" => to = "assembling_context"
        /\ to \notin AtRest => taskStatus[t] \notin AtRest
    BY <2>1, Statuses DEF TaskTransitions
  <2>3. ASSUME NEW u \in Task PROVE CompletedOrReopened(u) => CompletedOrReopened(u)'
    BY <2>1
  <2> QED BY <1>4, <2>1, <2>2, <2>3
<1>5. ASSUME NEW t \in Task, NEW ids \in SUBSET EvidenceId, CompleteTask(t, ids)
      PROVE  MovesForward
  <2> DEFINE s == [Schedule EXCEPT !.task[t] = "completed"]
             r == ProgressAfterTaskCompletion(s, t, taskEvidence')
  <2>1. s \in ScheduleType /\ s.task = [taskStatus EXCEPT ![t] = "completed"]
    BY ScheduleIsTyped, Statuses DEF ScheduleType, Schedule
  <2>2. r \in ScheduleType /\ Readied(s, r) /\ taskStatus' = r.task
    <3>1. taskStatus' = r.task
      BY <1>5 DEF CompleteTask, Adopt
    <3> HIDE DEF s
    <3> QED BY <2>1, <3>1, ProgressSchedules
  <2>3. taskStatus[t] = "verifying"
    BY <1>5 DEF CompleteTask
  <2> HIDE DEF s, r
  <2>4. ASSUME NEW u \in Task
        PROVE  /\ taskStatus[u] = "completed" => taskStatus'[u] = "completed"
               /\ CompletedOrReopened(u) => CompletedOrReopened(u)'
               /\ taskStatus'[u] \notin AtRest =>
                    taskStatus[u] \notin AtRest \/ DependenciesComplete(taskStatus', u)
    <3>1. \/ taskStatus'[u] = s.task[u]
          \/ /\ s.task[u] = "pending" /\ taskStatus'[u] = "ready"
             /\ DependenciesComplete(taskStatus', u)
      BY <2>1, <2>2, ReadiedTask
    <3>2. s.task[u] = IF u = t THEN "completed" ELSE taskStatus[u]
      BY <2>1
    <3>3. reopened' = reopened \ {t}
      BY <1>5 DEF CompleteTask
    <3> QED BY <2>3, <3>1, <3>2, <3>3
  <2> QED BY <2>4
<1>6. ASSUME NEW g \in Gate, ConfirmPhaseGate(g)
      PROVE  MovesForward
  <2> DEFINE r == PhaseDone(Schedule, GatePhase[g])
  <2>1. r \in ScheduleType /\ Readied(Schedule, r) /\ Schedule.task = taskStatus
    BY ScheduleIsTyped, PhaseDoneSchedules, ContentAssumption DEF Schedule
  <2>2. taskStatus' = r.task \/ taskStatus' = taskStatus
    BY <1>6 DEF ConfirmPhaseGate, PhaseDone, Adopt, Schedule
  <2>3. reopened' = reopened
    BY <1>6 DEF ConfirmPhaseGate
  <2> HIDE DEF r
  <2> QED BY <2>1, <2>2, <2>3, ReadiedTask, ScheduleIsTyped
<1>7. CASE CancelRun
  BY <1>7, Statuses DEF CancelRun, Moved, TaskTransitions
<1>8. ASSUME taskStatus' = taskStatus, reopened' = reopened
      PROVE  MovesForward
  BY <1>8
<1>9. CASE UNCHANGED vars
  BY <1>8, <1>9 DEF vars, taskVars
<1>10. ASSUME \/ \E t \in Task : RequireDevelopmentUserAction(t)
              \/ \E x \in repairHistory, to \in AttemptStatus : RecordRepairAttemptOutcome(x, to)
              \/ \E e \in Evidence : RecordTaskEvidence(e)
              \/ PauseRun \/ ResumeRun
       PROVE  MovesForward
  <2>1. UNCHANGED <<taskVars, reopened>>
    BY <1>10 DEF RequireDevelopmentUserAction, RecordRepairAttemptOutcome, RecordTaskEvidence,
       PauseRun, ResumeRun
  <2> QED BY <1>8, <2>1 DEF taskVars
<1> HIDE DEF MovesForward, TypeOK
<1> QED BY <1>1, <1>2, <1>3, <1>4, <1>5, <1>6, <1>7, <1>9, <1>10 DEF Forward
-----------------------------------------------------------------------------
(* Stale tasks.  A run is never back in validating_input, the one status of *)
(* a live run from which its table does not let it become stale.            *)

StaleInv == TypeOK /\ runStatus # "validating_input" /\ StaleTaskStopsRun

(* A forward step makes no task stale, and a stale or cancelled run stays   *)
(* one of the two.                                                          *)
LEMMA ForwardKeepsStale ==
  ASSUME TypeOK, Forward, runStatus # "validating_input"
  PROVE  /\ runStatus' # "validating_input"
         /\ runStatus \in {"stale", "cancelled"} => runStatus' \in {"stale", "cancelled"}
         /\ \A t \in Task : taskStatus'[t] = "stale" => taskStatus[t] = "stale"
<1> DEFINE runKept == /\ runStatus' # "validating_input"
                      /\ runStatus \in {"stale", "cancelled"} =>
                           runStatus' \in {"stale", "cancelled"}
           tasksKept == \A t \in Task : taskStatus'[t] = "stale" => taskStatus[t] = "stale"
<1> USE DEF TypeOK
<1>1. CASE StartDevelopmentRun
  <2> DEFINE s == MoveRun(Schedule, "running")
  <2>1. s \in ScheduleType /\ s.task = taskStatus /\ s.run = "running"
    BY <1>1, ScheduleIsTyped, Statuses
    DEF MoveRun, ScheduleType, Schedule, StartDevelopmentRun, Moved, RunTransitions
  <2>2. /\ ActivateNextPhase(s) \in ScheduleType /\ Readied(s, ActivateNextPhase(s))
        /\ taskStatus' = ActivateNextPhase(s).task /\ runStatus' = s.run
    <3>1. taskStatus' = ActivateNextPhase(s).task /\ runStatus' = ActivateNextPhase(s).run
      BY <1>1 DEF StartDevelopmentRun, Adopt
    <3> HIDE DEF s
    <3> QED BY <2>1, <3>1, ActivateNextPhaseSchedules
  <2>3. runStatus = "ready"
    BY <1>1 DEF StartDevelopmentRun
  <2> HIDE DEF s
  <2> QED BY <2>1, <2>2, <2>3, ReadiedTask
<1>2. ASSUME NEW t \in Task, NEW m \in Model, NEW a \in Agent, BeginTask(t, m, a)
      PROVE  runKept /\ tasksKept
  BY <1>2 DEF BeginTask
<1>3. ASSUME NEW t \in Task, NEW e \in evidence, NEW m \in Model, NEW a \in Agent,
             BeginRepair(t, e, m, a)
      PROVE  runKept /\ tasksKept
  BY <1>3 DEF BeginRepair
<1>4. ASSUME NEW t \in Task, NEW to \in TaskStatus,
             TransitionTask(t, to)
      PROVE  runKept /\ tasksKept
  BY <1>4 DEF TransitionTask
<1>5. ASSUME NEW t \in Task, NEW ids \in SUBSET EvidenceId, CompleteTask(t, ids)
      PROVE  runKept /\ tasksKept
  <2> DEFINE s == [Schedule EXCEPT !.task[t] = "completed"]
             r == ProgressAfterTaskCompletion(s, t, taskEvidence')
  <2>1. /\ s \in ScheduleType /\ s.task = [taskStatus EXCEPT ![t] = "completed"]
        /\ s.run = runStatus
    BY ScheduleIsTyped, Statuses DEF ScheduleType, Schedule
  <2>2. /\ r \in ScheduleType /\ Readied(s, r) /\ ProgressedRun(s, r)
        /\ taskStatus' = r.task /\ runStatus' = r.run
    <3>1. taskStatus' = r.task /\ runStatus' = r.run
      BY <1>5 DEF CompleteTask, Adopt
    <3> HIDE DEF s
    <3> QED BY <2>1, <3>1, ProgressSchedules
  <2> HIDE DEF s, r
  <2>3. runKept
    BY <2>1, <2>2, Statuses DEF ProgressedRun, RunTransitions
  <2>4. ASSUME NEW u \in Task, taskStatus'[u] = "stale" PROVE taskStatus[u] = "stale"
    <3>1. taskStatus'[u] = s.task[u] \/ taskStatus'[u] = "ready"
      BY <2>1, <2>2, ReadiedTask
    <3>2. s.task[u] = IF u = t THEN "completed" ELSE taskStatus[u]
      BY <2>1
    <3> QED BY <2>4, <3>1, <3>2
  <2> QED BY <2>3, <2>4
<1>6. ASSUME NEW g \in Gate, ConfirmPhaseGate(g)
      PROVE  runKept /\ tasksKept
  <2> DEFINE r == PhaseDone(Schedule, GatePhase[g])
  <2>1. /\ r \in ScheduleType /\ Readied(Schedule, r) /\ Schedule.task = taskStatus
        /\ r.run \in {runStatus, "running", "completed"}
    BY ScheduleIsTyped, PhaseDoneSchedules, ContentAssumption DEF Schedule
  <2>2. \/ taskStatus' = r.task /\ runStatus' = r.run
        \/ taskStatus' = taskStatus /\ runStatus' = runStatus
    BY <1>6 DEF ConfirmPhaseGate, PhaseDone, Adopt, Schedule
  <2>3. runStatus = "awaiting_user_gate"
    BY <1>6 DEF ConfirmPhaseGate
  <2> HIDE DEF r
  <2> QED BY <2>1, <2>2, <2>3, ReadiedTask, ScheduleIsTyped
<1>7. CASE CancelRun
  BY <1>7, Statuses DEF CancelRun, Moved
<1>8. ASSUME taskStatus' = taskStatus, runStatus' = runStatus
      PROVE  runKept /\ tasksKept
  BY <1>8
<1>9. CASE UNCHANGED vars
  BY <1>8, <1>9 DEF vars, taskVars
<1>10. ASSUME \/ \E x \in repairHistory, to \in AttemptStatus : RecordRepairAttemptOutcome(x, to)
              \/ \E e \in Evidence : RecordTaskEvidence(e)
       PROVE  runKept /\ tasksKept
  BY <1>8, <1>10 DEF RecordRepairAttemptOutcome, RecordTaskEvidence, taskVars
<1>11. ASSUME NEW t \in Task, RequireDevelopmentUserAction(t)
       PROVE  runKept /\ tasksKept
  BY <1>11 DEF RequireDevelopmentUserAction, taskVars
<1>12. CASE PauseRun \/ ResumeRun
  BY <1>12, Statuses DEF PauseRun, ResumeRun, RunTransitions, taskVars
<1> HIDE DEF TypeOK
<1> QED BY <1>1, <1>2, <1>3, <1>4, <1>5, <1>6, <1>7, <1>9, <1>10, <1>11, <1>12 DEF Forward

LEMMA StaleInvInit == Init => StaleInv
  BY InitTyped DEF Init, StaleInv, StaleTaskStopsRun

LEMMA StaleInvStep == StaleInv /\ [Next]_vars => StaleInv'
<1> SUFFICES ASSUME StaleInv, [Next]_vars PROVE StaleInv'
  OBVIOUS
<1>t. TypeOK /\ TypeOK'
  BY StepTyped DEF StaleInv
<1>1. CASE Forward
  BY <1>1, <1>t, ForwardKeepsStale DEF StaleInv, StaleTaskStopsRun
<1>2. ASSUME NEW roots \in SUBSET Task, MarkPlanningRevision(roots)
      PROVE  StaleInv'
  <2>1. runStatus' \in {"stale", "cancelled"}
    BY <1>2, <1>t, Statuses DEF MarkPlanningRevision, StaleInv, Moved, RunTransitions, TypeOK
  <2> QED BY <2>1, <1>t DEF StaleInv, StaleTaskStopsRun
<1>3. ASSUME NEW root \in Task, NEW m \in Model, NEW a \in Agent,
             RerunTaskWithModel(root, m, a)
      PROVE  StaleInv'
  <2>1. runStatus' # "validating_input"
    BY <1>3 DEF RerunTaskWithModel, Moved
  <2>2. \A t \in Task : taskStatus[t] # "stale"
    BY <1>3 DEF RerunTaskWithModel, StaleInv, StaleTaskStopsRun
  <2>3. \A t \in Task : taskStatus'[t] # "stale"
    BY <1>3, <2>2 DEF RerunTaskWithModel
  <2> QED BY <2>1, <2>3, <1>t DEF StaleInv, StaleTaskStopsRun
<1> QED BY <1>1, <1>2, <1>3, StepCases

(* A task is stale only in a run that a planning revision made stale.       *)
THEOREM StaleTasksStopTheRun == Spec => []StaleTaskStopsRun
<1>1. StaleInv => StaleTaskStopsRun
  BY DEF StaleInv
<1> QED BY <1>1, StaleInvInit, StaleInvStep, PTL DEF Spec

-----------------------------------------------------------------------------
(* Dependencies.  A rerun restarts its root, whose dependencies it leaves   *)
(* alone, and only there can a stale task be set to work again: the stale   *)
(* invariant rules that out.                                                *)

DependencyInv == StaleInv /\ DependenciesRespected

LEMMA DependencyInvInit == Init => DependencyInv
  BY StaleInvInit DEF Init, DependencyInv, DependenciesRespected

LEMMA DependencyInvStep == DependencyInv /\ [Next]_vars => DependencyInv'
<1> SUFFICES ASSUME DependencyInv, [Next]_vars PROVE DependenciesRespected'
  BY StaleInvStep DEF DependencyInv
<1>t. TypeOK /\ StaleInv /\ StaleInv'
  BY StaleInvStep DEF DependencyInv, StaleInv
<1>1. CASE Forward
  <2>1. MovesForward
    BY <1>1, <1>t, ForwardSteps
  <2> SUFFICES ASSUME NEW t \in Task, taskStatus'[t] \notin AtRest
               PROVE  \A d \in TaskDependencies[t] : CompletedOrReopened(d)'
    BY DEF DependenciesRespected, AtRest
  <2>2. CASE DependenciesComplete(taskStatus', t)
    BY <2>2 DEF DependenciesComplete, CompletedOrReopened
  <2>3. CASE taskStatus[t] \notin AtRest
    <3>1. \A d \in TaskDependencies[t] : d \in Task /\ CompletedOrReopened(d)
      BY <2>3, PlanAssumption DEF DependencyInv, DependenciesRespected, AtRest
    <3> QED BY <2>1, <3>1 DEF MovesForward
  <2> QED BY <2>1, <2>2, <2>3 DEF MovesForward
<1>2. ASSUME NEW roots \in SUBSET Task, MarkPlanningRevision(roots)
      PROVE  DependenciesRespected'
  <2> SUFFICES ASSUME NEW t \in Task, taskStatus'[t] \notin AtRest, NEW d \in TaskDependencies[t]
               PROVE  CompletedOrReopened(d)'
    BY DEF DependenciesRespected, AtRest
  <2>1. t \notin DependentTasks(roots)
    BY <1>2, <1>t, Statuses
    DEF MarkPlanningRevision, AtRest, Moved, TaskTransitions, TypeOK
  <2>2. d \in Task /\ d \notin DependentTasks(roots)
    BY <2>1, AffectedClosedDownstream, PlanAssumption
  <2>3. /\ taskStatus'[t] = taskStatus[t] /\ taskStatus'[d] = taskStatus[d]
        /\ d \in reopened => d \in reopened'
    BY <1>2, <2>1, <2>2 DEF MarkPlanningRevision
  <2> QED BY <2>3 DEF DependencyInv, DependenciesRespected, CompletedOrReopened, AtRest
<1>3. ASSUME NEW root \in Task, NEW m \in Model, NEW a \in Agent,
             RerunTaskWithModel(root, m, a)
      PROVE  DependenciesRespected'
  <2> SUFFICES ASSUME NEW t \in Task, taskStatus'[t] \notin AtRest, NEW d \in TaskDependencies[t]
               PROVE  CompletedOrReopened(d)'
    BY DEF DependenciesRespected, AtRest
  <2>1. root \in DependentTasks({root})
    BY RootsAffected
  <2>2. t = root \/ t \notin DependentTasks({root})
    BY <1>3 DEF RerunTaskWithModel, AtRest
  <2>3. d \in Task /\ d \notin DependentTasks({root})
    BY <2>2, AffectedClosedDownstream, RootDependenciesUnaffected, PlanAssumption
  <2>4. taskStatus'[d] = taskStatus[d] /\ (d \in reopened => d \in reopened')
    BY <1>3, <2>1, <2>3 DEF RerunTaskWithModel
  <2>5. taskStatus[t] \notin AtRest
    <3>1. CASE t = root
      BY <1>3, <1>t, <3>1
      DEF RerunTaskWithModel, AtRest, StaleInv, StaleTaskStopsRun
    <3>2. CASE t # root
      BY <1>3, <2>2, <3>2 DEF RerunTaskWithModel
    <3> QED BY <3>1, <3>2
  <2> QED BY <2>4, <2>5 DEF DependencyInv, DependenciesRespected, CompletedOrReopened, AtRest
<1> QED BY <1>1, <1>2, <1>3, StepCases

(* Work is never done on a task whose dependencies are not completed, other *)
(* than those transitionTask took up again, for every accepted plan and     *)
(* every interleaving of commands.                                          *)
THEOREM DependenciesAreRespected == Spec => []DependenciesRespected
<1>1. DependencyInv => DependenciesRespected
  BY DEF DependencyInv
<1> QED BY <1>1, DependencyInvInit, DependencyInvStep, PTL DEF Spec

-----------------------------------------------------------------------------
(* Phases, gates and the completion of the run.                             *)

(* What a forward step may add to the completed phases, the completed run   *)
(* and the confirmed gates.                                                 *)
Completes ==
  /\ \A p \in Phase : phaseStatus[p] = "completed" => phaseStatus'[p] = "completed"
  /\ \A p \in Phase : phaseStatus'[p] = "completed" =>
       phaseStatus[p] = "completed" \/ (WorkDone(p)' /\ PhaseGates(p) \subseteq confirmed')
  /\ runStatus' = "completed" =>
       runStatus = "completed" \/ \A p \in Phase : phaseStatus'[p] = "completed"
  /\ confirmed \subseteq confirmed'
  /\ \A g \in confirmed' \ confirmed : WorkDone(GatePhase[g])

LEMMA ForwardCompletes ==
  ASSUME TypeOK, Forward
  PROVE  Completes
<1> USE DEF TypeOK
<1>m. MovesForward
  BY ForwardSteps
<1>1. CASE StartDevelopmentRun
  <2> DEFINE s == MoveRun(Schedule, "running")
             r == ActivateNextPhase(s)
  <2>1. s \in ScheduleType /\ s.phase = phaseStatus /\ s.run = "running"
    BY <1>1, ScheduleIsTyped, Statuses
    DEF MoveRun, ScheduleType, Schedule, StartDevelopmentRun, Moved, RunTransitions
  <2>2. /\ SameCompletedPhases(s, r) /\ runStatus' = "running" /\ phaseStatus' = r.phase
        /\ confirmed' = confirmed
    <3>1. runStatus' = r.run /\ phaseStatus' = r.phase /\ confirmed' = confirmed
      BY <1>1 DEF StartDevelopmentRun, Adopt, evidenceVars
    <3> HIDE DEF s
    <3> QED BY <2>1, <3>1, ActivateNextPhaseSchedules
  <2> HIDE DEF s, r
  <2> QED BY <2>1, <2>2 DEF SameCompletedPhases, Completes
<1>2. ASSUME phaseStatus' = phaseStatus, confirmed' = confirmed,
             runStatus' = "completed" => runStatus = "completed"
      PROVE  Completes
  BY <1>2 DEF Completes
<1>3. ASSUME NEW t \in Task, NEW ids \in SUBSET EvidenceId, CompleteTask(t, ids)
      PROVE  Completes
  <2> DEFINE s == [Schedule EXCEPT !.task[t] = "completed"]
             r == ProgressAfterTaskCompletion(s, t, taskEvidence')
  <2>1. /\ s \in ScheduleType /\ s.task = [taskStatus EXCEPT ![t] = "completed"]
        /\ s.phase = phaseStatus /\ s.run = runStatus
    BY ScheduleIsTyped, Statuses DEF ScheduleType, Schedule
  <2>2. /\ Adopt(r) /\ confirmed' = confirmed
    BY <1>3 DEF CompleteTask, evidenceVars
  <2>3. /\ r \in ScheduleType /\ Readied(s, r) /\ ProgressedRun(s, r)
        /\ ProgressedPhases(s, t, r) /\ PhasesStayCompleted(s, r)
    <3> HIDE DEF s
    <3> QED BY <2>1, ProgressSchedules
  <2> HIDE DEF s, r
  <2>4. runStatus' = "completed" =>
          runStatus = "completed" \/ \A p \in Phase : phaseStatus'[p] = "completed"
    BY <2>1, <2>2, <2>3 DEF ProgressedRun, Adopt
  <2>5. ASSUME NEW p \in Phase, AllPhaseTasksCompleted(s, p)
        PROVE  WorkDone(p)'
    <3>1. \A u \in PhaseTasks(p) : u \in Task /\ s.task[u] = "completed"
      BY <2>5 DEF AllPhaseTasksCompleted, PhaseTasks
    <3>2. \A u \in PhaseTasks(p) : r.task[u] = "completed"
      BY <2>1, <2>3, <3>1, ReadiedTask
    <3> QED BY <2>2, <3>2 DEF WorkDone, CompletedOrReopened, Adopt, PhaseTasks
  <2>6. ASSUME NEW p \in Phase, phaseStatus'[p] = "completed", phaseStatus[p] # "completed"
        PROVE  WorkDone(p)' /\ PhaseGates(p) \subseteq confirmed'
    BY <2>1, <2>2, <2>3, <2>5, <2>6 DEF ProgressedPhases, Adopt
  <2> QED BY <2>1, <2>2, <2>3, <2>4, <2>6 DEF PhasesStayCompleted, Adopt, Completes
<1>4. ASSUME NEW g \in Gate, ConfirmPhaseGate(g)
      PROVE  Completes
  <2> DEFINE p == GatePhase[g]
             r == PhaseDone(Schedule, p)
  <2>1. /\ p \in Phase /\ WorkDone(p) /\ confirmed' = confirmed \cup {g}
        /\ runStatus = "awaiting_user_gate"
        /\ \/ Adopt(r) /\ PhaseGates(p) \subseteq confirmed'
           \/ UNCHANGED <<phaseStatus, runStatus>>
    BY <1>4, ContentAssumption
    DEF ConfirmPhaseGate, PhaseDone, Adopt, Schedule, AllPhaseTasksCompleted, WorkDone,
        CompletedOrReopened
  <2>2. WorkDone(p)'
    BY <1>m, <2>1 DEF WorkDone, MovesForward, PhaseTasks
  <2>3. /\ PhasesStayCompleted(Schedule, r)
        /\ \A q \in Phase : r.phase[q] = "completed" => phaseStatus[q] = "completed" \/ q = p
        /\ \/ r.run \in {runStatus, "running"}
           \/ r.run = "completed" /\ \A q \in Phase : r.phase[q] = "completed"
    <3> HIDE DEF p
    <3> QED BY <2>1, ScheduleIsTyped, PhaseDoneSchedules DEF Schedule
  <2> HIDE DEF r, p
  <2>4. CASE Adopt(r) /\ PhaseGates(p) \subseteq confirmed'
    <3>1. runStatus' = r.run /\ phaseStatus' = r.phase
      BY <2>4 DEF Adopt
    <3>2. runStatus' = "completed" => \A q \in Phase : phaseStatus'[q] = "completed"
      BY <2>1, <2>3, <3>1
    <3>3. \A q \in Phase : /\ phaseStatus[q] = "completed" => phaseStatus'[q] = "completed"
                           /\ phaseStatus'[q] = "completed" => phaseStatus[q] = "completed" \/ q = p
      BY <2>3, <3>1 DEF PhasesStayCompleted, Schedule
    <3> QED BY <2>1, <2>2, <2>4, <3>2, <3>3 DEF Completes, p
  <2>5. CASE UNCHANGED <<phaseStatus, runStatus>>
    BY <2>1, <2>5 DEF Completes, p
  <2> QED BY <2>1, <2>4, <2>5
<1>5. CASE CancelRun
  BY <1>5 DEF CancelRun, Moved, PhaseTransitions, evidenceVars, Completes
<1>6. CASE UNCHANGED vars
  BY <1>2, <1>6 DEF vars, evidenceVars
<1>7. CASE PauseRun \/ ResumeRun
  BY <1>2, <1>7 DEF PauseRun, ResumeRun, evidenceVars
<1>8. ASSUME \/ \E t \in Task, m \in Model, a \in Agent : BeginTask(t, m, a)
             \/ \E t \in Task, e \in evidence, m \in Model, a \in Agent : BeginRepair(t, e, m, a)
             \/ \E t \in Task : RequireDevelopmentUserAction(t)
             \/ \E x \in repairHistory, to \in AttemptStatus : RecordRepairAttemptOutcome(x, to)
             \/ \E t \in Task, to \in TaskStatus : TransitionTask(t, to)
             \/ \E e \in Evidence : RecordTaskEvidence(e)
      PROVE  Completes
  <2>1. phaseStatus' = phaseStatus /\ confirmed' = confirmed
    BY <1>8 DEF BeginTask, BeginRepair, RequireDevelopmentUserAction,
       RecordRepairAttemptOutcome, TransitionTask, RecordTaskEvidence, evidenceVars
  <2>2. runStatus' = "completed" => runStatus = "completed"
    BY <1>8 DEF BeginTask, BeginRepair, RequireDevelopmentUserAction,
       RecordRepairAttemptOutcome, TransitionTask, RecordTaskEvidence
  <2> QED BY <1>2, <2>1, <2>2
<1> HIDE DEF TypeOK
<1> QED BY <1>1, <1>3, <1>4, <1>5, <1>6, <1>7, <1>8 DEF Forward

(* What the two invalidating commands leave untouched, and what they undo.  *)
Invalidates(affected) ==
  /\ \A t \in Task \ affected :
       /\ taskStatus'[t] = taskStatus[t]
       /\ taskEvidence'[t] = taskEvidence[t] /\ taskModel'[t] = taskModel[t]
  /\ \A t \in affected : taskStatus'[t] # "completed"
  /\ reopened' = reopened \ affected
  /\ \A p \in PhasesOf(affected) : phaseStatus'[p] # "completed"
  /\ \A p \in Phase \ PhasesOf(affected) : phaseStatus'[p] = phaseStatus[p]
  /\ runStatus' # "completed"
  /\ InvalidateHistory(affected)

LEMMA RevisionInvalidates ==
  ASSUME StaleInv, NEW roots \in SUBSET Task, MarkPlanningRevision(roots)
  PROVE  Invalidates(DependentTasks(roots))
<1> DEFINE affected == DependentTasks(roots)
<1>1. affected \subseteq Task /\ PhasesOf(affected) \subseteq Phase
  BY PlanAssumption DEF DependentTasks, PhasesOf
<1>2. /\ \A t \in Task \ affected :
           /\ taskStatus'[t] = taskStatus[t]
           /\ taskEvidence'[t] = taskEvidence[t] /\ taskModel'[t] = taskModel[t]
      /\ \A p \in Phase \ PhasesOf(affected) : phaseStatus'[p] = phaseStatus[p]
      /\ InvalidateHistory(affected) /\ reopened' = reopened \ affected
  BY DEF MarkPlanningRevision
<1>3. \A t \in affected : taskStatus'[t] # "completed"
  BY <1>1, Statuses DEF StaleInv, MarkPlanningRevision, Moved, TaskTransitions, TypeOK
<1>4. \A p \in PhasesOf(affected) : phaseStatus'[p] # "completed"
  BY <1>1, Statuses DEF StaleInv, MarkPlanningRevision, Moved, PhaseTransitions, TypeOK
<1>5. runStatus' # "completed"
  BY Statuses DEF StaleInv, MarkPlanningRevision, Moved, RunTransitions, TypeOK
<1> QED BY <1>2, <1>3, <1>4, <1>5 DEF Invalidates

LEMMA RerunInvalidates ==
  ASSUME TypeOK, NEW root \in Task, NEW m \in Model, NEW a \in Agent,
         RerunTaskWithModel(root, m, a)
  PROVE  Invalidates(DependentTasks({root}))
<1> DEFINE affected == DependentTasks({root})
<1>1. affected \subseteq Task /\ PhasesOf(affected) \subseteq Phase /\ root \in affected
  BY PlanAssumption, RootsAffected DEF DependentTasks, PhasesOf
<1>2. TaskPhase[root] \in PhasesOf(affected)
  BY <1>1 DEF PhasesOf
<1>3. \A t \in Task : /\ t \in affected => taskStatus'[t] # "completed"
                      /\ t \notin affected => taskStatus'[t] = taskStatus[t]
  BY <1>1 DEF RerunTaskWithModel
<1>6. \A t \in Task \ affected :
        taskEvidence'[t] = taskEvidence[t] /\ taskModel'[t] = taskModel[t]
  BY <1>1 DEF RerunTaskWithModel, TypeOK
<1>4. \A p \in Phase : /\ p \in PhasesOf(affected) => phaseStatus'[p] # "completed"
                       /\ p \notin PhasesOf(affected) => phaseStatus'[p] = phaseStatus[p]
  BY <1>2 DEF RerunTaskWithModel
<1>5. /\ runStatus' # "completed" /\ InvalidateHistory(affected)
      /\ reopened' = reopened \ affected
  BY DEF RerunTaskWithModel, Moved, RunTransitions
<1> QED BY <1>1, <1>3, <1>4, <1>5, <1>6 DEF Invalidates

LEMMA StepKinds ==
  ASSUME StaleInv, [Next]_vars
  PROVE  \/ Forward
         \/ \E roots \in SUBSET Task : Invalidates(DependentTasks(roots))
<1>1. ASSUME NEW root \in Task, NEW m \in Model, NEW a \in Agent,
             RerunTaskWithModel(root, m, a)
      PROVE  \E roots \in SUBSET Task : Invalidates(DependentTasks(roots))
  <2>1. Invalidates(DependentTasks({root}))
    BY <1>1, RerunInvalidates DEF StaleInv
  <2> QED BY <2>1
<1> QED BY <1>1, StepCases, RevisionInvalidates

CompletionInv == StaleInv /\ CompletionIsEarned /\ ConfirmedGateCoversPhase

LEMMA CompletionInvInit == Init => CompletionInv
  BY StaleInvInit DEF Init, CompletionInv, CompletionIsEarned, ConfirmedGateCoversPhase

LEMMA CompletionInvStep == CompletionInv /\ [Next]_vars => CompletionInv'
<1> SUFFICES ASSUME CompletionInv, [Next]_vars
             PROVE  CompletionIsEarned' /\ ConfirmedGateCoversPhase'
  BY StaleInvStep DEF CompletionInv
<1>t. TypeOK /\ TypeOK' /\ StaleInv
  BY StaleInvStep DEF CompletionInv, StaleInv
<1>e. /\ \A p \in Phase : phaseStatus[p] = "completed" =>
           WorkDone(p) /\ PhaseGates(p) \subseteq confirmed
      /\ runStatus = "completed" => \A p \in Phase : phaseStatus[p] = "completed"
      /\ \A g \in confirmed : WorkDone(GatePhase[g])
  BY DEF CompletionInv, CompletionIsEarned, ConfirmedGateCoversPhase
<1>g. \A g \in Gate : GatePhase[g] \in Phase
  BY ContentAssumption
<1> SUFFICES /\ \A p \in Phase : phaseStatus'[p] = "completed" =>
                  WorkDone(p)' /\ PhaseGates(p) \subseteq confirmed'
             /\ runStatus' = "completed" => \A p \in Phase : phaseStatus'[p] = "completed"
             /\ \A g \in confirmed' : WorkDone(GatePhase[g])'
  BY DEF CompletionIsEarned, ConfirmedGateCoversPhase
<1>1. CASE Forward
  <2>1. MovesForward /\ Completes
    BY <1>1, <1>t, ForwardSteps, ForwardCompletes
  <2>2. \A p \in Phase : WorkDone(p) => WorkDone(p)'
    BY <2>1 DEF MovesForward, WorkDone, PhaseTasks
  <2>3. \A g \in confirmed' : WorkDone(GatePhase[g])'
    BY <1>e, <1>g, <1>t, <2>1, <2>2 DEF Completes, TypeOK
  <2> QED BY <1>e, <2>1, <2>2, <2>3 DEF Completes
<1>2. ASSUME NEW roots \in SUBSET Task, Invalidates(DependentTasks(roots))
      PROVE  /\ \A p \in Phase : phaseStatus'[p] = "completed" =>
                  WorkDone(p)' /\ PhaseGates(p) \subseteq confirmed'
             /\ runStatus' = "completed" => \A p \in Phase : phaseStatus'[p] = "completed"
             /\ \A g \in confirmed' : WorkDone(GatePhase[g])'
  <2> DEFINE affected == DependentTasks(roots)
  <2>1. confirmed' = {g \in confirmed : GatePhase[g] \notin PhasesOf(affected)}
    BY <1>2 DEF Invalidates, InvalidateHistory
  <2>2. \A p \in Phase \ PhasesOf(affected) : WorkDone(p) => WorkDone(p)'
    BY <1>2 DEF Invalidates, WorkDone, CompletedOrReopened, PhaseTasks, PhasesOf
  <2>3. ASSUME NEW p \in Phase, phaseStatus'[p] = "completed"
        PROVE  WorkDone(p)' /\ PhaseGates(p) \subseteq confirmed'
    <3>1. p \notin PhasesOf(affected) /\ phaseStatus[p] = "completed"
      BY <1>2, <2>3 DEF Invalidates
    <3> QED BY <1>e, <2>1, <2>2, <3>1 DEF PhaseGates
  <2>4. ASSUME NEW g \in confirmed'
        PROVE  WorkDone(GatePhase[g])'
    <3>1. g \in confirmed /\ GatePhase[g] \in Phase \ PhasesOf(affected)
      BY <1>g, <1>t, <2>1, <2>4 DEF TypeOK
    <3> QED BY <1>e, <2>2, <3>1
  <2>5. runStatus' # "completed"
    BY <1>2 DEF Invalidates
  <2> QED BY <2>3, <2>4, <2>5
<1> QED BY <1>1, <1>2, <1>t, StepKinds

(* A phase reported completed has all its tasks completed and all its gates *)
(* confirmed, and a run reported completed has only completed phases: a     *)
(* rerun or a planning revision takes back every completion it undermines.  *)
THEOREM CompletionsAreEarned == Spec => []CompletionIsEarned
<1>1. CompletionInv => CompletionIsEarned
  BY DEF CompletionInv
<1> QED BY <1>1, CompletionInvInit, CompletionInvStep, PTL DEF Spec

(* A confirmed gate covers only completed work.                             *)
THEOREM ConfirmedGatesCoverTheirPhase == Spec => []ConfirmedGateCoversPhase
<1>1. CompletionInv => ConfirmedGateCoversPhase
  BY DEF CompletionInv
<1> QED BY <1>1, CompletionInvInit, CompletionInvStep, PTL DEF Spec

-----------------------------------------------------------------------------
(* Evidence.                                                                *)

(* An affected task that was completed loses all its evidence; otherwise    *)
(* only transitionTask takes a task out of completed, and changes nothing   *)
(* else.                                                                    *)
LEMMA LeavingStep ==
  ASSUME StaleInv, [Next]_vars, NEW t \in Task, taskStatus[t] = "completed",
         taskStatus'[t] # "completed"
  PROVE  \/ \A e \in evidence : TaskOf(e) = t => e.id \in invalidated'
         \/ /\ taskStatus'[t] = "assembling_context" /\ t \in reopened'
            /\ UNCHANGED <<runStatus, phaseStatus, evidenceVars, agentVars>>
<1>1. CASE Forward
  <2>1. TransitionTask(t, "assembling_context")
    BY <1>1, ForwardSteps DEF StaleInv, MovesForward
  <2> QED BY <2>1 DEF TransitionTask, StaleInv, TypeOK, agentVars
<1>2. ASSUME NEW roots \in SUBSET Task, Invalidates(DependentTasks(roots))
      PROVE  \A e \in evidence : TaskOf(e) = t => e.id \in invalidated'
  <2>1. t \in DependentTasks(roots)
    BY <1>2 DEF Invalidates
  <2> QED BY <1>2, <2>1 DEF Invalidates, InvalidateHistory
<1> QED BY <1>1, <1>2, StepKinds

(* No command but transitionTask takes a task out of completed and leaves   *)
(* any of its evidence valid.                                               *)
THEOREM LeavingCompletedTakesItsEvidence == Spec => LeavingCompletedInvalidates
<1>1. StaleInv /\ [Next]_vars =>
        [\A t \in Task : (taskStatus[t] = "completed" /\ taskStatus'[t] # "completed") =>
           \/ \A e \in evidence : TaskOf(e) = t => e.id \in invalidated'
           \/ /\ taskStatus'[t] = "assembling_context" /\ t \in reopened'
              /\ UNCHANGED <<runStatus, phaseStatus, evidenceVars, agentVars>>]_vars
  BY LeavingStep
<1> QED BY <1>1, StaleInvInit, StaleInvStep, PTL DEF Spec, LeavingCompletedInvalidates

(* The evidence a completed task stands on.                                 *)
Proves(e, t, s) ==
  /\ e.id \in taskEvidence[t] /\ e.step = s
  /\ e.model = taskModel[t] /\ e.outcome = "passed"

(* A forward step keeps valid evidence valid, and the ids and the model of  *)
(* every completed task.                                                    *)
KeepsEvidence ==
  /\ evidence \subseteq evidence' /\ invalidated' = invalidated
  /\ \A t \in Task : taskStatus[t] = "completed" =>
       taskEvidence'[t] = taskEvidence[t] /\ taskModel'[t] = taskModel[t]

LEMMA ForwardKeepsEvidence ==
  ASSUME TypeOK, Forward
  PROVE  KeepsEvidence
<1> USE DEF TypeOK, KeepsEvidence, evidenceVars, taskVars
<1>1. ASSUME NEW t \in Task, NEW m \in Model, NEW a \in Agent, BeginTask(t, m, a)
      PROVE  KeepsEvidence
  BY <1>1 DEF BeginTask
<1>2. ASSUME NEW t \in Task, NEW e \in evidence, NEW m \in Model, NEW a \in Agent,
             BeginRepair(t, e, m, a)
      PROVE  KeepsEvidence
  BY <1>2 DEF BeginRepair, UnderVerification
<1>3. ASSUME NEW t \in Task, NEW ids \in SUBSET EvidenceId, CompleteTask(t, ids)
      PROVE  KeepsEvidence
  BY <1>3 DEF CompleteTask
<1>4. ASSUME NEW e \in Evidence, RecordTaskEvidence(e)
      PROVE  KeepsEvidence
  BY <1>4 DEF RecordTaskEvidence
<1>5. ASSUME NEW t \in Task, NEW to \in TaskStatus, TransitionTask(t, to)
      PROVE  KeepsEvidence
  BY <1>5 DEF TransitionTask
<1>6. ASSUME NEW g \in Gate, ConfirmPhaseGate(g)
      PROVE  KeepsEvidence
  BY <1>6 DEF ConfirmPhaseGate
<1>7. ASSUME \/ StartDevelopmentRun
             \/ \E t \in Task : RequireDevelopmentUserAction(t)
             \/ \E x \in repairHistory, to \in AttemptStatus : RecordRepairAttemptOutcome(x, to)
             \/ PauseRun \/ ResumeRun \/ CancelRun
             \/ UNCHANGED vars
      PROVE  KeepsEvidence
  <2>1. UNCHANGED <<evidence, invalidated, taskEvidence, taskModel>>
    BY <1>7 DEF StartDevelopmentRun, RequireDevelopmentUserAction, RecordRepairAttemptOutcome,
       PauseRun, ResumeRun, CancelRun, vars
  <2> QED BY <2>1
<1> HIDE DEF TypeOK, KeepsEvidence
<1> QED BY <1>1, <1>2, <1>3, <1>4, <1>5, <1>6, <1>7 DEF Forward

(* Only CompleteTask completes a task.                                      *)
LEMMA OnlyCompleteTaskCompletes ==
  ASSUME TypeOK, Forward, NEW t \in Task,
         taskStatus'[t] = "completed", taskStatus[t] # "completed"
  PROVE  \E ids \in SUBSET EvidenceId : CompleteTask(t, ids)
<1> USE DEF TypeOK
<1>1. CASE StartDevelopmentRun
  <2> DEFINE s == MoveRun(Schedule, "running")
  <2>1. s \in ScheduleType /\ s.task = taskStatus
    BY ScheduleIsTyped, MovedStatus DEF MoveRun, ScheduleType, Schedule
  <2>2. /\ ActivateNextPhase(s) \in ScheduleType /\ Readied(s, ActivateNextPhase(s))
        /\ taskStatus' = ActivateNextPhase(s).task
    <3>1. taskStatus' = ActivateNextPhase(s).task
      BY <1>1 DEF StartDevelopmentRun, Adopt
    <3> HIDE DEF s
    <3> QED BY <2>1, <3>1, ActivateNextPhaseSchedules
  <2> HIDE DEF s
  <2> QED BY <2>1, <2>2, ReadiedTask
<1>2. ASSUME NEW u \in Task, NEW ids \in SUBSET EvidenceId, CompleteTask(u, ids)
      PROVE  u = t
  <2> DEFINE s == [Schedule EXCEPT !.task[u] = "completed"]
             r == ProgressAfterTaskCompletion(s, u, taskEvidence')
  <2>1. s \in ScheduleType /\ s.task = [taskStatus EXCEPT ![u] = "completed"]
    BY ScheduleIsTyped, Statuses DEF ScheduleType, Schedule
  <2>2. r \in ScheduleType /\ Readied(s, r) /\ taskStatus' = r.task
    <3>1. taskStatus' = r.task
      BY <1>2 DEF CompleteTask, Adopt
    <3> HIDE DEF s
    <3> QED BY <2>1, <3>1, ProgressSchedules
  <2> HIDE DEF s, r
  <2>3. s.task[t] = "completed"
    BY <2>1, <2>2, ReadiedTask
  <2> QED BY <2>1, <2>3
<1>3. ASSUME NEW g \in Gate, ConfirmPhaseGate(g)
      PROVE  FALSE
  <2> DEFINE r == PhaseDone(Schedule, GatePhase[g])
  <2>1. r \in ScheduleType /\ Readied(Schedule, r) /\ Schedule.task = taskStatus
    BY ScheduleIsTyped, PhaseDoneSchedules, ContentAssumption DEF Schedule
  <2>2. taskStatus' = r.task \/ taskStatus' = taskStatus
    BY <1>3 DEF ConfirmPhaseGate, PhaseDone, Adopt, Schedule
  <2> HIDE DEF r
  <2> QED BY <2>1, <2>2, ReadiedTask, ScheduleIsTyped
<1>4. ASSUME \/ \E u \in Task, m \in Model, a \in Agent : BeginTask(u, m, a)
             \/ \E u \in Task, e \in evidence, m \in Model, a \in Agent : BeginRepair(u, e, m, a)
             \/ \E u \in Task, to \in TaskStatus : TransitionTask(u, to)
             \/ CancelRun
      PROVE  FALSE
  BY <1>4 DEF BeginTask, BeginRepair, TransitionTask, CancelRun, Moved
<1>5. ASSUME \/ \E u \in Task : RequireDevelopmentUserAction(u)
             \/ \E x \in repairHistory, to \in AttemptStatus : RecordRepairAttemptOutcome(x, to)
             \/ \E e \in Evidence : RecordTaskEvidence(e)
             \/ PauseRun \/ ResumeRun
             \/ UNCHANGED vars
      PROVE  FALSE
  BY <1>5 DEF RequireDevelopmentUserAction, RecordRepairAttemptOutcome, RecordTaskEvidence,
     PauseRun, ResumeRun, vars, taskVars
<1> HIDE DEF TypeOK
<1> QED BY <1>1, <1>2, <1>3, <1>4, <1>5 DEF Forward

(* Invalidation names ids: it spares the evidence of other tasks because no *)
(* two records share one.                                                   *)
UniqueEvidenceIds == \A e, f \in evidence : e.id = f.id => e = f

EvidenceInv == StaleInv /\ UniqueEvidenceIds /\ CompletedHasEvidence

LEMMA EvidenceInvInit == Init => EvidenceInv
  BY StaleInvInit DEF Init, EvidenceInv, UniqueEvidenceIds, CompletedHasEvidence

LEMMA UniqueEvidenceIdsStep ==
  ASSUME StaleInv, UniqueEvidenceIds, [Next]_vars
  PROVE  UniqueEvidenceIds'
<1>1. ASSUME NEW e \in Evidence, RecordTaskEvidence(e)
      PROVE  UniqueEvidenceIds'
  BY <1>1 DEF RecordTaskEvidence, UniqueEvidenceIds
<1>2. ASSUME evidence' = evidence
      PROVE  UniqueEvidenceIds'
  BY <1>2 DEF UniqueEvidenceIds
<1>3. CASE \E roots \in SUBSET Task : Invalidates(DependentTasks(roots))
  BY <1>2, <1>3 DEF Invalidates, InvalidateHistory
<1>4. CASE /\ Forward
           /\ ~\E e \in Evidence : RecordTaskEvidence(e)
  <2>1. evidence' = evidence
    BY <1>4 DEF Forward, StartDevelopmentRun, BeginTask, BeginRepair,
       RequireDevelopmentUserAction, RecordRepairAttemptOutcome, TransitionTask,
       CompleteTask, ConfirmPhaseGate, PauseRun, ResumeRun, CancelRun, vars, evidenceVars
  <2> QED BY <1>2, <2>1
<1> QED BY <1>1, <1>3, <1>4, StepKinds

LEMMA EvidenceInvStep == EvidenceInv /\ [Next]_vars => EvidenceInv'
<1> SUFFICES ASSUME EvidenceInv, [Next]_vars, NEW t \in Task, taskStatus'[t] = "completed"
             PROVE  \E w \in Workspace : \A s \in StepsOf(t) : \E e \in ValidEvidence' :
                      e.workspace = w /\ Proves(e, t, s)'
  BY StaleInvStep, UniqueEvidenceIdsStep DEF EvidenceInv, CompletedHasEvidence, Proves
<1>t. TypeOK /\ TypeOK' /\ StaleInv
  BY StaleInvStep DEF EvidenceInv, StaleInv
<1>e. taskStatus[t] = "completed" =>
        \E w \in Workspace : \A s \in StepsOf(t) : \E e \in ValidEvidence :
          e.workspace = w /\ Proves(e, t, s)
  BY DEF EvidenceInv, CompletedHasEvidence, Proves
<1>1. CASE Forward /\ taskStatus[t] = "completed"
  <2>1. KeepsEvidence
    BY <1>1, <1>t, ForwardKeepsEvidence
  <2>2. ValidEvidence \subseteq ValidEvidence'
    BY <2>1 DEF KeepsEvidence, ValidEvidence
  <2>3. \A e, s : Proves(e, t, s) => Proves(e, t, s)'
    BY <1>1, <2>1 DEF KeepsEvidence, Proves
  <2> QED BY <1>1, <1>e, <2>2, <2>3
<1>2. CASE Forward /\ taskStatus[t] # "completed"
  <2>1. PICK ids \in SUBSET EvidenceId : CompleteTask(t, ids)
    BY <1>2, <1>t, OnlyCompleteTaskCompletes
  <2>2. /\ RequiredEvidenceMatches(t, ids) /\ taskEvidence'[t] = ids
        /\ taskModel' = taskModel /\ ValidEvidence' = ValidEvidence
    BY <1>t, <2>1 DEF CompleteTask, evidenceVars, ValidEvidence, TypeOK
  <2>3. PICK f \in ValidEvidence : f.id \in ids
    BY <2>2 DEF RequiredEvidenceMatches
  <2>4. f.workspace \in Workspace
    BY <1>t, <2>3 DEF ValidEvidence, TypeOK, Evidence
  <2>5. ASSUME NEW s \in StepsOf(t)
        PROVE  \E e \in ValidEvidence' : e.workspace = f.workspace /\ Proves(e, t, s)'
    <3>1. PICK e \in ValidEvidence : /\ e.id \in ids /\ e.step = s
                                     /\ e.model = taskModel[t] /\ e.outcome = "passed"
      BY <2>2 DEF RequiredEvidenceMatches
    <3>2. e.workspace = f.workspace
      BY <2>2, <2>3, <3>1 DEF RequiredEvidenceMatches
    <3> QED BY <2>2, <3>1, <3>2 DEF Proves
  <2> QED BY <2>4, <2>5
<1>3. ASSUME NEW roots \in SUBSET Task, Invalidates(DependentTasks(roots))
      PROVE  \E w \in Workspace : \A s \in StepsOf(t) : \E e \in ValidEvidence' :
               e.workspace = w /\ Proves(e, t, s)'
  <2> DEFINE affected == DependentTasks(roots)
  <2>1. t \notin affected /\ taskStatus[t] = "completed"
    BY <1>3 DEF Invalidates
  <2>2. PICK w \in Workspace : \A s \in StepsOf(t) : \E e \in ValidEvidence :
          e.workspace = w /\ Proves(e, t, s)
    BY <1>e, <2>1
  <2>3. ASSUME NEW e \in ValidEvidence, NEW s \in StepsOf(t), Proves(e, t, s)
        PROVE  e \in ValidEvidence' /\ Proves(e, t, s)'
    <3>1. TaskOf(e) = t /\ e \in evidence /\ e.id \notin invalidated
      BY <2>3 DEF Proves, StepsOf, TaskOf, ValidEvidence
    <3>2. e.id \notin invalidated'
      BY <1>3, <2>1, <3>1
      DEF Invalidates, InvalidateHistory, EvidenceInv, UniqueEvidenceIds
    <3>3. e \in ValidEvidence'
      BY <1>3, <3>1, <3>2 DEF Invalidates, InvalidateHistory, ValidEvidence
    <3>4. Proves(e, t, s)'
      BY <1>3, <2>1, <2>3 DEF Invalidates, Proves
    <3> QED BY <3>3, <3>4
  <2>4. ASSUME NEW s \in StepsOf(t)
        PROVE  \E e \in ValidEvidence' : e.workspace = w /\ Proves(e, t, s)'
    BY <2>2, <2>3
  <2> QED BY <2>4
<1> QED BY <1>1, <1>2, <1>3, <1>t, StepKinds

(* A completed task stands on valid passing evidence, for every required    *)
(* step, of its own model and a single workspace state.                     *)
THEOREM CompletedTasksHaveEvidence == Spec => []CompletedHasEvidence
<1>1. EvidenceInv => CompletedHasEvidence
  BY DEF EvidenceInv
<1> QED BY <1>1, EvidenceInvInit, EvidenceInvStep, PTL DEF Spec

-----------------------------------------------------------------------------
(* An agent run that was issued and has not ended.                          *)
Live(a) == ~Unissued(a) /\ agentStatus[a] \in {"ready", "running"}

(* Statuses in which a task has produced a change: its agent has started.   *)
Producing == {"generating_change", "awaiting_patch_approval", "applying_patch",
              "verifying", "repairing"}
Waiting == {"pending", "ready"}
Unbegun == {"pending", "ready", "assembling_context", "generating_change"}

(* OneLiveAgent, strengthened.  A task that waits to be begun has no live   *)
(* agent, so beginTask cannot leave a second one behind.  The agent of a    *)
(* task that produced a change has started, so that beginRepair can end it: *)
(* the status table lets a ready agent neither complete nor fail.           *)
AgentInv ==
  /\ TypeOK
  /\ \A t \in Task : taskAgent[t] \in Agent => agentTask[taskAgent[t]] = t
  /\ \A a \in Agent : Live(a) => taskAgent[agentTask[a]] = a
  /\ \A a \in Agent : Live(a) => taskStatus[agentTask[a]] \notin Waiting
  /\ \A t \in Task : (taskAgent[t] \in Agent /\ taskStatus[t] \in Producing) =>
       agentStatus[taskAgent[t]] # "ready"

-----------------------------------------------------------------------------
(* Steps that issue no agent.                                               *)

(* No agent comes back to life or back to ready.                            *)
AgentsSettle ==
  \A a \in Agent : \/ agentStatus'[a] = agentStatus[a]
                   \/ agentStatus'[a] \in {"completed", "failed", "cancelled", "stale"}
                   \/ agentStatus[a] = "ready" /\ agentStatus'[a] = "running"

(* No task goes back to waiting, none but a reopened one is begun anew, and *)
(* none produces before its agent starts.                                   *)
TasksAdvance ==
  \A t \in Task :
    /\ taskStatus'[t] \in Waiting => taskStatus[t] \in Waiting
    /\ taskStatus'[t] \in Unbegun =>
         t \in reopened' \/ (taskStatus[t] \in Unbegun /\ t \notin reopened)
    /\ taskStatus'[t] \in Producing =>
         \/ taskStatus[t] \in Producing
         \/ taskAgent[t] \in Agent => agentStatus'[taskAgent[t]] # "ready"

IssuesNothing ==
  UNCHANGED <<agentTask, taskAgent>> /\ AgentsSettle /\ TasksAdvance

LEMMA MovedAgents ==
  ASSUME NEW agents, NEW to
  PROVE  \A a \in Agent : \/ MoveAgents(agents, to)[a] = agentStatus[a]
                          \/ /\ MoveAgents(agents, to)[a] = to
                             /\ to \in AgentTransitions[agentStatus[a]]
  BY DEF MoveAgents, Moved

LEMMA QuietKeepsAgents ==
  ASSUME AgentInv, TypeOK', IssuesNothing
  PROVE  AgentInv'
<1>1. \A t \in Task : taskAgent'[t] \in Agent => agentTask'[taskAgent'[t]] = t
  BY DEF AgentInv, IssuesNothing
<1>2. ASSUME NEW a \in Agent, Live(a)'
      PROVE  Live(a) /\ agentTask[a] \in Task
  BY <1>2 DEF AgentInv, TypeOK, IssuesNothing, AgentsSettle, Live, Unissued
<1>3. \A a \in Agent : Live(a)' => taskAgent'[agentTask'[a]] = a
  BY <1>2 DEF AgentInv, IssuesNothing
<1>4. \A a \in Agent : Live(a)' => taskStatus'[agentTask'[a]] \notin Waiting
  BY <1>2 DEF AgentInv, IssuesNothing, TasksAdvance
<1>5. ASSUME NEW t \in Task, taskAgent'[t] \in Agent, taskStatus'[t] \in Producing
      PROVE  agentStatus'[taskAgent'[t]] # "ready"
  BY <1>5 DEF AgentInv, IssuesNothing, AgentsSettle, TasksAdvance
<1> QED BY <1>1, <1>3, <1>4, <1>5 DEF AgentInv

(* What a schedule does to the tasks: scheduling only readies pending ones. *)
LEMMA ScheduledTasksAdvance ==
  ASSUME NEW s \in ScheduleType, NEW r \in ScheduleType, Readied(s, r), taskStatus' = r.task,
         \A t \in Task : /\ s.task[t] = taskStatus[t] \/ s.task[t] = "completed"
                         /\ t \in reopened => t \in reopened' \/ s.task[t] = "completed"
  PROVE  TasksAdvance
<1> SUFFICES ASSUME NEW t \in Task
             PROVE  /\ taskStatus'[t] \in Waiting => taskStatus[t] \in Waiting
                    /\ taskStatus'[t] \in Unbegun =>
                         t \in reopened' \/ (taskStatus[t] \in Unbegun /\ t \notin reopened)
                    /\ taskStatus'[t] \in Producing => taskStatus[t] \in Producing
  BY DEF TasksAdvance
<1>1. \/ taskStatus'[t] = s.task[t]
      \/ s.task[t] = "pending" /\ taskStatus'[t] = "ready"
  BY ReadiedTask
<1> QED BY <1>1 DEF Waiting, Producing, Unbegun

(* The commands that issue no agent run.                                    *)
Quiet ==
  \/ StartDevelopmentRun
  \/ \E t \in Task : RequireDevelopmentUserAction(t)
  \/ \E x \in repairHistory, to \in AttemptStatus : RecordRepairAttemptOutcome(x, to)
  \/ \E t \in Task, to \in TaskStatus : TransitionTask(t, to)
  \/ \E e \in Evidence : RecordTaskEvidence(e)
  \/ \E t \in Task, ids \in SUBSET EvidenceId : CompleteTask(t, ids)
  \/ \E g \in Gate : ConfirmPhaseGate(g)
  \/ \E roots \in SUBSET Task : MarkPlanningRevision(roots)
  \/ PauseRun \/ ResumeRun \/ CancelRun
  \/ UNCHANGED vars

LEMMA AgentStepCases ==
  ASSUME [Next]_vars
  PROVE  \/ Quiet
         \/ \E t \in Task, m \in Model, a \in Agent : BeginTask(t, m, a)
         \/ \E t \in Task, e \in evidence, m \in Model, a \in Agent : BeginRepair(t, e, m, a)
         \/ \E t \in Task, m \in Model, a \in Agent : RerunTaskWithModel(t, m, a)
  BY DEF Next, Quiet

LEMMA QuietIssuesNothing ==
  ASSUME TypeOK, Quiet
  PROVE  IssuesNothing
<1> USE DEF TypeOK, IssuesNothing
<1>1. CASE StartDevelopmentRun
  <2> DEFINE s == MoveRun(Schedule, "running")
  <2>1. s \in ScheduleType /\ s.task = taskStatus
    BY ScheduleIsTyped, MovedStatus DEF MoveRun, ScheduleType, Schedule
  <2>2. /\ ActivateNextPhase(s) \in ScheduleType /\ Readied(s, ActivateNextPhase(s))
        /\ taskStatus' = ActivateNextPhase(s).task
    <3>1. taskStatus' = ActivateNextPhase(s).task
      BY <1>1 DEF StartDevelopmentRun, Adopt
    <3> HIDE DEF s
    <3> QED BY <2>1, <3>1, ActivateNextPhaseSchedules
  <2>3. TasksAdvance
    <3>1. reopened' = reopened
      BY <1>1 DEF StartDevelopmentRun
    <3> HIDE DEF s
    <3> QED BY <2>1, <2>2, <3>1, ScheduledTasksAdvance
  <2> QED BY <1>1, <2>3 DEF StartDevelopmentRun, agentVars, AgentsSettle
<1>2. ASSUME NEW t \in Task, RequireDevelopmentUserAction(t)
      PROVE  IssuesNothing
  BY <1>2 DEF RequireDevelopmentUserAction, taskVars, agentVars, AgentsSettle, TasksAdvance
<1>3. ASSUME NEW x \in repairHistory, NEW to \in AttemptStatus,
             RecordRepairAttemptOutcome(x, to)
      PROVE  IssuesNothing
  <2>1. UNCHANGED <<taskVars, reopened>> /\ agentTask' = agentTask
    BY <1>3 DEF RecordRepairAttemptOutcome
  <2>2. AgentsSettle
    BY <1>3, MovedAgents DEF RecordRepairAttemptOutcome, AgentsSettle
  <2> QED BY <2>1, <2>2 DEF taskVars, TasksAdvance
<1>4. ASSUME NEW t \in Task, NEW to \in TaskStatus, TransitionTask(t, to)
      PROVE  IssuesNothing
  <2>1. /\ taskStatus' = [taskStatus EXCEPT ![t] = to] /\ UNCHANGED <<taskAgent, agentTask>>
        /\ to \in TaskTransitions[taskStatus[t]] /\ to \notin Waiting
    BY <1>4 DEF TransitionTask, Waiting
  <2>2. AgentsSettle
    <3>1. CASE to = "generating_change"
      <4>1. agentStatus' = MoveAgents({taskAgent[t]}, "running")
        BY <1>4, <3>1 DEF TransitionTask
      <4>2. \A a \in Agent : "running" \in AgentTransitions[agentStatus[a]] =>
              agentStatus[a] = "ready"
        BY Statuses DEF AgentTransitions
      <4> QED BY <4>1, <4>2, MovedAgents DEF AgentsSettle
    <3>2. CASE to = "failed"
      BY <1>4, <3>2, MovedAgents DEF TransitionTask, AgentsSettle
    <3>3. CASE to \notin {"generating_change", "failed"}
      BY <1>4, <3>3 DEF TransitionTask, AgentsSettle
    <3> QED BY <3>1, <3>2, <3>3
  <2>3. to \in Producing => taskStatus[t] \in Producing \/ to = "generating_change"
    BY <2>1, Statuses DEF TaskTransitions, Producing
  <2>4. (to = "generating_change" /\ taskAgent[t] \in Agent) =>
          agentStatus'[taskAgent[t]] # "ready"
    BY <1>4, Statuses DEF TransitionTask, MoveAgents, Moved, AgentTransitions
  <2>5. /\ reopened' = IF taskStatus[t] = "completed" THEN reopened \cup {t} ELSE reopened
        /\ to \in Unbegun => taskStatus[t] \in Unbegun \/ taskStatus[t] = "completed"
    BY <1>4, <2>1, Statuses DEF TransitionTask, TaskTransitions, Unbegun, Waiting
  <2>6. TasksAdvance
    BY <2>1, <2>3, <2>4, <2>5 DEF TasksAdvance
  <2> QED BY <2>1, <2>2, <2>6
<1>5. ASSUME NEW e \in Evidence, RecordTaskEvidence(e)
      PROVE  IssuesNothing
  BY <1>5 DEF RecordTaskEvidence, taskVars, agentVars, AgentsSettle, TasksAdvance
<1>6. ASSUME NEW t \in Task, NEW ids \in SUBSET EvidenceId, CompleteTask(t, ids)
      PROVE  IssuesNothing
  <2> DEFINE s == [Schedule EXCEPT !.task[t] = "completed"]
             r == ProgressAfterTaskCompletion(s, t, taskEvidence')
  <2>1. s \in ScheduleType /\ s.task = [taskStatus EXCEPT ![t] = "completed"]
    BY ScheduleIsTyped, Statuses DEF ScheduleType, Schedule
  <2>2. r \in ScheduleType /\ Readied(s, r) /\ taskStatus' = r.task
    <3>1. taskStatus' = r.task
      BY <1>6 DEF CompleteTask, Adopt
    <3> HIDE DEF s
    <3> QED BY <2>1, <3>1, ProgressSchedules
  <2>3. TasksAdvance
    <3>1. reopened' = reopened \ {t}
      BY <1>6 DEF CompleteTask
    <3> HIDE DEF s, r
    <3> QED BY <2>1, <2>2, <3>1, ScheduledTasksAdvance
  <2>4. AgentsSettle
    BY <1>6, MovedAgents DEF CompleteTask, AgentsSettle
  <2> QED BY <1>6, <2>3, <2>4 DEF CompleteTask
<1>7. ASSUME NEW g \in Gate, ConfirmPhaseGate(g)
      PROVE  IssuesNothing
  <2> DEFINE r == PhaseDone(Schedule, GatePhase[g])
  <2>1. r \in ScheduleType /\ Readied(Schedule, r) /\ Schedule.task = taskStatus
    BY ScheduleIsTyped, PhaseDoneSchedules, ContentAssumption DEF Schedule
  <2>2. taskStatus' = r.task \/ taskStatus' = taskStatus
    BY <1>7 DEF ConfirmPhaseGate, PhaseDone, Adopt, Schedule
  <2>3. TasksAdvance
    <3>r. reopened' = reopened
      BY <1>7 DEF ConfirmPhaseGate
    <3>1. CASE taskStatus' = taskStatus
      BY <3>r, <3>1 DEF TasksAdvance
    <3>2. CASE taskStatus' = r.task
      <4> HIDE DEF r
      <4> QED BY <2>1, <3>r, <3>2, ScheduledTasksAdvance, ScheduleIsTyped
    <3> QED BY <2>2, <3>1, <3>2
  <2> QED BY <1>7, <2>3 DEF ConfirmPhaseGate, agentVars, AgentsSettle
<1>8. ASSUME NEW roots \in SUBSET Task, MarkPlanningRevision(roots)
      PROVE  IssuesNothing
  <2>1. AgentsSettle
    BY <1>8, MovedAgents DEF MarkPlanningRevision, AgentsSettle
  <2>2. TasksAdvance
    BY <1>8, Statuses
    DEF MarkPlanningRevision, TasksAdvance, Moved, TaskTransitions, Waiting, Producing, Unbegun
  <2> QED BY <1>8, <2>1, <2>2 DEF MarkPlanningRevision
<1>9. CASE PauseRun \/ ResumeRun
  BY <1>9 DEF PauseRun, ResumeRun, taskVars, agentVars, AgentsSettle, TasksAdvance
<1>10. CASE CancelRun
  <2>1. AgentsSettle
    BY <1>10, MovedAgents DEF CancelRun, AgentsSettle
  <2>2. TasksAdvance
    BY <1>10 DEF CancelRun, TasksAdvance, Moved, Waiting, Producing, Unbegun
  <2> QED BY <1>10, <2>1, <2>2 DEF CancelRun
<1>11. CASE UNCHANGED vars
  BY <1>11 DEF vars, taskVars, agentVars, AgentsSettle, TasksAdvance
<1> HIDE DEF TypeOK, IssuesNothing
<1> QED BY <1>1, <1>2, <1>3, <1>4, <1>5, <1>6, <1>7, <1>8, <1>9, <1>10, <1>11 DEF Quiet

-----------------------------------------------------------------------------
(* Steps that issue an agent.                                               *)

LEMMA BeginTaskKeepsAgents ==
  ASSUME AgentInv, TypeOK', NEW t \in Task, NEW m \in Model, NEW a \in Agent,
         BeginTask(t, m, a)
  PROVE  AgentInv'
<1> USE DEF TypeOK
<1>1. /\ agentTask' = [agentTask EXCEPT ![a] = t]
      /\ agentStatus' = [agentStatus EXCEPT ![a] = "ready"]
      /\ taskAgent' = [taskAgent EXCEPT ![t] = a]
      /\ taskStatus' = [taskStatus EXCEPT ![t] = "assembling_context"]
      /\ taskStatus[t] = "ready" /\ agentTask[a] = NoTask
  BY DEF BeginTask, Unissued
<1>2. \A u \in Task \ {t} : taskAgent[u] # a
  BY <1>1, ContentAssumption DEF AgentInv
<1>3. \A b \in Agent \ {a} : Live(b)' => Live(b) /\ agentTask'[b] = agentTask[b]
  BY <1>1 DEF Live, Unissued, AgentInv
<1>4. \A b \in Agent : Live(b) => agentTask[b] # t
  BY <1>1 DEF AgentInv, Waiting
<1>5. \A b \in Agent : Live(b) => agentTask[b] \in Task
  BY DEF AgentInv, Live, Unissued
<1>6. \A u \in Task : taskAgent'[u] \in Agent => agentTask'[taskAgent'[u]] = u
  BY <1>1, <1>2 DEF AgentInv
<1>7. \A b \in Agent : Live(b)' =>
        taskAgent'[agentTask'[b]] = b /\ taskStatus'[agentTask'[b]] \notin Waiting
  BY <1>1, <1>3, <1>4, <1>5 DEF AgentInv, Waiting
<1>8. \A u \in Task : (taskAgent'[u] \in Agent /\ taskStatus'[u] \in Producing) =>
        agentStatus'[taskAgent'[u]] # "ready"
  BY <1>1, <1>2 DEF AgentInv, Producing
<1> QED BY <1>6, <1>7, <1>8 DEF AgentInv

LEMMA BeginRepairKeepsAgents ==
  ASSUME AgentInv, TypeOK', NEW t \in Task, NEW e \in evidence, NEW m \in Model,
         NEW a \in Agent, BeginRepair(t, e, m, a)
  PROVE  AgentInv'
<1> USE DEF TypeOK
<1>1. /\ agentTask' = [agentTask EXCEPT ![a] = t]
      /\ taskAgent' = [taskAgent EXCEPT ![t] = a]
      /\ taskStatus' = [taskStatus EXCEPT ![t] = "repairing"]
      /\ taskStatus[t] \in {"verifying", "repairing"} /\ agentTask[a] = NoTask
  BY DEF BeginRepair, Unissued, UnderVerification
<1>2. PICK ended \in {"failed", "completed"} :
        agentStatus' = [MoveAgents({taskAgent[t]}, ended) EXCEPT ![a] = "running"]
  BY DEF BeginRepair
<1>3. MoveAgents({taskAgent[t]}, ended) \in [Agent -> AgentStatus]
  BY MoveAgentsIsTyped DEF AgentInv
<1>4. /\ agentStatus'[a] = "running"
      /\ \A b \in Agent \ {a} : agentStatus'[b] = MoveAgents({taskAgent[t]}, ended)[b]
  BY <1>2, <1>3
<1>5. \A b \in Agent \ {a} : agentStatus'[b] \in {agentStatus[b], "failed", "completed"}
  BY <1>4, MovedAgents
<1>6. \A u \in Task \ {t} : taskAgent[u] # a
  BY <1>1, ContentAssumption DEF AgentInv
<1>7. \A b \in Agent \ {a} : Live(b)' => Live(b) /\ agentTask'[b] = agentTask[b]
  BY <1>1, <1>5 DEF Live, Unissued, AgentInv
<1>8. ASSUME NEW b \in Agent \ {a}, Live(b)' PROVE agentTask[b] # t
  <2>1. SUFFICES ASSUME agentTask[b] = t PROVE FALSE
    OBVIOUS
  <2>2. taskAgent[t] = b /\ agentStatus[b] = "running"
    BY <1>1, <1>7, <1>8, <2>1 DEF AgentInv, Live, Producing
  <2>3. agentStatus'[b] = ended
    BY <1>4, <2>2 DEF MoveAgents, Moved, AgentTransitions
  <2> QED BY <1>8, <2>3 DEF Live
<1>9. \A b \in Agent : Live(b) => agentTask[b] \in Task
  BY DEF AgentInv, Live, Unissued
<1>10. \A u \in Task : taskAgent'[u] \in Agent => agentTask'[taskAgent'[u]] = u
  BY <1>1, <1>6 DEF AgentInv
<1>11. \A b \in Agent : Live(b)' =>
         taskAgent'[agentTask'[b]] = b /\ taskStatus'[agentTask'[b]] \notin Waiting
  <2>1. ASSUME NEW b \in Agent \ {a}, Live(b)'
        PROVE  taskAgent'[agentTask'[b]] = b /\ taskStatus'[agentTask'[b]] \notin Waiting
    BY <1>1, <1>7, <1>8, <1>9, <2>1 DEF AgentInv
  <2>2. taskAgent'[agentTask'[a]] = a /\ taskStatus'[agentTask'[a]] \notin Waiting
    BY <1>1 DEF AgentInv, Waiting
  <2> QED BY <2>1, <2>2
<1>12. \A u \in Task : (taskAgent'[u] \in Agent /\ taskStatus'[u] \in Producing) =>
         agentStatus'[taskAgent'[u]] # "ready"
  BY <1>1, <1>4, <1>5, <1>6 DEF AgentInv
<1> QED BY <1>10, <1>11, <1>12 DEF AgentInv

LEMMA RerunKeepsAgents ==
  ASSUME AgentInv, TypeOK', NEW root \in Task, NEW m \in Model, NEW a \in Agent,
         RerunTaskWithModel(root, m, a)
  PROVE  AgentInv'
<1> DEFINE affected == DependentTasks({root})
           moved == MoveAgents(AgentsOf(affected), "stale")
<1> USE DEF TypeOK
<1>1. /\ agentTask' = [agentTask EXCEPT ![a] = root]
      /\ taskAgent' = [taskAgent EXCEPT ![root] = a]
      /\ agentStatus' = [moved EXCEPT ![a] = "ready"]
      /\ agentTask[a] = NoTask
      /\ taskStatus'[root] = "assembling_context"
      /\ \A u \in Task \ affected : u = root \/ taskStatus'[u] = taskStatus[u]
      /\ \A u \in affected : u = root \/ taskStatus'[u] = "pending"
  BY DEF RerunTaskWithModel, Unissued, AgentInv, DependentTasks
<1>2. moved \in [Agent -> AgentStatus]
  BY MoveAgentsIsTyped DEF AgentInv
<1>3. root \in affected
  BY RootsAffected
<1>4. /\ agentStatus'[a] = "ready"
      /\ \A b \in Agent \ {a} : agentStatus'[b] = moved[b]
  <2> HIDE DEF moved
  <2> QED BY <1>1, <1>2
<1>5. \A b \in Agent \ {a} : agentStatus'[b] \in {agentStatus[b], "stale"}
  BY <1>4, MovedAgents
<1>6. ASSUME NEW b \in Agent \ {a}, Live(b)'
      PROVE  /\ Live(b) /\ agentTask'[b] = agentTask[b]
             /\ agentTask[b] \in Task \ affected
  <2>1. Live(b) /\ agentTask'[b] = agentTask[b] /\ agentTask[b] \in Task
    BY <1>1, <1>5, <1>6 DEF Live, Unissued, AgentInv
  <2>2. "stale" \in AgentTransitions[agentStatus[b]]
    BY <2>1 DEF Live, AgentTransitions
  <2>3. agentTask[b] \in affected => agentStatus'[b] = "stale"
    BY <1>4, <2>2 DEF MoveAgents, Moved, AgentsOf
  <2> QED BY <1>6, <2>1, <2>3 DEF Live
<1> HIDE DEF affected, moved
<1>7. \A u \in Task \ {root} : taskAgent'[u] = taskAgent[u] /\ taskAgent[u] # a
  BY <1>1, ContentAssumption DEF AgentInv
<1>8. \A u \in Task : taskAgent'[u] \in Agent => agentTask'[taskAgent'[u]] = u
  BY <1>1, <1>7 DEF AgentInv
<1>9. \A b \in Agent : Live(b)' =>
        taskAgent'[agentTask'[b]] = b /\ taskStatus'[agentTask'[b]] \notin Waiting
  <2>1. ASSUME NEW b \in Agent \ {a}, Live(b)'
        PROVE  taskAgent'[agentTask'[b]] = b /\ taskStatus'[agentTask'[b]] \notin Waiting
    BY <1>1, <1>3, <1>6, <1>7, <2>1 DEF AgentInv
  <2>2. taskAgent'[agentTask'[a]] = a /\ taskStatus'[agentTask'[a]] \notin Waiting
    BY <1>1 DEF AgentInv, Waiting
  <2> QED BY <2>1, <2>2
<1>10. \A u \in Task : (taskAgent'[u] \in Agent /\ taskStatus'[u] \in Producing) =>
         agentStatus'[taskAgent'[u]] # "ready"
  BY <1>1, <1>3, <1>5, <1>7 DEF AgentInv, Producing
<1> QED BY <1>8, <1>9, <1>10 DEF AgentInv

-----------------------------------------------------------------------------
(* The theorems.                                                            *)

LEMMA AgentInvInit == Init => AgentInv
  BY InitTyped, ContentAssumption DEF Init, AgentInv, Live, Unissued

LEMMA AgentInvStep == AgentInv /\ [Next]_vars => AgentInv'
<1> SUFFICES ASSUME AgentInv, [Next]_vars PROVE AgentInv'
  OBVIOUS
<1>t. TypeOK /\ TypeOK'
  BY StepTyped DEF AgentInv
<1>1. CASE Quiet
  BY <1>1, <1>t, QuietIssuesNothing, QuietKeepsAgents
<1> QED BY <1>1, <1>t, AgentStepCases, BeginTaskKeepsAgents, BeginRepairKeepsAgents,
           RerunKeepsAgents

(* At any time at most the latest agent run of a task can still act,        *)
(* through every mix of repairs, reruns, failures and revisions.            *)
THEOREM OnlyTheLatestAgentLives == Spec => []OneLiveAgent
<1>1. AgentInv => OneLiveAgent
  BY DEF AgentInv, OneLiveAgent, Live
<1> QED BY <1>1, AgentInvInit, AgentInvStep, PTL DEF Spec

-----------------------------------------------------------------------------
(* Cancellation.  What a cancelled run still accepts finishes work past the *)
(* patch or takes up a completed task again: nothing it does readies a task,*)
(* starts an agent or leaves the cancelled status.                          *)

QuiescenceInv == TypeOK /\ CancelledRunQuiesces

(* A quiet step of a cancelled run starts no agent and readies no task.     *)
LEMMA CancelledStaysQuiet ==
  ASSUME TypeOK, TypeOK', CancelledRunQuiesces, runStatus = "cancelled", Quiet
  PROVE  CancelledRunQuiesces'
<1>1. /\ \A a \in Agent : ~Unissued(a) => agentStatus[a] \notin {"ready", "running"}
      /\ \A t \in Task : taskStatus[t] \notin Waiting
      /\ \A t \in Task : taskStatus[t] \in Unbegun => t \in reopened
  BY DEF CancelledRunQuiesces, Waiting, Unbegun
<1>2. IssuesNothing
  BY QuietIssuesNothing
<1>3. \A a \in Agent : ~Unissued(a)' => agentStatus'[a] \notin {"ready", "running"}
  BY <1>1, <1>2 DEF IssuesNothing, AgentsSettle, Unissued
<1>4. /\ \A t \in Task : taskStatus'[t] \notin Waiting
      /\ \A t \in Task : taskStatus'[t] \in Unbegun => t \in reopened'
  BY <1>1, <1>2 DEF IssuesNothing, TasksAdvance
<1> QED BY <1>3, <1>4 DEF CancelledRunQuiesces, Waiting, Unbegun

(* Cancelling ends every agent run that has not ended and every task that   *)
(* has not produced a change: their tables allow it from each such status.  *)
LEMMA CancelQuiesces ==
  ASSUME TypeOK, CancelRun
  PROVE  CancelledRunQuiesces'
<1>1. ASSUME NEW a \in Agent, ~Unissued(a)'
      PROVE  agentStatus'[a] \notin {"ready", "running"}
  <2>1. a \in AgentsOf(Task)
    BY <1>1 DEF CancelRun, Unissued, AgentsOf, TypeOK
  <2>2. agentStatus'[a] = Moved(AgentTransitions, agentStatus[a], "cancelled")
    BY <2>1 DEF CancelRun, MoveAgents
  <2> QED BY <2>2, Statuses DEF Moved, AgentTransitions, TypeOK
<1>2. ASSUME NEW t \in Task PROVE taskStatus'[t] \notin Unbegun
  BY Statuses DEF CancelRun, Moved, TaskTransitions, TypeOK, Unbegun
<1> QED BY <1>1, <1>2 DEF CancelledRunQuiesces, Unbegun

(* Cancelling is the only way into the cancelled status, and no command     *)
(* that issues an agent runs there.                                         *)
LEMMA OnlyCancelCancels ==
  ASSUME TypeOK, [Next]_vars, runStatus' = "cancelled"
  PROVE  CancelRun \/ (runStatus = "cancelled" /\ Quiet)
<1>1. CASE Quiet
  <2>1. CASE StartDevelopmentRun
    <3> DEFINE s == MoveRun(Schedule, "running")
    <3>1. s \in ScheduleType /\ s.run = "running"
      BY <2>1, ScheduleIsTyped, Statuses
      DEF MoveRun, ScheduleType, Schedule, StartDevelopmentRun, Moved, RunTransitions, TypeOK
    <3>2. runStatus' = ActivateNextPhase(s).run
      BY <2>1 DEF StartDevelopmentRun, Adopt
    <3> HIDE DEF s
    <3> QED BY <3>1, <3>2, ActivateNextPhaseSchedules
  <2>2. ASSUME NEW t \in Task, NEW ids \in SUBSET EvidenceId, CompleteTask(t, ids)
        PROVE  runStatus = "cancelled"
    <3> DEFINE s == [Schedule EXCEPT !.task[t] = "completed"]
               r == ProgressAfterTaskCompletion(s, t, taskEvidence')
    <3>1. s \in ScheduleType /\ s.run = runStatus
      BY ScheduleIsTyped, Statuses DEF ScheduleType, Schedule
    <3>2. runStatus' = r.run
      BY <2>2 DEF CompleteTask, Adopt
    <3>3. ProgressedRun(s, r)
      <4> HIDE DEF s
      <4> QED BY <3>1, ProgressSchedules
    <3> HIDE DEF s, r
    <3> QED BY <3>1, <3>2, <3>3 DEF ProgressedRun
  <2>3. ASSUME NEW g \in Gate, ConfirmPhaseGate(g)
        PROVE  runStatus = "cancelled"
    <3> DEFINE r == PhaseDone(Schedule, GatePhase[g])
    <3>1. r.run \in {runStatus, "running", "completed"}
      BY ScheduleIsTyped, PhaseDoneSchedules, ContentAssumption DEF Schedule
    <3>2. runStatus' \in {r.run, runStatus}
      BY <2>3 DEF ConfirmPhaseGate, PhaseDone, Adopt, Schedule
    <3> HIDE DEF r
    <3> QED BY <3>1, <3>2
  <2>4. ASSUME \/ \E t \in Task : RequireDevelopmentUserAction(t)
               \/ \E roots \in SUBSET Task : MarkPlanningRevision(roots)
               \/ PauseRun \/ ResumeRun
        PROVE  FALSE
    BY <2>4 DEF RequireDevelopmentUserAction, MarkPlanningRevision, Moved, PauseRun, ResumeRun
  <2>5. ASSUME \/ \E x \in repairHistory, to \in AttemptStatus :
                    RecordRepairAttemptOutcome(x, to)
               \/ \E t \in Task, to \in TaskStatus :
                    TransitionTask(t, to)
               \/ \E e \in Evidence : RecordTaskEvidence(e)
               \/ UNCHANGED vars
        PROVE  runStatus = "cancelled"
    BY <2>5 DEF RecordRepairAttemptOutcome, TransitionTask, RecordTaskEvidence, vars
  <2> QED BY <1>1, <2>1, <2>2, <2>3, <2>4, <2>5 DEF Quiet
<1>2. ASSUME \/ \E t \in Task, m \in Model, a \in Agent : BeginTask(t, m, a)
             \/ \E t \in Task, e \in evidence, m \in Model, a \in Agent :
                  BeginRepair(t, e, m, a)
             \/ \E t \in Task, m \in Model, a \in Agent : RerunTaskWithModel(t, m, a)
      PROVE  FALSE
  BY <1>2 DEF BeginTask, BeginRepair, RerunTaskWithModel, Moved
<1> QED BY <1>1, <1>2, AgentStepCases

LEMMA QuiescenceInvStep == QuiescenceInv /\ [Next]_vars => QuiescenceInv'
<1> SUFFICES ASSUME QuiescenceInv, [Next]_vars PROVE CancelledRunQuiesces'
  BY StepTyped DEF QuiescenceInv
<1>t. TypeOK /\ TypeOK' /\ CancelledRunQuiesces
  BY StepTyped DEF QuiescenceInv
<1>1. CASE runStatus' # "cancelled"
  BY <1>1 DEF CancelledRunQuiesces
<1>2. CASE runStatus' = "cancelled"
  BY <1>2, <1>t, OnlyCancelCancels, CancelQuiesces, CancelledStaysQuiet
<1> QED BY <1>1, <1>2

(* After cancellation no agent run is live and no task can be begun, also   *)
(* while work that was past its patch still reports and completes; only     *)
(* transitionTask can take up a completed task again.                       *)
THEOREM CancellationQuiesces == Spec => []CancelledRunQuiesces
<1>1. Init => QuiescenceInv
  BY InitTyped DEF Init, QuiescenceInv, CancelledRunQuiesces
<1>2. QuiescenceInv => CancelledRunQuiesces
  BY DEF QuiescenceInv
<1> QED BY <1>1, <1>2, QuiescenceInvStep, PTL DEF Spec

-----------------------------------------------------------------------------
(* The driver.                                                              *)

(* SerialWork, strengthened: a task is at work only in a running run, so    *)
(* the confirmation of a gate finds none; and a completed run has only      *)
(* completed tasks, since the driver takes none up again.                   *)
DriverInv ==
  /\ CompletionInv /\ SerialWork /\ reopened = {}
  /\ \A t \in Task : AtWork(t) => runStatus = "running"

DriverCommand ==
  \/ StartDevelopmentRun
  \/ \E t \in Task, m \in Model, a \in Agent : BeginTask(t, m, a)
  \/ \E t \in Task, to \in {"generating_change", "applying_patch", "verifying"} :
       TransitionTask(t, to)
  \/ \E e \in Evidence : RecordTaskEvidence(e)
  \/ \E t \in Task, ids \in SUBSET EvidenceId : CompleteTask(t, ids)
  \/ \E g \in Gate : ConfirmPhaseGate(g)

(* Every step of the driver is a command of the aggregate.                  *)
LEMMA DriveCommands == ASSUME TypeOK, Drive PROVE DriverCommand
<1>1. CASE BeginSelected
  <2>1. PICK m \in Model, a \in Agent : BeginTask(SelectNextReadyTask, m, a)
    BY <1>1 DEF BeginSelected
  <2>2. ReadyTasks \in SUBSET Task /\ ReadyTasks # {}
    BY <1>1 DEF BeginSelected, ReadyTasks
  <2>3. SelectNextReadyTask \in Task
    BY <2>2, FirstMember, PlanAssumption DEF SelectNextReadyTask
  <2> QED BY <2>1, <2>3 DEF DriverCommand
<1>2. ASSUME NEW t \in Task, RecordPass(t) PROVE DriverCommand
  BY <1>2 DEF RecordPass, DriverCommand
<1>3. ASSUME NEW t \in Task, CompleteProved(t) PROVE DriverCommand
  <2>1. {e.id : e \in {f \in ValidEvidence : TaskOf(f) = t}} \in SUBSET EvidenceId
    BY DEF TypeOK, ValidEvidence, Evidence
  <2> QED BY <1>3, <2>1 DEF CompleteProved, DriverCommand
<1>4. ASSUME NEW t \in Task, PatchSelected(t) PROVE DriverCommand
  BY <1>4 DEF PatchSelected, DriverCommand
<1> QED BY <1>1, <1>2, <1>3, <1>4 DEF Drive, DriverCommand

LEMMA DriverCommandsAreCommands == DriverCommand => Next
<1> SUFFICES ASSUME DriverCommand PROVE Next
  OBVIOUS
<1>1. {"generating_change", "applying_patch", "verifying"} \subseteq TaskStatus
  BY Statuses
<1> QED BY <1>1 DEF DriverCommand, Next

(* The statuses of a task that is not at work.                              *)
Resting == {"pending", "completed", "stale", "cancelled", "blocked", "failed", "rolled_back"}

(* Work is handed on: after a schedule at most one task is at work when     *)
(* none was before it.                                                      *)
LEMMA ScheduledWork ==
  ASSUME NEW s \in ScheduleType, NEW r \in ScheduleType, Readied(s, r), taskStatus' = r.task,
         \A t \in Task : s.task[t] \in Resting
  PROVE  SerialWork' /\ (r.task = s.task => \A t \in Task : ~AtWork(t)')
<1>1. CASE r.task = s.task
  BY <1>1 DEF AtWork, SerialWork, Resting
<1>2. ASSUME NEW n \in Task, r.task = [s.task EXCEPT ![n] = "ready"], r.task # s.task
      PROVE  SerialWork' /\ (r.task = s.task => \A t \in Task : ~AtWork(t)')
  <2>1. \A t \in Task : AtWork(t)' => t = n
    BY <1>2 DEF AtWork, ScheduleType, Resting
  <2> QED BY <1>2, <2>1 DEF SerialWork
<1> QED BY <1>1, <1>2 DEF Readied

LEMMA AtWorkOrResting ==
  ASSUME TypeOK, NEW t \in Task PROVE ~AtWork(t) <=> taskStatus[t] \in Resting
  BY Statuses DEF TypeOK, AtWork, Resting

(* A completed run has only completed tasks, so none is at work.            *)
LEMMA CompletedRunRests ==
  CompletionIsEarned /\ reopened = {} /\ runStatus = "completed" =>
    \A t \in Task : ~AtWork(t)
<1> SUFFICES ASSUME CompletionIsEarned, reopened = {}, runStatus = "completed", NEW t \in Task
             PROVE  ~AtWork(t)
  OBVIOUS
<1>1. TaskPhase[t] \in Phase
  BY PlanAssumption
<1>2. WorkDone(TaskPhase[t])
  BY <1>1 DEF CompletionIsEarned
<1>3. taskStatus[t] = "completed"
  BY <1>2 DEF WorkDone, CompletedOrReopened, PhaseTasks
<1> QED BY <1>3 DEF AtWork

LEMMA DriverInvStep == DriverInv /\ [Drive]_vars => DriverInv'
<1> SUFFICES ASSUME DriverInv, [Drive]_vars PROVE DriverInv'
  OBVIOUS
<1>1. TypeOK
  BY DEF DriverInv, CompletionInv, StaleInv
<1>2. [Next]_vars
  BY <1>1, DriveCommands, DriverCommandsAreCommands
<1>3. CompletionInv' /\ TypeOK' /\ CompletionIsEarned'
  BY <1>2, CompletionInvStep DEF DriverInv, CompletionInv, StaleInv
<1>r. reopened' = {}
  <2>1. reopened = {}
    BY DEF DriverInv
  <2>2. CASE DriverCommand
    <3>1. ASSUME NEW t \in Task, NEW to \in {"generating_change", "applying_patch", "verifying"},
                 TransitionTask(t, to)
          PROVE  taskStatus[t] # "completed"
      BY <3>1 DEF TransitionTask, TaskTransitions
    <3> QED BY <2>1, <2>2, <3>1
         DEF DriverCommand, StartDevelopmentRun, BeginTask, TransitionTask, RecordTaskEvidence,
             CompleteTask, ConfirmPhaseGate
  <2>3. CASE UNCHANGED vars
    BY <2>1, <2>3 DEF vars
  <2> QED BY <1>1, <2>2, <2>3, DriveCommands
<1>4. runStatus' = "completed" => \A t \in Task : ~AtWork(t)'
  <2>1. (CompletionIsEarned /\ reopened = {} /\ runStatus = "completed" =>
           \A t \in Task : ~AtWork(t))'
    BY CompletedRunRests, PTL
  <2> QED BY <1>3, <1>r, <2>1
<1> DEFINE Serial == SerialWork' /\ \A t \in Task : AtWork(t)' => runStatus' = "running"
<1> SUFFICES Serial
  BY <1>3, <1>r DEF DriverInv
<1>5. SerialWork /\ \A t \in Task : AtWork(t) => runStatus = "running"
  BY DEF DriverInv
<1>6. CASE StartDevelopmentRun
  <2> DEFINE s == MoveRun(Schedule, "running")
             r == ActivateNextPhase(s)
  <2>1. s \in ScheduleType /\ s.task = taskStatus /\ s.run = "running"
    <3>1. Moved(RunTransitions, runStatus, "running") = "running"
      BY <1>6 DEF StartDevelopmentRun, Moved, RunTransitions
    <3> QED BY <1>1, <3>1, Statuses, ScheduleIsTyped DEF MoveRun, Schedule, ScheduleType
  <2>2. \A t \in Task : s.task[t] \in Resting
    BY <1>1, <1>5, <1>6, <2>1, AtWorkOrResting DEF StartDevelopmentRun
  <2>3. Adopt(r)
    BY <1>6 DEF StartDevelopmentRun
  <2> HIDE DEF s
  <2>4. r \in ScheduleType /\ Readied(s, r) /\ r.run = "running"
    BY <2>1, ActivateNextPhaseSchedules
  <2> HIDE DEF r
  <2> QED BY <2>1, <2>2, <2>3, <2>4, ScheduledWork DEF Adopt
<1>7. ASSUME NEW t \in Task, NEW m \in Model, NEW a \in Agent, BeginTask(t, m, a)
      PROVE  Serial
  BY <1>1, <1>5, <1>7 DEF BeginTask, SerialWork, AtWork, TypeOK
<1>8. ASSUME NEW t \in Task, NEW to \in {"generating_change", "applying_patch", "verifying"},
             TransitionTask(t, to)
      PROVE  Serial
  <2>1. AtWork(t)
    BY <1>1, <1>8, Statuses DEF TransitionTask, TypeOK, TaskTransitions, AtWork
  <2>2. taskStatus' = [taskStatus EXCEPT ![t] = to] /\ runStatus' = runStatus
    BY <1>8 DEF TransitionTask
  <2>3. \A u \in Task : AtWork(u)' => AtWork(u)
    BY <1>1, <2>1, <2>2 DEF AtWork, TypeOK
  <2> QED BY <1>5, <2>2, <2>3 DEF SerialWork
<1>9. ASSUME NEW e \in Evidence, RecordTaskEvidence(e)
      PROVE  Serial
  BY <1>5, <1>9 DEF RecordTaskEvidence, taskVars, SerialWork, AtWork
<1>10. ASSUME NEW t \in Task, NEW ids \in SUBSET EvidenceId, CompleteTask(t, ids)
       PROVE  Serial
  <2> DEFINE s == [Schedule EXCEPT !.task[t] = "completed"]
             r == ProgressAfterTaskCompletion(s, t, taskEvidence')
  <2>1. AtWork(t) /\ runStatus = "running" /\ \A u \in Task : AtWork(u) => u = t
    BY <1>5, <1>10 DEF CompleteTask, AtWork, SerialWork
  <2>2. /\ s \in ScheduleType /\ s.run = "running"
        /\ s.task = [taskStatus EXCEPT ![t] = "completed"]
    BY <1>1, <2>1, ScheduleIsTyped, Statuses DEF ScheduleType, Schedule
  <2>3. Adopt(r)
    BY <1>10 DEF CompleteTask
  <2> HIDE DEF s
  <2>4. \A u \in Task : s.task[u] \in Resting
    <3>1. \A u \in Task : u # t => taskStatus[u] \in Resting
      BY <1>1, <2>1, AtWorkOrResting
    <3> QED BY <1>1, <2>2, <3>1 DEF Resting, TypeOK
  <2>5. r \in ScheduleType /\ Readied(s, r) /\ ProgressedRun(s, r)
    BY <2>2, ProgressSchedules
  <2> HIDE DEF r
  <2>6. taskStatus' = r.task /\ runStatus' = r.run
    BY <2>3 DEF Adopt
  <2>7. SerialWork' /\ (r.task = s.task => \A u \in Task : ~AtWork(u)')
    BY <2>2, <2>4, <2>5, <2>6, ScheduledWork
  <2> QED BY <1>4, <2>2, <2>5, <2>6, <2>7 DEF ProgressedRun
<1>11. ASSUME NEW g \in Gate, ConfirmPhaseGate(g)
       PROVE  Serial
  <2> DEFINE p == GatePhase[g]
             r == PhaseDone(Schedule, p)
  <2>1. runStatus = "awaiting_user_gate" /\ \A t \in Task : ~AtWork(t)
    BY <1>5, <1>11 DEF ConfirmPhaseGate
  <2>2. CASE ~(PhaseGates(p) \subseteq confirmed')
    <3>1. taskStatus' = taskStatus
      BY <1>11, <2>2 DEF ConfirmPhaseGate, Adopt, Schedule
    <3> QED BY <2>1, <3>1 DEF AtWork, SerialWork
  <2>3. CASE PhaseGates(p) \subseteq confirmed'
    <3>1. Adopt(r)
      BY <1>11, <2>3 DEF ConfirmPhaseGate, PhaseDone
    <3>2. Schedule \in ScheduleType /\ Schedule.task = taskStatus /\ Schedule.run = runStatus
      BY <1>1, ScheduleIsTyped DEF Schedule
    <3>3. /\ r \in ScheduleType /\ Readied(Schedule, r)
          /\ r.run = "completed" \/ r.run = Moved(RunTransitions, runStatus, "running")
      BY <3>2, PhaseDoneSchedules, ContentAssumption
    <3>4. Moved(RunTransitions, runStatus, "running") = "running"
      BY <2>1 DEF Moved, RunTransitions
    <3>5. \A t \in Task : Schedule.task[t] \in Resting
      BY <1>1, <2>1, <3>2, AtWorkOrResting
    <3> HIDE DEF r
    <3>6. taskStatus' = r.task /\ runStatus' = r.run
      BY <3>1 DEF Adopt
    <3>7. SerialWork'
      BY <3>2, <3>3, <3>5, <3>6, ScheduledWork
    <3> QED BY <1>4, <3>3, <3>4, <3>6, <3>7
  <2> QED BY <2>2, <2>3
<1>12. CASE UNCHANGED vars
  BY <1>5, <1>12 DEF vars, taskVars, SerialWork, AtWork
<1> HIDE DEF Serial
<1>13. CASE Drive
  BY <1>1, <1>6, <1>7, <1>8, <1>9, <1>10, <1>11, <1>13, DriveCommands DEF DriverCommand
<1> QED BY <1>12, <1>13

(* Driven to its end without reruns, a run has one task at work at a time,  *)
(* for every plan the graph validation accepts: the scheduler readies a     *)
(* task only when the last one is completed.                                *)
THEOREM DriverWorksSerially == DriverSpec => []SerialWork
<1>1. Init => DriverInv
  BY CompletionInvInit DEF Init, DriverInv, SerialWork, AtWork
<1>2. DriverInv => SerialWork
  BY DEF DriverInv
<1> QED BY <1>1, <1>2, DriverInvStep, PTL DEF DriverSpec

(* The driver only issues commands the aggregate accepts: each of its runs  *)
(* is one of the runs that every theorem above is about.                    *)
THEOREM DriverDrivesARun == DriverSpec => Spec
<1>1. Init => DriverInv
  BY CompletionInvInit DEF Init, DriverInv, SerialWork, AtWork
<1>2. DriverInv => TypeOK
  BY DEF DriverInv, CompletionInv, StaleInv
<1>3. TypeOK /\ [Drive]_vars => [Next]_vars
  BY DriveCommands, DriverCommandsAreCommands
<1> QED BY <1>1, <1>2, <1>3, DriverInvStep, PTL DEF DriverSpec, Spec

=============================================================================
