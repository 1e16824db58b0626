-------------------------- MODULE DevelopmentDriver --------------------------
(***************************************************************************)
(* The loop that drives a run to its end when nothing goes wrong, as the   *)
(* closure test packages/development-evals/test/gate-g3-closure.test.ts    *)
(* does: begin the task the scheduler selects, apply its patch, record     *)
(* passing evidence for each required step and complete it.  Gates are     *)
(* confirmed as the lab application does for the user.  The driver is one  *)
(* sequential process, so it is weakly fair: it keeps issuing its next     *)
(* command as long as there is one.                                        *)
(***************************************************************************)
EXTENDS DevelopmentRun

(* selectNextReadyTask.                                                     *)
ReadyTasks == IF runStatus = "running" THEN {t \in Task : taskStatus[t] = "ready"} ELSE {}
SelectNextReadyTask == First(ReadyTasks, TaskRank)

Proved(t, s) == \E e \in ValidEvidence :
  e.step = s /\ e.model = taskModel[t] /\ e.outcome = "passed"

(* The ids are handed out in order, as the driver's counters do.            *)
Earliest(i, S) == i \in S /\ \A j \in S : i <= j

BeginSelected ==
  /\ ReadyTasks # {}
  /\ \E m \in Model, a \in Agent :
       /\ Earliest(a, {b \in Agent : Unissued(b)})
       /\ BeginTask(SelectNextReadyTask, m, a)

PatchSelected(t) == \E to \in {"generating_change", "applying_patch", "verifying"} :
  TransitionTask(t, to)

RecordPass(t) == \E e \in Evidence :
  /\ e.step \in StepsOf(t) /\ ~Proved(t, e.step)
  /\ e.model = taskModel[t] /\ e.outcome = "passed"
  /\ Earliest(e.id, EvidenceId \ {f.id : f \in evidence})
  /\ RecordTaskEvidence(e)

CompleteProved(t) ==
  /\ \A s \in StepsOf(t) : Proved(t, s)
  /\ CompleteTask(t, {e.id : e \in {f \in ValidEvidence : TaskOf(f) = t}})

Drive ==
  \/ StartDevelopmentRun
  \/ BeginSelected
  \/ \E t \in Task : PatchSelected(t) \/ RecordPass(t) \/ CompleteProved(t)
  \/ \E g \in Gate : ConfirmPhaseGate(g)

DriverSpec == Init /\ [][Drive]_vars /\ WF_vars(Drive)

(* Every plan the graph validation accepts is driven to completion: no      *)
(* order of tasks, phases and gates leaves the scheduler with nothing ready.*)
RunCompletes == <>(runStatus = "completed")
=============================================================================
