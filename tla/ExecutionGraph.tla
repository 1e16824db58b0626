---------------------------- MODULE ExecutionGraph ----------------------------
(***************************************************************************)
(* An execution plan on its way into a run: it is drafted and revised,     *)
(* validateExecutionPlan accepts it for approval, validateDevelopmentGraph *)
(* accepts it for the start, and its tasks are completed phase by phase.   *)
(*                                                                         *)
(* Phases and tasks are numbered as the plan lists them.  Only the graph   *)
(* and the names of the user gates are modelled: what both validations     *)
(* refuse in the same words (duplicate phases and tasks, tasks not listed  *)
(* by their phase, gates after and dependencies on phases there are not)   *)
(* does not occur, and coverage and external operations are in order.      *)
(***************************************************************************)
EXTENDS Integers, Sequences, SequencesExt

CONSTANTS
  PhaseCount, TaskCount,
  Gate,             \* identifiers of user gates
  MaxDependencies,  \* bound on the task dependencies of a plan
  MaxGates          \* bound on the user gates of a plan

ASSUME GraphAssumption ==
  /\ PhaseCount \in Nat \ {0} /\ TaskCount \in Nat \ {0}
  /\ MaxDependencies \in Nat /\ MaxGates \in Nat

Phase == 1..PhaseCount
Task == 1..TaskCount
Unknown == 0          \* an identifier that no task has

VARIABLES
  phaseOf,      \* task.phaseId, a phase for each task
  phaseDeps,    \* phase.dependsOnPhaseIds, phases
  taskDeps,     \* task.dependsOn, tasks or Unknown
  userGates,    \* the id of each of plan.userGates
  stage,        \* draft, approved, refused or running
  done          \* the tasks that were completed

vars == <<phaseOf, phaseDeps, taskDeps, userGates, stage, done>>

-----------------------------------------------------------------------------
(* packages/development-domain/src/graph.ts                                *)

\* Nodes whose known dependencies are completed.
AvailableNodes(ids, deps, completed) ==
  {i \in ids \ completed : deps[i] \cap ids \subseteq completed}

\* stableTopologicalOrder over 1..n: the first available node each time,
\* until there is none; a shorter sequence stands for undefined.
StableOrder(n, deps) ==
  LET order[k \in 0..n] ==
        IF k = 0 THEN <<>>
        ELSE LET before == order[k - 1]
                 available == AvailableNodes(1..n, deps, ToSet(before))
             IN IF available = {} THEN before ELSE Append(before, Min(available))
  IN order[n]

\* ancestorsFor: a breadth-first walk, level by level.
AncestorsFor(p) ==
  LET level[k \in 0..PhaseCount] ==
        IF k = 0 THEN phaseDeps[p]
        ELSE level[k - 1] \cup UNION {phaseDeps[q] : q \in level[k - 1]}
  IN level[PhaseCount]

\* a slip: one pass.
DirectDependents(roots) == roots \cup {t \in Task : taskDeps[t] \cap roots # {}}

\* dependentTaskIds: passes over the task order until nothing changes.
DependentTaskIds(roots) ==
  LET pass[k \in 0..TaskCount] ==
        IF k = 0 THEN roots
        ELSE pass[k - 1] \cup {t \in Task : taskDeps[t] \cap pass[k - 1] # {}}
  IN pass[TaskCount]

\* a slip: the phase of a dependency is not looked at.
AnyPhase(t, d) == d \in Task

\* The dependency is in the task's phase or in an ancestor of it.
PhaseAllows(t, d) ==
  phaseOf[d] = phaseOf[t] \/ phaseOf[d] \in AncestorsFor(phaseOf[t])

\* a slip: the list itself must be an order.
IsListedInOrder(n, deps) == \A i \in 1..n : deps[i] \subseteq 1..(i - 1)

HasOrder(n, deps) == Len(StableOrder(n, deps)) = n

\* No two gates have the same identifier.
GatesAreDistinct == IsInjective(userGates)

\* validateDevelopmentGraph finds no issue.
DevelopmentAccepts ==
  /\ \A p \in Phase : p \notin phaseDeps[p]
  /\ HasOrder(PhaseCount, phaseDeps)
  /\ \A t \in Task : t \notin taskDeps[t] /\ taskDeps[t] \subseteq Task
  /\ HasOrder(TaskCount, taskDeps)
  /\ \A t \in Task : \A d \in taskDeps[t] \cap Task : PhaseAllows(t, d)
  /\ GatesAreDistinct

-----------------------------------------------------------------------------
(* packages/planning-domain/src/execution-plan.ts                          *)

\* a slip: the whole path is reported, the way to the cycle included.
WholePath(path, id) == 1

\* Where on the path the cycle that id closes begins.
CycleStart(path, id) == CHOOSE k \in DOMAIN path : path[k] = id

\* cyclicNodes: a depth-first walk from every node, which takes the known
\* dependencies of a node by their numbers; a node met again on the path closes
\* a cycle, one visited before is skipped.
Seen(n) == [visited : SUBSET (1..n), cycles : SUBSET (1..n)]
Visits(n) == [id : 1..n, path : Seq(1..n), seen : Seen(n)]

CyclicNodes(n, deps) ==
  LET visit[v \in Visits(n)] ==
        IF v.id \in ToSet(v.path)
        THEN [v.seen EXCEPT !.cycles =
                @ \cup {v.path[k] : k \in CycleStart(v.path, v.id)..Len(v.path)}]
        ELSE IF v.id \in v.seen.visited THEN v.seen
        ELSE LET below[k \in 0..n] ==
                   IF k = 0 THEN v.seen
                   ELSE IF k \in deps[v.id]
                   THEN visit[[id |-> k, path |-> Append(v.path, v.id), seen |-> below[k - 1]]]
                   ELSE below[k - 1]
             IN [below[n] EXCEPT !.visited = @ \cup {v.id}]
      walk[k \in 0..n] ==
        IF k = 0 THEN [visited |-> {}, cycles |-> {}]
        ELSE visit[[id |-> k, path |-> <<>>, seen |-> walk[k - 1]]]
  IN walk[n].cycles

\* Every known dependency is reached, and one of them has just been.
AllReached(t, reached) ==
  taskDeps[t] \cap reached # {} /\ taskDeps[t] \cap Task \subseteq reached

\* reachableTasks: from the tasks without any dependency.
ReachableTasks ==
  LET wave[k \in 0..TaskCount] ==
        IF k = 0 THEN {t \in Task : taskDeps[t] = {}}
        ELSE wave[k - 1] \cup {t \in Task : AllReached(t, wave[k - 1])}
  IN wave[TaskCount]

\* No dependency on a task of a phase that is listed later.
ListAllows(t, d) == phaseOf[d] <= phaseOf[t]

\* validateExecutionPlan finds no issue with the graph.  It makes a set of the
\* gates' identifiers and does not compare them.
PlanningAccepts ==
  /\ CyclicNodes(PhaseCount, phaseDeps) = {}
  /\ \A t \in Task :
       /\ t \notin taskDeps[t] /\ taskDeps[t] \subseteq Task
       /\ \A d \in taskDeps[t] \cap Task : ListAllows(t, d)
  /\ CyclicNodes(TaskCount, taskDeps) = {}
  /\ ReachableTasks = Task

-----------------------------------------------------------------------------
Init ==
  /\ phaseOf = [t \in Task |-> 1]
  /\ phaseDeps = [p \in Phase |-> {}]
  /\ taskDeps = [t \in Task |-> {}]
  /\ userGates = <<>>
  /\ stage = "draft"
  /\ done = {}

Dependencies == {e \in Task \X (Task \cup {Unknown}) : e[2] \in taskDeps[e[1]]}

\* applyExecutionPlanRevision: a revision replaces the tasks, the phases or the
\* user gates.
ReviseTasks ==
  /\ stage = "draft"
  /\ \E t \in Task :
       \/ \E d \in Task \cup {Unknown} :
            /\ Cardinality(Dependencies) < MaxDependencies
            /\ taskDeps' = [taskDeps EXCEPT ![t] = @ \cup {d}]
            /\ UNCHANGED phaseOf
       \/ \E p \in Phase : phaseOf' = [phaseOf EXCEPT ![t] = p] /\ UNCHANGED taskDeps
  /\ UNCHANGED <<phaseDeps, userGates, stage, done>>

RevisePhases ==
  /\ stage = "draft"
  /\ \E p, q \in Phase : phaseDeps' = [phaseDeps EXCEPT ![p] = @ \cup {q}]
  /\ UNCHANGED <<phaseOf, taskDeps, userGates, stage, done>>

ReviseGates ==
  /\ stage = "draft" /\ Len(userGates) < MaxGates
  /\ \E gate \in Gate : userGates' = Append(userGates, gate)
  /\ UNCHANGED <<phaseOf, phaseDeps, taskDeps, stage, done>>

\* The plan becomes a version and is approved.
Approve ==
  /\ stage = "draft" /\ PlanningAccepts
  /\ stage' = "approved"
  /\ UNCHANGED <<phaseOf, phaseDeps, taskDeps, userGates, done>>

Verdict == IF DevelopmentAccepts THEN "running" ELSE "refused"

\* createDevelopmentAggregate over the approved plan.
Start ==
  /\ stage = "approved"
  /\ stage' = Verdict
  /\ UNCHANGED <<phaseOf, phaseDeps, taskDeps, userGates, done>>

\* A phase starts when those it depends on are complete, a task when its
\* dependencies are.
PhaseIsDone(p) == \A t \in Task : phaseOf[t] = p => t \in done

CanComplete(t) ==
  /\ t \notin done /\ taskDeps[t] \subseteq done
  /\ \A q \in phaseDeps[phaseOf[t]] : PhaseIsDone(q)

CompleteTask(t) ==
  /\ stage = "running" /\ CanComplete(t)
  /\ done' = done \cup {t}
  /\ UNCHANGED <<phaseOf, phaseDeps, taskDeps, userGates, stage>>

Next ==
  \/ ReviseTasks \/ RevisePhases \/ ReviseGates \/ Approve \/ Start
  \/ \E t \in Task : CompleteTask(t)

Spec == Init /\ [][Next]_vars

-----------------------------------------------------------------------------
(* Reference definitions.                                                  *)

\* No set of nodes in which each depends on a member.
IsAcyclic(n, deps) ==
  \A S \in (SUBSET (1..n)) \ {{}} : \E i \in S : deps[i] \cap S = {}

\* A node is on a cycle when it can be reached from a dependency of its own.
OnCycle(n, deps) ==
  {i \in 1..n : \A S \in SUBSET (1..n) :
     (deps[i] \cap 1..n \subseteq S /\ \A j \in S : deps[j] \cap 1..n \subseteq S) => i \in S}

\* Some order of the tasks completes the plan.
IsExecutable ==
  LET after[k \in 0..TaskCount] ==
        IF k = 0 THEN {}
        ELSE after[k - 1] \cup
             {t \in Task :
                /\ taskDeps[t] \subseteq after[k - 1]
                /\ \A q \in phaseDeps[phaseOf[t]] : \A u \in Task :
                     phaseOf[u] = q => u \in after[k - 1]}
  IN after[TaskCount] = Task

\* The stable order is a topological one, and there is one unless the known
\* dependencies are cyclic.
OrderIsTopological(n, deps) ==
  LET order == StableOrder(n, deps)
  IN /\ Len(order) = n <=> IsAcyclic(n, deps)
     /\ \A k \in DOMAIN order : deps[order[k]] \cap 1..n \subseteq {order[j] : j \in 1..(k - 1)}

OrdersAreTopological ==
  stage = "draft" =>
    OrderIsTopological(TaskCount, taskDeps) /\ OrderIsTopological(PhaseCount, phaseDeps)

\* The walk that skips what it has visited still finds a cycle whenever there
\* is one, and reports only nodes of cycles; the tasks reported unreachable are
\* those on a cycle and downstream of one, if every dependency names a task.
CyclesAreFound ==
  stage = "draft" =>
    LET found == CyclicNodes(TaskCount, taskDeps)
        onCycle == OnCycle(TaskCount, taskDeps)
    IN /\ found = {} <=> IsAcyclic(TaskCount, taskDeps)
       /\ found \subseteq onCycle
       /\ (\A t \in Task : taskDeps[t] \subseteq Task)
            => ReachableTasks = Task \ DependentTaskIds(onCycle)

\* What a plan accepted for development guarantees, and module DevelopmentRun
\* assumes: positions in the two orders never put a task before one it
\* depends on, in the task order or in the order of their phases.
AcceptedPlanIsOrdered ==
  stage = "draft" /\ DevelopmentAccepts =>
    LET position(order, i) == CHOOSE k \in DOMAIN order : order[k] = i
        tasks == StableOrder(TaskCount, taskDeps)
        phases == StableOrder(PhaseCount, phaseDeps)
    IN /\ \A t \in Task : \A d \in taskDeps[t] :
            /\ position(tasks, d) < position(tasks, t)
            /\ position(phases, phaseOf[d]) <= position(phases, phaseOf[t])
       /\ \A p \in Phase : \A q \in phaseDeps[p] : position(phases, q) < position(phases, p)

\* Planning and development search the graph for cycles in different ways and
\* agree: development refuses an approved plan only for what planning does not
\* look at, two user gates of one name or a task that depends on a task of a
\* phase which is neither its own nor an ancestor of it.
RefusalsAreExplained ==
  stage = "refused" =>
    ~GatesAreDistinct \/ \E t \in Task : \E d \in taskDeps[t] : ~PhaseAllows(t, d)

\* A run of an accepted plan always has a task that can be completed next.
RunIsNeverStuck ==
  stage = "running" /\ done # Task => \E t \in Task : CanComplete(t)

\* An invalidation reaches exactly the tasks downstream of its roots.
DependentsAreDownstream ==
  stage = "draft" =>
    \A r \in Task :
      DependentTaskIds({r}) =
        {t \in Task : \A S \in SUBSET Task :
           r \in S /\ (\A u \in Task : taskDeps[u] \cap S # {} => u \in S) => t \in S}

\* Both helpers of graph.ts return what their callers rely on, on drafts of
\* every shape: an order, and the tasks an invalidation must reach.
HelpersAreExact == OrdersAreTopological /\ DependentsAreDownstream

\* A plan that was approved can be carried out, as long as its phases are
\* listed in an order of their dependencies: validateExecutionPlan compares
\* places in the list and does not look at the dependencies of phases.
ApprovedIsExecutable ==
  stage = "approved" /\ (\A p \in Phase : phaseDeps[p] \subseteq 1..(p - 1)) => IsExecutable
=============================================================================
