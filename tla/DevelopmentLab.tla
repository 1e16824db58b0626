---------------------------- MODULE DevelopmentLab ----------------------------
(***************************************************************************)
(* The development service over one checkpoint and one workspace: the      *)
(* start from an approved plan, the page's commands (pause, cancel, gate,  *)
(* verify, rollback, and resume through a recovery audit), and an executor *)
(* that works through prepareDevelopmentOperation and                      *)
(* executeDevelopmentCheckpointCommand.                                    *)
(*                                                                         *)
(* Handlers are asynchronous and may die between any two steps.  The store *)
(* keeps the promise of module VersionedStore: a commit replaces exactly   *)
(* the revision it names.  The plan is one phase of one task and one user  *)
(* gate.  retry is absent: transitionTask refuses what it asks for, so it  *)
(* always throws before its commit.                                        *)
(***************************************************************************)
EXTENDS Naturals, FiniteSetsExt, DevelopmentStatus

CONSTANTS
  Handler,      \* commands in progress at one time
  Pause, Resume, Cancel, Gate, Verify, Rollback,  \* idempotency keys
  NoRequest,
  MaxPatch,     \* bound on the patches of the task
  MaxRevision   \* bound on the commits

Request == Pause \cup Resume \cup Cancel \cup Gate \cup Verify \cup Rollback

\* A client's key names one kind of command.
ASSUME LabAssumption ==
  /\ NoRequest \notin Request
  /\ Resume \cap (Verify \cup Rollback) = {}
  /\ MaxPatch \in Nat \ {0} /\ MaxRevision \in Nat

VARIABLES
  store,    \* the committed revision and checkpoint
  disk,     \* what the workspace holds
  written,  \* the patches ever applied to the workspace completely
  origin,   \* history: what put the workspace where it is, since its hash was
            \* last recorded
  pc,
  job,      \* the key a handler serves, NoRequest for the executor
  copy,     \* the revision and checkpoint it loaded
  output    \* what its action or its audit produced

workspace == <<disk, written, origin>>
vars == <<store, workspace, pc, job, copy, output>>

\* A workspace holds the files of a patch, those before the first one, or
\* something else, left by a torn write or by the user.
Patch == 1..MaxPatch
Original == 0
Mixed == MaxPatch + 1
Content == 0..Mixed

NoOperation == [kind |-> "none", before |-> Original, after |-> Original]
Operation == [kind : {"none", "applying_patch", "verifying", "repairing"},
              before : Content, after : Content]

SafeBoundary == {"created", "task_ready", "patch_committed", "verification_committed",
                 "repair_committed", "gate_committed", "paused", "cancelled",
                 "recovery_required"}

Disposition == {"none", "resume", "blocked", "finalize_patch", "manual_review",
                "resume_verification"}

Checkpoint == [run : RunStatus, phase : PhaseStatus, task : TaskStatus,
               hash : Content, boundary : SafeBoundary, pending : Operation,
               journal : SUBSET Patch, audit : Disposition, drift : BOOLEAN,
               receipts : SUBSET Request, controls : SUBSET Resume]

\* What accounts for a workspace other than the recorded one: a prepared patch,
\* one whose operation was gone when it was written, one whose operation a gate
\* or a cancel command dropped afterwards, a rollback, or content of nobody's
\* making; "lost" is nothing.
Origin == {"recorded", "prepared", "unprepared", "dropped", "reverted", "foreign",
           "lost"}

\* newDurableDevelopmentCheckpoint of a fresh aggregate.
Created(hash) ==
  [run |-> "ready", phase |-> "pending", task |-> "pending", hash |-> hash,
   boundary |-> "created", pending |-> NoOperation, journal |-> {},
   audit |-> "none", drift |-> FALSE, receipts |-> {}, controls |-> {}]

Place == {"idle", "create", "start", "work", "prepare", "apply", "report",
          "load", "act", "commit", "resume"}

TypeOK ==
  /\ store \in [revision : Nat, value : Checkpoint]
  /\ disk \in Content
  /\ written \subseteq Patch
  /\ origin \in Origin
  /\ pc \in [Handler -> Place]
  /\ job \in [Handler -> Request \cup {NoRequest}]
  /\ copy \in [Handler -> [revision : Nat, value : Checkpoint]]
  /\ output \in [Handler -> [value : Checkpoint, hash : Content]]

Nothing == [revision |-> 0, value |-> Created(Original)]
NoOutput == [value |-> Created(Original), hash |-> Original]

Init ==
  /\ store = Nothing
  /\ disk = Original
  /\ written = {}
  /\ origin = "recorded"
  /\ pc = [h \in Handler |-> "idle"]
  /\ job = [h \in Handler |-> NoRequest]
  /\ copy = [h \in Handler |-> Nothing]
  /\ output = [h \in Handler |-> NoOutput]

-----------------------------------------------------------------------------
Goto(h, place) == pc' = [pc EXCEPT ![h] = place]

\* The handler answers, throws or dies; either way nothing of it remains.
Leave(h) ==
  /\ Goto(h, "idle")
  /\ job' = [job EXCEPT ![h] = NoRequest]
  /\ copy' = [copy EXCEPT ![h] = Nothing]
  /\ output' = [output EXCEPT ![h] = NoOutput]

Drop(h) == Leave(h) /\ UNCHANGED <<store, workspace>>

Crash(h) == pc[h] # "idle" /\ Drop(h)

\* a slip: the revision of a second load is expected instead of the first.
ExpectsReloaded(h) == copy[h].revision <= store.revision

\* The store compares the expected revision, the one of the handler's load.
Expected(h) == copy[h].revision = store.revision

Committed(value) ==
  /\ store.revision < MaxRevision
  /\ store' = [revision |-> store.revision + 1, value |-> value]

\* executeDevelopmentCheckpointCommand, from its own load to its commit: the
\* pending operation goes with every command that is recorded.
Executed(h, r, value) ==
  /\ Expected(h)
  /\ r \notin store.value.receipts
  /\ Committed([value EXCEPT !.pending = NoOperation,
                             !.receipts = @ \cup ({r} \ {NoRequest})])

\* A commit that records a workspace hash, taken by its handler some time ago.
Observed(hash) ==
  origin' = IF disk = hash THEN "recorded"
            ELSE IF origin \in {"recorded", "prepared"} THEN "lost" ELSE origin

\* One that records none, and may drop a prepared operation.
Unobserved(r) ==
  origin' = IF origin # "prepared" THEN origin
            ELSE IF r \in Gate \cup Cancel THEN "dropped" ELSE "lost"

\* The receipt is there already, or the commit is refused.
Refused(h) == job[h] \in store.value.receipts \/ ~Expected(h)

-----------------------------------------------------------------------------
(* bootstrapAndStartDevelopmentFromPlanning.                               *)

Bootstrap(h) ==
  /\ pc[h] = "idle"
  /\ copy' = [copy EXCEPT ![h].revision = store.revision]
  /\ \/ /\ store.revision = 0
        /\ output' = [output EXCEPT ![h].hash = disk]
        /\ Goto(h, "create")
     \/ /\ store.revision > 0 /\ store.value.run = "ready"
        /\ Goto(h, "start") /\ UNCHANGED output
  /\ UNCHANGED <<store, workspace, job>>

Create(h) ==
  /\ pc[h] = "create" /\ Expected(h)
  /\ Committed(Created(output[h].hash)) /\ Observed(output[h].hash)
  /\ copy' = [copy EXCEPT ![h].revision = store'.revision]
  /\ output' = [output EXCEPT ![h] = NoOutput]
  /\ Goto(h, "start")
  /\ UNCHANGED <<disk, written, job>>

StartDevelopmentRun(h) ==
  /\ pc[h] = "start" /\ store.value.run = "ready"
  /\ Executed(h, NoRequest, [store.value EXCEPT
       !.run = "running", !.phase = "running", !.task = "ready",
       !.boundary = "task_ready"])
  /\ Unobserved(NoRequest) /\ Leave(h) /\ UNCHANGED <<disk, written>>

-----------------------------------------------------------------------------
(* The executor.  The repository exports its steps and exercises them in   *)
(* tests; which it takes is its own choice.                                *)

TakeWork(h) ==
  /\ pc[h] = "idle" /\ store.revision > 0
  /\ copy' = [copy EXCEPT ![h].revision = store.revision]
  /\ Goto(h, "work")
  /\ UNCHANGED <<store, workspace, job, output>>

\* Domain commands up to the patch: from ready through context and change,
\* or from a failed verification through a repair.
Work(h) ==
  /\ pc[h] = "work" /\ store.value.run = "running"
  /\ \/ /\ store.value.task \in {"ready", "repairing"}
        /\ Executed(h, NoRequest, [store.value EXCEPT !.task = "applying_patch"])
     \/ /\ store.value.task = "verifying"
        /\ Executed(h, NoRequest, [store.value EXCEPT !.task = "repairing",
                                                     !.boundary = "repair_committed"])
  /\ Unobserved(NoRequest) /\ Leave(h) /\ UNCHANGED <<disk, written>>

NextPatch(c) == c.hash + 1

OperationOf(c) ==
  CASE c.task = "applying_patch" ->
         [kind |-> "applying_patch", before |-> c.hash,
          after |-> NextPatch(c)]
    [] c.task = "verifying" ->
         [kind |-> "verifying", before |-> c.hash, after |-> c.hash]
    [] c.task = "repairing" ->
         [kind |-> "repairing", before |-> c.hash, after |-> c.hash]

CanPrepare(c) ==
  \/ c.task = "applying_patch" /\ NextPatch(c) \in Patch
  \/ c.task \in {"verifying", "repairing"}

\* prepareDevelopmentOperation; the same operation may be prepared again.
Prepare(h) ==
  /\ pc[h] = "work" /\ CanPrepare(store.value)
  /\ LET operation == OperationOf(store.value)
     IN \/ store.value.pending = operation /\ UNCHANGED store
        \/ /\ store.value.pending = NoOperation /\ Expected(h)
           /\ Committed([store.value EXCEPT !.pending = operation])
  /\ copy' = [copy EXCEPT ![h] = store']
  /\ Goto(h, "apply")
  /\ UNCHANGED <<workspace, job, output>>

\* The patch transaction reads only the files of its patch, so it also applies
\* beside changes of others; where its own change is there already it does not.
AppliesTo(operation) == disk # operation.after

\* The workspace after a change: on the content it was made for it gives its
\* own, on any other something else.
Changed(before, after) == IF disk = before THEN after ELSE Mixed

\* The side effect of a prepared patch: complete, torn, or refused.
ApplyPatch(h) ==
  /\ pc[h] = "apply" /\ copy[h].value.pending.kind = "applying_patch"
  /\ LET operation == copy[h].value.pending
     IN \/ /\ AppliesTo(operation)
           /\ disk' = Changed(operation.before, operation.after)
           /\ written' = written \cup {operation.after}
           /\ origin' = IF disk' = Mixed THEN "foreign"
                        ELSE IF store.value.pending = operation THEN "prepared"
                        ELSE "unprepared"
           /\ output' = [output EXCEPT ![h].hash = disk']
           /\ Goto(h, "report")
           /\ UNCHANGED <<store, job, copy>>
        \/ /\ AppliesTo(operation)
           /\ disk' = Mixed /\ origin' = "foreign"
           /\ Leave(h) /\ UNCHANGED <<store, written>>
        \/ Drop(h)

\* a slip: the checkpoint keeps the hash of the workspace before the patch.
RecordedOverOldHash(c, hash, patch) ==
  [c EXCEPT !.task = "verifying", !.journal = @ \cup {patch},
            !.boundary = "patch_committed"]

\* The command that records a patch: its hash, its journal entry, the task.
Recorded(c, hash, patch) ==
  [c EXCEPT !.task = "verifying", !.hash = hash,
            !.journal = @ \cup {patch}, !.boundary = "patch_committed"]

Report(h) ==
  /\ pc[h] = "report"
  /\ Executed(h, NoRequest, Recorded(store.value, output[h].hash,
                                     copy[h].value.pending.after))
  /\ Observed(output[h].hash) /\ Leave(h) /\ UNCHANGED <<disk, written>>

\* A prepared verification or repair call ends without a workspace change.
ReportOther(h) ==
  /\ pc[h] = "apply" /\ copy[h].value.pending.kind \in {"verifying", "repairing"}
  /\ Executed(h, NoRequest, store.value)
  /\ Unobserved(NoRequest) /\ Leave(h) /\ UNCHANGED <<disk, written>>

-----------------------------------------------------------------------------
(* The page's commands.  The application loads the checkpoint, refuses a    *)
(* binding to another revision and then runs the command's own action.  The *)
(* page binds a command to the revision it shows when the command is sent.  *)

Serve(h, r) ==
  /\ pc[h] = "idle" /\ store.revision > 0
  /\ job' = [job EXCEPT ![h] = r]
  /\ CASE r \in Resume -> /\ copy' = [copy EXCEPT ![h].revision = store.revision]
                          /\ output' = [output EXCEPT ![h].hash = disk]
                          /\ Goto(h, "load")
       [] r \in Verify \cup Rollback -> /\ copy' = [copy EXCEPT ![h] = store]
                                       /\ Goto(h, "act") /\ UNCHANGED output
       [] OTHER -> /\ copy' = [copy EXCEPT ![h].revision = store.revision]
                   /\ Goto(h, "commit") /\ UNCHANGED output
  /\ UNCHANGED <<store, workspace>>

\* A resume has the workspace hashed before its checkpoint is loaded.
Load(h) ==
  /\ pc[h] = "load" /\ Expected(h)
  /\ Goto(h, "commit")
  /\ UNCHANGED <<store, workspace, job, copy, output>>

\* completeTaskFromVerification: phase and run wait for the gate if they can.
Completed(c) ==
  [c EXCEPT !.task = "completed",
            !.phase = Moved(PhaseTransitions, c.phase, "awaiting_gate"),
            !.run = Moved(RunTransitions, c.run, "awaiting_user_gate")]

\* The commands have run, however long that took; the hash is taken last.
ActVerify(h) ==
  /\ pc[h] = "act" /\ job[h] \in Verify
  /\ copy[h].value.task = "verifying" /\ copy[h].value.journal # {}
  /\ \E passed \in BOOLEAN :
       output' = [output EXCEPT ![h] =
         [value |-> [IF passed THEN Completed(copy[h].value) ELSE copy[h].value
                     EXCEPT !.boundary = "verification_committed"],
          hash  |-> disk]]
  /\ Goto(h, "commit")
  /\ UNCHANGED <<store, workspace, job, copy>>

\* The newest journal entry of the task.
LastPatch(c) == Max(c.journal)

\* requireDevelopmentUserAction: only of a running run.
NeedsUser(c) ==
  IF c.run = "running" THEN [c EXCEPT !.run = "needs_user_action"] ELSE c

\* rollbackCurrentTaskPatch: the inverse changes are written at once, the
\* aggregate they lead to is committed later.  The newest patch is in conflict
\* where it was taken back already; a failing write may change nothing.
ActRollback(h) ==
  /\ pc[h] = "act" /\ job[h] \in Rollback
  /\ copy[h].value.task \in {"verifying", "repairing"} /\ copy[h].value.journal # {}
  /\ LET patch == LastPatch(copy[h].value)
     IN \E result \in {"rolled_back", "apply_failed", "hash_conflict"} :
          /\ disk = patch => result # "hash_conflict"
          /\ disk = patch - 1 => result = "hash_conflict"
          /\ CASE result = "rolled_back" -> disk' = Changed(patch, patch - 1)
               [] result = "apply_failed" -> disk' \in {disk, Mixed}
               [] OTHER -> disk' = disk
          /\ origin' = IF disk' = disk THEN origin
                       ELSE IF disk' = Mixed THEN "foreign" ELSE "reverted"
          /\ output' = [output EXCEPT ![h] =
               [value |-> [IF result = "rolled_back"
                           THEN [copy[h].value EXCEPT !.task = "rolled_back"]
                           ELSE NeedsUser(copy[h].value)
                           EXCEPT !.boundary = "task_ready"],
                hash  |-> disk']]
  /\ Goto(h, "commit")
  /\ UNCHANGED <<store, written, job, copy>>

ActThrows(h) ==
  /\ pc[h] = "act"
  /\ \/ copy[h].value.journal = {}
     \/ copy[h].value.task \notin {"verifying", "repairing"}
     \/ job[h] \in Verify /\ copy[h].value.task # "verifying"
  /\ Drop(h)

\* The aggregate comes from the action, the rest from the reloaded checkpoint.
CommitAction(h) ==
  /\ pc[h] = "commit" /\ job[h] \in Verify \cup Rollback
  /\ Executed(h, job[h], [store.value EXCEPT
       !.run = output[h].value.run, !.phase = output[h].value.phase,
       !.task = output[h].value.task, !.boundary = output[h].value.boundary,
       !.hash = output[h].hash])
  /\ Observed(output[h].hash) /\ Leave(h) /\ UNCHANGED <<disk, written>>

\* controlDevelopmentRun; the boundary is written whether it was accepted or
\* not.
Controlled(c, to, boundary) ==
  IF to \notin RunTransitions[c.run] THEN [c EXCEPT !.boundary = boundary]
  ELSE IF to = "cancelled"
  THEN [c EXCEPT !.run = to, !.boundary = boundary,
                 !.phase = Moved(PhaseTransitions, c.phase, to),
                 !.task = Moved(TaskTransitions, c.task, to)]
  ELSE [c EXCEPT !.run = to, !.boundary = boundary]

CommitControl(h) ==
  /\ pc[h] = "commit"
  /\ \/ /\ job[h] \in Pause /\ store.value.pending = NoOperation
        /\ Executed(h, job[h], Controlled(store.value, "paused", "paused"))
     \/ /\ job[h] \in Cancel
        /\ Executed(h, job[h], Controlled(store.value, "cancelled", "cancelled"))
  /\ Unobserved(job[h]) /\ Leave(h) /\ UNCHANGED <<disk, written>>

\* a slip: the gate is open whatever the run is doing.
GateAlwaysOpen(c) == c.run \in RunStatus

GateIsOpen(c) ==
  c.run = "awaiting_user_gate" /\ c.phase = "awaiting_gate" /\ c.task = "completed"

\* confirmPhaseGate; a refusal is recorded as well.
CommitGate(h) ==
  /\ pc[h] = "commit" /\ job[h] \in Gate
  /\ Executed(h, job[h],
       IF GateIsOpen(store.value)
       THEN [store.value EXCEPT !.run = "completed", !.phase = "completed",
                                !.boundary = "gate_committed"]
       ELSE store.value)
  /\ Unobserved(job[h]) /\ Leave(h) /\ UNCHANGED <<disk, written>>

\* The answer is a receipt or an error; a recovery is answered below.
CommitRefused(h) ==
  /\ \/ /\ pc[h] \in {"create", "start", "work", "report", "commit"}
        /\ ~(pc[h] = "commit" /\ job[h] \in Resume)
        /\ Refused(h)
     \/ pc[h] = "load" /\ ~Expected(h)
     \/ pc[h] = "commit" /\ job[h] \in Resume
        /\ job[h] \notin store.value.receipts /\ ~Expected(h)
     \/ pc[h] = "resume" /\ (job[h] \in store.value.controls \/ ~Expected(h))
     \/ /\ \/ pc[h] = "commit" /\ job[h] \in Pause
           \/ pc[h] = "resume"
        /\ store.value.pending # NoOperation
  /\ Drop(h)

-----------------------------------------------------------------------------
(* recoverDevelopmentCheckpoint.                                           *)

Audited(c, disposition, drift) ==
  [c EXCEPT !.audit = disposition, !.drift = drift,
            !.boundary = IF disposition \in {"blocked", "manual_review"}
                         THEN "recovery_required" ELSE @]

\* a slip: a patch found neither written nor absent is taken for written.
FinalizesUncertain(c, actual) == actual # c.pending.before

\* The interrupted patch is in the workspace exactly as it was prepared.
FoundWritten(c, actual) == actual = c.pending.after

RecoverPatch(c, actual) ==
  IF actual = c.pending.before THEN Audited(c, "resume", FALSE)
  ELSE IF FoundWritten(c, actual) /\ c.task = "applying_patch"
  THEN [Recorded(Audited(c, "finalize_patch", FALSE), actual, c.pending.after)
        EXCEPT !.pending = NoOperation]
  ELSE Audited(c, "manual_review", FALSE)

Recovered(c, actual, envelopeMatches) ==
  CASE ~envelopeMatches -> Audited(c, "blocked", FALSE)
    [] envelopeMatches /\ c.pending.kind = "applying_patch" -> RecoverPatch(c, actual)
    [] envelopeMatches /\ c.pending.kind # "applying_patch" /\ actual # c.hash ->
         Audited(c, "blocked", TRUE)
    [] OTHER ->
         Audited(c, IF c.pending.kind = "verifying" THEN "resume_verification"
                    ELSE IF \/ c.pending.kind = "repairing"
                            \/ c.task \in {"applying_patch", "repairing"}
                    THEN "manual_review"
                    ELSE IF c.task = "verifying" THEN "resume_verification"
                    ELSE "resume", FALSE)

\* blockersFrom: what the page shows as standing in the way of a resume.
Blocked(c) ==
  c.run \in {"stale", "needs_user_action"} \/ c.drift \/ c.audit = "manual_review"

\* The answer to a resume is a view of the checkpoint; the page's resume goes on
\* from it where the run is paused and nothing stands in the way.
Answered(h, checkpoint) ==
  IF checkpoint.value.run = "paused" /\ ~Blocked(checkpoint.value)
  THEN /\ copy' = [copy EXCEPT ![h].revision = checkpoint.revision]
       /\ output' = [output EXCEPT ![h] = NoOutput]
       /\ Goto(h, "resume") /\ UNCHANGED job
  ELSE Leave(h)

\* The audit records the workspace hash only of a patch it found written.
CommitRecovery(h) ==
  /\ pc[h] = "commit" /\ job[h] \in Resume /\ ~Refused(h)
  /\ \E envelopeMatches \in BOOLEAN :
       Committed([Recovered(store.value, output[h].hash, envelopeMatches)
                  EXCEPT !.receipts = @ \cup {job[h]}])
  /\ IF store'.value.pending = store.value.pending THEN UNCHANGED origin
     ELSE Observed(output[h].hash)
  /\ Answered(h, store')
  /\ UNCHANGED <<disk, written>>

\* A recovery with a receipt is answered with the checkpoint as it is.
ReplayRecovery(h) ==
  /\ pc[h] = "commit" /\ job[h] \in Resume \cap store.value.receipts
  /\ Answered(h, store)
  /\ UNCHANGED <<store, workspace>>

\* The control command of a resume has the key of the resume and a suffix.
ResumeRun(h) ==
  /\ pc[h] = "resume" /\ store.value.pending = NoOperation
  /\ job[h] \notin store.value.controls
  /\ Executed(h, NoRequest, [Controlled(store.value, "running", "task_ready")
                             EXCEPT !.controls = @ \cup {job[h]}])
  /\ Unobserved(NoRequest) /\ Leave(h) /\ UNCHANGED <<disk, written>>

-----------------------------------------------------------------------------
\* The user edits the workspace.
Edit ==
  /\ disk' = Mixed /\ origin' = "foreign"
  /\ UNCHANGED <<store, written, pc, job, copy, output>>

Next ==
  \/ Edit
  \/ \E h \in Handler :
       \/ Bootstrap(h) \/ Create(h) \/ StartDevelopmentRun(h)
       \/ TakeWork(h) \/ Work(h) \/ Prepare(h) \/ ApplyPatch(h)
       \/ Report(h) \/ ReportOther(h)
       \/ \E r \in Request : Serve(h, r)
       \/ Load(h) \/ ActVerify(h) \/ ActRollback(h) \/ ActThrows(h)
       \/ CommitAction(h) \/ CommitControl(h) \/ CommitGate(h)
       \/ CommitRecovery(h) \/ ReplayRecovery(h) \/ ResumeRun(h) \/ CommitRefused(h) \/ Crash(h)

Spec == Init /\ [][Next]_vars

-----------------------------------------------------------------------------
\* The journal tells the truth: each entry is a patch that was written to the
\* workspace completely, through crashes, recoveries and executors that take
\* up the same prepared operation.
JournalIsTrue == store.value.journal \subseteq written

\* Whenever the workspace is not the one the checkpoint names, the change that
\* made it so is known, and one of these: a prepared patch that is still to be
\* recorded; an edit, a torn write or a change beside one; a patch written by an
\* executor after its operation was recorded or dropped; a patch whose operation
\* a gate or a cancel command dropped; a rollback that was not committed.  No
\* commit over an older observation leaves it unexplained.
DriftIsExplained ==
  LET c == store.value
  IN store.revision > 0 /\ disk # c.hash =>
       \/ origin = "prepared" /\ c.pending.kind = "applying_patch" /\ disk = c.pending.after
       \/ origin = "foreign" /\ disk = Mixed
       \/ origin = "unprepared" /\ (disk \in c.journal \/ c.receipts \cap (Gate \cup Cancel) # {})
       \/ origin = "dropped" /\ c.receipts \cap (Gate \cup Cancel) # {}
       \/ origin = "reverted" /\ disk + 1 \in c.journal

\* No command, action or recovery undoes what another committed: receipts and
\* journal only grow, a run moves along its table, a task that was rolled back
\* or a run that was cancelled or completed stays so.
NothingIsUndone ==
  [][LET before == store.value
         now == store'.value
     IN /\ before.receipts \subseteq now.receipts
        /\ before.journal \subseteq now.journal
        /\ \/ now.run = before.run \/ now.run \in RunTransitions[before.run]
           \/ before.run = "awaiting_user_gate" /\ now.run = "completed"
        /\ before.task \in {"rolled_back", "completed"}
             => now.task \in {before.task, "cancelled"}]_store

\* A phase that waits for its gate belongs to a run in which the gate can be
\* confirmed, now or once the run is resumed: pausing and resuming between the
\* commands of the page loses no gate (ADR 018: they are accepted only at safe
\* boundaries).
WaitingGateIsOpen ==
  store.value.phase = "awaiting_gate" => store.value.run \in {"awaiting_user_gate", "paused"}

\* A run is completed only with the task's patch on record, a passed
\* verification and the gate, whatever was recovered on the way.
CompletionIsOnRecord ==
  store.value.run = "completed"
    => /\ store.value.task = "completed" /\ store.value.phase = "completed"
       /\ store.value.journal # {} /\ store.value.receipts \cap Verify # {}
=============================================================================
