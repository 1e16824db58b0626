------------------------- MODULE DevelopmentLabProofs -------------------------
(***************************************************************************)
(* The development service for any number of handlers, keys, patches and   *)
(* commits.  A commit replaces the revision its handler loaded, so what    *)
(* the handler concluded from that revision still holds of the checkpoint  *)
(* it replaces.  What it saw of the workspace may not, so the history of   *)
(* the last change not on record is part of the induction.                 *)
(***************************************************************************)
EXTENDS DevelopmentLab, FiniteSetTheorems, WellFoundedInduction, TLAPS

\* A patch is prepared and not yet recorded.
Interrupted(c) == c.pending.kind = "applying_patch"

\* No command was recorded that may have dropped a prepared operation.
Steady(c) == c.receipts \cap (Gate \cup Cancel) = {}

\* What a checkpoint alone says consistently.
Sound(c) ==
  /\ Interrupted(c) => /\ c.task = "applying_patch"
                       /\ c.pending.before = c.hash /\ c.pending.after = c.hash + 1
                       /\ c.pending.after \in Patch
  /\ c.run = "ready" => c.task = "pending"
  /\ c.task = "completed" => c.journal # {} /\ c.receipts \cap Verify # {}
  /\ c.run = "completed" => c.task = "completed" /\ c.phase = "completed"

\* Every patch found or named anywhere was written, and so was the one before.
Workspace ==
  /\ disk \in Patch => disk \in written
  /\ store.value.hash \in Patch => store.value.hash \in written
  /\ \A p \in written : p - 1 \in Patch => p - 1 \in written

\* What is known of the last change of the workspace that is not on record.
Explained ==
  /\ origin = "recorded" => disk = store.value.hash
  /\ origin = "prepared" => Interrupted(store.value) /\ disk = store.value.pending.after
  /\ origin = "unprepared" => disk \in store.value.journal \/ ~Steady(store.value)
  /\ origin = "dropped" => ~Steady(store.value)
  /\ origin = "reverted" => disk + 1 \in store.value.journal
  /\ origin = "foreign" => disk = Mixed
  /\ origin # "lost"

Loaded(h) ==
  /\ Sound(copy[h].value)
  /\ copy[h].revision = store.revision => copy[h].value = store.value

\* What an action of the page makes of the checkpoint it loaded.
Acted(h) ==
  LET c == copy[h].value
      v == output[h].value
  IN /\ c.task \in {"verifying", "repairing"} /\ c.journal # {}
     /\ \/ v.run = c.run
        \/ v.run \in RunTransitions[c.run] \cap {"awaiting_user_gate", "needs_user_action"}
     /\ v.task = "completed" => job[h] \in Verify

Acting(h) == pc[h] = "commit" /\ job[h] \in Verify \cup Rollback

\* Handlers that go on to record the workspace as they found or left it.  While
\* the revision is theirs and nothing has changed the workspace, it is so still.
Observing(h) ==
  \/ pc[h] \in {"create", "report", "load"}
  \/ pc[h] = "commit" /\ job[h] \in Resume \cup Verify \cup Rollback

SeesWorkspace(h) ==
  copy[h].revision = store.revision /\ origin = "recorded" => disk = output[h].hash

Local(h) ==
  /\ copy[h].revision <= store.revision
  /\ copy[h].value.journal \subseteq written \cap store.value.journal
  /\ copy[h].value.hash \in Patch => copy[h].value.hash \in written
  /\ output[h].hash \in Patch => output[h].hash \in written
  /\ output[h].hash = Mixed => disk = Mixed
  /\ Observing(h) => SeesWorkspace(h)
  /\ pc[h] = "create" => copy[h].revision = 0
  /\ pc[h] \in {"apply", "report", "act"} => Loaded(h)
  /\ pc[h] \in {"apply", "report"} /\ Interrupted(copy[h].value) /\ Steady(store.value) =>
       \/ copy[h].value.pending.after \in store.value.journal
       \/ store.value.pending = copy[h].value.pending
  /\ pc[h] = "report" => /\ Interrupted(copy[h].value)
                         /\ copy[h].value.pending.after \in written
                         /\ output[h].hash \in {copy[h].value.pending.after, Mixed}
  /\ pc[h] \in {"load", "resume"} => job[h] \in Resume
  /\ Acting(h) => Loaded(h) /\ Acted(h)

Fresh == store.revision = 0 => store = Nothing

IInv ==
  /\ TypeOK /\ Sound(store.value) /\ JournalIsTrue /\ Workspace /\ Explained /\ Fresh
  /\ \A h \in Handler : Local(h)

\* What a commit may make of the checkpoint it replaces.
Onward(c, v) ==
  /\ c.receipts \subseteq v.receipts
  /\ c.journal \subseteq v.journal
  /\ \/ v.run = c.run \/ v.run \in RunTransitions[c.run]
     \/ c.run = "awaiting_user_gate" /\ v.run = "completed"
  /\ c.task \in {"rolled_back", "completed"} => v.task \in {c.task, "cancelled"}

Step(c, v) ==
  /\ v \in Checkpoint /\ Sound(v) /\ Onward(c, v)
  /\ v.journal \subseteq written
  /\ v.hash \in Patch => v.hash \in written
  /\ Interrupted(c) /\ Steady(v) => v.pending = c.pending \/ c.pending.after \in v.journal

\* What a commit leaves known of the workspace.
Accounts(c, v) ==
  \/ origin' = "recorded" /\ disk = v.hash
  \/ origin' = "dropped" /\ ~Steady(v)
  \/ /\ origin' = origin
     /\ origin = "recorded" => v.hash = c.hash
     /\ origin = "prepared" => v.pending = c.pending

-----------------------------------------------------------------------------
(* The operators the model is built from.                                  *)

LEMMA Statuses ==
  /\ RunStatus = {"validating_input", "ready", "running", "awaiting_user_gate",
                  "paused", "needs_user_action", "stale", "completed", "failed",
                  "cancelled"}
  /\ PhaseStatus = {"pending", "ready", "running", "awaiting_gate", "completed",
                    "blocked", "stale", "cancelled"}
  /\ TaskStatus = {"pending", "ready", "assembling_context", "generating_change",
                   "awaiting_patch_approval", "applying_patch", "verifying",
                   "repairing", "completed", "blocked", "failed", "rolled_back",
                   "cancelled", "stale"}
<1>1. RunStatus = {"validating_input", "ready", "running", "awaiting_user_gate",
                  "paused", "needs_user_action", "stale", "completed", "failed",
                  "cancelled"}
  BY DEF RunStatus, RunTransitions
<1>2. PhaseStatus = {"pending", "ready", "running", "awaiting_gate", "completed",
                    "blocked", "stale", "cancelled"}
  BY DEF PhaseStatus, PhaseTransitions
<1>3. TaskStatus = {"pending", "ready", "assembling_context", "generating_change",
                   "awaiting_patch_approval", "applying_patch", "verifying",
                   "repairing", "completed", "blocked", "failed", "rolled_back",
                   "cancelled", "stale"}
  BY DEF TaskStatus, TaskTransitions
<1> QED BY <1>1, <1>2, <1>3

\* The moves the service asks for.
LEMMA Moves ==
  /\ "running" \in RunTransitions["ready"]
  /\ "needs_user_action" \in RunTransitions["running"]
  /\ \A from \in RunStatus :
       /\ Moved(RunTransitions, from, "awaiting_user_gate") \in RunStatus
       /\ \/ Moved(RunTransitions, from, "awaiting_user_gate") = from
          \/ /\ Moved(RunTransitions, from, "awaiting_user_gate") = "awaiting_user_gate"
             /\ "awaiting_user_gate" \in RunTransitions[from]
  /\ \A from \in PhaseStatus :
       /\ Moved(PhaseTransitions, from, "cancelled") \in {from, "cancelled"}
       /\ Moved(PhaseTransitions, from, "awaiting_gate") \in {from, "awaiting_gate"}
  /\ \A from \in TaskStatus :
       Moved(TaskTransitions, from, "cancelled") \in {from, "cancelled"}
<1>1. "running" \in RunTransitions["ready"] /\ "needs_user_action" \in RunTransitions["running"]
  BY DEF RunTransitions
<1>2. ASSUME NEW from \in RunStatus
      PROVE  /\ Moved(RunTransitions, from, "awaiting_user_gate") \in RunStatus
             /\ \/ Moved(RunTransitions, from, "awaiting_user_gate") = from
                \/ /\ Moved(RunTransitions, from, "awaiting_user_gate") = "awaiting_user_gate"
                   /\ "awaiting_user_gate" \in RunTransitions[from]
  BY Statuses DEF Moved
<1>3. \A table, from, to : Moved(table, from, to) \in {from, to}
  BY DEF Moved
<1> QED BY <1>1, <1>2, <1>3

LEMMA Contents ==
  /\ MaxPatch \in Nat /\ MaxPatch > 0
  /\ Original = 0 /\ Mixed \in Nat /\ Mixed = MaxPatch + 1
  /\ \A n : n \in Content <=> n \in Nat /\ n <= Mixed
  /\ \A n : n \in Patch <=> n \in Nat /\ 1 <= n /\ n < Mixed
  BY LabAssumption DEF Original, Mixed, Content, Patch

LEMMA NatMinimum ==
  ASSUME NEW S, S \subseteq Nat, S # {}
  PROVE  \E n \in S : \A m \in S : n <= m
<1> DEFINE R == {ss \in Nat \X Nat : ss[1] < ss[2]}
<1>1. IsWellFoundedOn(R, Nat)
  BY NatLessThanWellFounded DEF OpToRel
<1>2. PICK n \in S : \A m \in S : ~(<<m, n>> \in R)
  <2> HIDE DEF R
  <2> QED BY <1>1, WFMin
<1>3. ASSUME NEW m \in S PROVE n <= m
  <2>1. <<m, n>> \in R <=> m < n
    OBVIOUS
  <2> QED BY <1>2, <2>1
<1> QED BY <1>3

\* The newest patch of a journal is one of its patches.
LEMMA NewestPatch ==
  ASSUME NEW c \in Checkpoint, c.journal # {}
  PROVE  LastPatch(c) \in c.journal
<1> DEFINE T == {Mixed - p : p \in c.journal}
<1>1. c.journal \subseteq Patch
  BY DEF Checkpoint
<1>2. \A p \in c.journal : p \in Nat /\ p < Mixed
  BY <1>1, Contents
<1>3. T \subseteq Nat /\ T # {}
  BY <1>2, Contents
<1>4. PICK m \in T : \A n \in T : m <= n
  <2> HIDE DEF T
  <2> QED BY <1>3, NatMinimum
<1>5. PICK x \in c.journal : m = Mixed - x
  BY <1>4
<1>6. ASSUME NEW y \in c.journal PROVE x >= y
  <2>1. Mixed - x <= Mixed - y
    BY <1>4, <1>5
  <2> QED BY <1>2, <2>1, Contents
<1>7. Max(c.journal) \in c.journal
  BY <1>6 DEF Max
<1> QED BY <1>7 DEF LastPatch

\* Where nothing has been committed or computed yet.
LEMMA Idle ==
  /\ Nothing \in [revision : Nat, value : Checkpoint] /\ Nothing.revision = 0
  /\ NoOutput \in [value : Checkpoint, hash : Content] /\ NoOutput.hash = Original
  /\ Nothing.value = Created(Original)
  /\ \A hash \in Content :
       LET c == Created(hash)
       IN /\ c \in Checkpoint /\ c.run = "ready" /\ c.task = "pending" /\ c.hash = hash
          /\ c.journal = {} /\ c.receipts = {} /\ c.pending = NoOperation
          /\ Sound(c)
<1>1. NoOperation \in Operation /\ NoOperation.kind = "none"
  BY Contents DEF NoOperation, Operation
<1>2. ASSUME NEW hash \in Content
      PROVE  LET c == Created(hash)
             IN /\ c \in Checkpoint /\ c.run = "ready" /\ c.task = "pending" /\ c.hash = hash
                /\ c.journal = {} /\ c.receipts = {} /\ c.pending = NoOperation
                /\ Sound(c)
  <2> DEFINE c == Created(hash)
  <2>1. c \in Checkpoint
    BY <1>1, Statuses DEF Created, Checkpoint, SafeBoundary, Disposition
  <2>2. /\ c.run = "ready" /\ c.task = "pending" /\ c.hash = hash /\ c.journal = {}
        /\ c.receipts = {} /\ c.pending = NoOperation
    BY DEF Created
  <2> HIDE DEF c
  <2>3. Sound(c)
    BY <1>1, <2>2 DEF Sound, Interrupted
  <2> QED BY <2>1, <2>2, <2>3 DEF c
<1>3. Original \in Content
  BY Contents
<1> QED BY <1>2, <1>3 DEF Nothing, NoOutput

\* A command that leaves its handler leaves nothing of it.
LEMMA Left ==
  ASSUME TypeOK, NEW h \in Handler, Leave(h)
  PROVE  /\ pc' \in [Handler -> Place] /\ job' \in [Handler -> Request \cup {NoRequest}]
         /\ copy' \in [Handler -> [revision : Nat, value : Checkpoint]]
         /\ output' \in [Handler -> [value : Checkpoint, hash : Content]]
         /\ pc'[h] = "idle" /\ copy'[h] = Nothing /\ output'[h] = NoOutput
         /\ \A g \in Handler \ {h} : /\ pc'[g] = pc[g] /\ job'[g] = job[g]
                                     /\ copy'[g] = copy[g] /\ output'[g] = output[g]
<1>1. Nothing \in [revision : Nat, value : Checkpoint] /\ NoOutput \in [value : Checkpoint, hash : Content]
  BY Idle
<1>2. "idle" \in Place
  BY DEF Place
<1> QED BY <1>1, <1>2 DEF TypeOK, Leave, Goto

LEMMA InitIsSound == Init => IInv
<1> SUFFICES ASSUME Init PROVE IInv
  OBVIOUS
<1>1. /\ store = Nothing /\ disk = Original /\ written = {} /\ origin = "recorded"
      /\ \A h \in Handler : /\ pc[h] = "idle" /\ copy[h] = Nothing /\ output[h] = NoOutput
  BY DEF Init
<1>2. TypeOK
  <2>1. "idle" \in Place
    BY DEF Place
  <2> QED BY <2>1, Idle, Contents DEF Init, TypeOK, Origin
<1>3. Sound(store.value)
  BY <1>1, Idle
<1>4. JournalIsTrue /\ Workspace /\ Explained /\ Fresh
  <2>1. ~(0 \in Patch) /\ 0 # Mixed
    BY Contents
  <2>2. store.value.hash = 0 /\ store.value.journal = {}
    BY <1>1, Idle, Contents
  <2> QED BY <1>1, <2>1, <2>2, Contents DEF JournalIsTrue, Workspace, Explained, Fresh
<1>5. ASSUME NEW h \in Handler PROVE Local(h)
  <2>1. /\ copy[h].revision = 0 /\ copy[h].value.journal = {} /\ copy[h].value.hash = 0
        /\ output[h].hash = 0 /\ store.revision = 0
    BY <1>1, Idle, Contents
  <2>2. ~(0 \in Patch) /\ 0 # Mixed
    BY Contents
  <2> QED BY <1>1, <2>1, <2>2 DEF Local, Acting, Observing
<1> QED BY <1>2, <1>3, <1>4, <1>5 DEF IInv

-----------------------------------------------------------------------------
(* A commit, and a step that commits nothing, as the other handlers see it. *)

LEMMA CommitKeepsTheRecord ==
  ASSUME IInv, NEW v, Step(store.value, v), Accounts(store.value, v), Committed(v),
         UNCHANGED <<disk, written>>
  PROVE  /\ store' \in [revision : Nat, value : Checkpoint] /\ origin' \in Origin
         /\ store'.revision = store.revision + 1 /\ store'.value = v
         /\ Sound(store'.value) /\ JournalIsTrue' /\ Workspace' /\ Explained' /\ Fresh'
<1> DEFINE c == store.value
<1>1. /\ store \in [revision : Nat, value : Checkpoint] /\ store.revision \in Nat
      /\ Workspace /\ Explained /\ disk' = disk /\ written' = written
      /\ origin \in Origin
  BY DEF IInv, TypeOK
<1>2. /\ v \in Checkpoint /\ Sound(v) /\ v.journal \subseteq written
      /\ c.journal \subseteq v.journal /\ c.receipts \subseteq v.receipts
      /\ v.hash \in Patch => v.hash \in written
  BY DEF Step, Onward
<1>3. /\ store' = [revision |-> store.revision + 1, value |-> v]
      /\ store'.revision = store.revision + 1 /\ store'.value = v
  BY DEF Committed
<1>4. store' \in [revision : Nat, value : Checkpoint]
  BY <1>1, <1>2, <1>3
<1>5. JournalIsTrue' /\ Fresh' /\ Workspace'
  BY <1>1, <1>2, <1>3 DEF JournalIsTrue, Fresh, Workspace
<1>6. Steady(v) => Steady(c)
  BY <1>2 DEF Steady
<1>7. Explained' /\ origin' \in Origin
  <2>1. CASE origin' = "recorded" /\ disk = v.hash
    BY <1>1, <1>3, <2>1 DEF Explained, Origin
  <2>2. CASE origin' = "dropped" /\ ~Steady(v)
    BY <1>1, <1>3, <2>2 DEF Explained, Origin
  <2>3. CASE /\ origin' = origin
             /\ origin = "recorded" => v.hash = c.hash
             /\ origin = "prepared" => v.pending = c.pending
    BY <1>1, <1>2, <1>3, <1>6, <2>3 DEF Explained, Interrupted
  <2> QED BY <2>1, <2>2, <2>3 DEF Accounts
<1> QED BY <1>2, <1>3, <1>4, <1>5, <1>7

LEMMA CommitKeepsOthers ==
  ASSUME IInv, NEW v, Step(store.value, v), Accounts(store.value, v), Committed(v),
         UNCHANGED <<disk, written>>,
         NEW g \in Handler, pc'[g] = pc[g], job'[g] = job[g],
         copy'[g] = copy[g], output'[g] = output[g]
  PROVE  Local(g)'
<1> DEFINE c == store.value
<1>1. /\ store'.revision = store.revision + 1 /\ store'.value = v
      /\ store.revision \in Nat /\ copy[g].revision \in Nat
      /\ disk' = disk /\ written' = written
  BY CommitKeepsTheRecord DEF IInv, TypeOK
<1>2. /\ c.journal \subseteq v.journal /\ c.receipts \subseteq v.receipts
      /\ Interrupted(c) /\ Steady(v) => v.pending = c.pending \/ c.pending.after \in v.journal
  BY DEF Step, Onward
<1>3. Local(g)
  BY DEF IInv
<1>4. copy'[g].revision <= store.revision /\ copy'[g].revision # store'.revision
  BY <1>1, <1>3 DEF Local
<1>5. Loaded(g) => Loaded(g)'
  BY <1>1, <1>4 DEF Loaded
<1>6. /\ Acted(g) => Acted(g)'
      /\ Observing(g)' => SeesWorkspace(g)'
  BY <1>1, <1>4 DEF Acted, SeesWorkspace
<1>7. pc[g] \in {"apply", "report"} /\ Interrupted(copy[g].value) /\ Steady(v) =>
        \/ copy[g].value.pending.after \in v.journal
        \/ v.pending = copy[g].value.pending
  <2>1. Steady(v) => Steady(c)
    BY <1>2 DEF Steady
  <2> QED BY <1>2, <1>3, <2>1 DEF Local, Interrupted
<1>8. /\ copy'[g].value.journal \subseteq written' \cap store'.value.journal
      /\ copy'[g].value.hash \in Patch => copy'[g].value.hash \in written'
  BY <1>1, <1>2, <1>3 DEF Local
<1>9. copy'[g].revision <= store'.revision
  BY <1>1, <1>4
<1>10. Acting(g)' => Loaded(g)' /\ Acted(g)'
  BY <1>3, <1>5, <1>6 DEF Local, Acting
<1> QED BY <1>1, <1>3, <1>4, <1>5, <1>6, <1>7, <1>8, <1>9, <1>10 DEF Local

\* The handler that has left is at rest.
LEMMA LeftLocal ==
  ASSUME TypeOK, NEW h \in Handler, Leave(h), store'.revision \in Nat
  PROVE  Local(h)'
<1>1. pc'[h] = "idle" /\ copy'[h] = Nothing /\ output'[h] = NoOutput
  BY Left
<1>2. /\ copy'[h].revision = 0 /\ copy'[h].value.journal = {} /\ copy'[h].value.hash = 0
      /\ output'[h].hash = 0
  BY <1>1, Idle, Contents
<1>3. ~(0 \in Patch) /\ 0 # Mixed
  BY Contents
<1> QED BY <1>1, <1>2, <1>3 DEF Local, Acting, Observing

\* A command that commits a step and answers.
LEMMA CommitAndLeave ==
  ASSUME IInv, NEW h \in Handler, NEW v, Step(store.value, v), Accounts(store.value, v),
         Committed(v), Leave(h), UNCHANGED <<disk, written>>
  PROVE  IInv' /\ store'.value = v
<1>1. /\ store' \in [revision : Nat, value : Checkpoint] /\ store'.value = v
      /\ Sound(store'.value) /\ JournalIsTrue' /\ Workspace' /\ Explained' /\ Fresh'
      /\ origin' \in Origin
  BY CommitKeepsTheRecord
<1>2. TypeOK
  BY DEF IInv
<1>3. TypeOK'
  BY <1>1, <1>2, Left DEF TypeOK
<1>4. ASSUME NEW g \in Handler PROVE Local(g)'
  <2>1. CASE g = h
    BY <1>1, <1>2, <2>1, LeftLocal
  <2>2. CASE g # h
    BY <1>2, <2>2, Left, CommitKeepsOthers
  <2> QED BY <2>1, <2>2
<1> QED BY <1>1, <1>3, <1>4 DEF IInv

LEMMA OthersStand ==
  ASSUME IInv, store' = store, written \subseteq written', disk = Mixed => disk' = Mixed,
         origin' = "recorded" => origin = "recorded" /\ disk' = disk,
         NEW g \in Handler, pc'[g] = pc[g], job'[g] = job[g],
         copy'[g] = copy[g], output'[g] = output[g]
  PROVE  Local(g)'
<1>1. Local(g)
  BY DEF IInv
<1>2. /\ Loaded(g) => Loaded(g)'
      /\ Acted(g) => Acted(g)'
      /\ Observing(g) /\ SeesWorkspace(g) => SeesWorkspace(g)'
      /\ Observing(g) <=> Observing(g)'
  BY DEF Loaded, Acted, SeesWorkspace, Observing
<1>3. Acting(g)' => Loaded(g)' /\ Acted(g)'
  BY <1>1, <1>2 DEF Local, Acting
<1> QED BY <1>1, <1>2, <1>3 DEF Local

\* A handler that commits nothing goes on: what is left is its own business.
LEMMA GoesOn ==
  ASSUME IInv, NEW h \in Handler, UNCHANGED <<store, workspace>>, TypeOK', Local(h)',
         \A g \in Handler \ {h} : /\ pc'[g] = pc[g] /\ job'[g] = job[g]
                                 /\ copy'[g] = copy[g] /\ output'[g] = output[g]
  PROVE  IInv'
<1>1. Sound(store'.value) /\ JournalIsTrue' /\ Workspace' /\ Explained' /\ Fresh'
  BY DEF IInv, JournalIsTrue, Workspace, Explained, Fresh, workspace
<1>2. ASSUME NEW g \in Handler PROVE Local(g)'
  <2>1. CASE g = h
    BY <2>1
  <2>2. CASE g # h
    BY <2>2, OthersStand DEF workspace
  <2> QED BY <2>1, <2>2
<1> QED BY <1>1, <1>2 DEF IInv

LEMMA DropKeeps == ASSUME IInv, NEW h \in Handler, Drop(h) PROVE IInv' /\ store' = store
<1>1. TypeOK /\ Leave(h) /\ UNCHANGED <<store, workspace>>
  BY DEF IInv, Drop
<1>2. store'.revision \in Nat
  BY <1>1 DEF TypeOK
<1>3. TypeOK'
  BY <1>1, Left DEF TypeOK, workspace
<1> QED BY <1>1, <1>2, <1>3, Left, LeftLocal, GoesOn


-----------------------------------------------------------------------------
(* Steps that commit nothing.                                              *)

LEMMA EditStep == ASSUME IInv, Edit PROVE IInv' /\ store' = store
<1>1. /\ disk' = Mixed /\ origin' = "foreign"
      /\ UNCHANGED <<store, written, pc, job, copy, output>>
  BY DEF Edit
<1>2. ~(Mixed \in Patch) /\ Mixed \in Content
  BY Contents
<1>3. TypeOK'
  BY <1>1, <1>2 DEF IInv, TypeOK, Origin
<1>4. Sound(store'.value) /\ JournalIsTrue' /\ Workspace' /\ Explained' /\ Fresh'
  BY <1>1, <1>2 DEF IInv, JournalIsTrue, Workspace, Explained, Fresh
<1>5. ASSUME NEW g \in Handler PROVE Local(g)'
  BY <1>1, OthersStand
<1> QED BY <1>1, <1>3, <1>4, <1>5 DEF IInv

LEMMA BootstrapStep ==
  ASSUME IInv, NEW h \in Handler, Bootstrap(h) PROVE IInv' /\ store' = store
<1>1. /\ UNCHANGED <<store, disk, written, origin, job>>
      /\ copy' = [copy EXCEPT ![h].revision = store.revision]
      /\ TypeOK /\ Local(h) /\ Workspace
  BY DEF Bootstrap, IInv, workspace
<1>2. /\ copy' \in [Handler -> [revision : Nat, value : Checkpoint]]
      /\ copy'[h].revision = store.revision /\ copy'[h].value = copy[h].value
      /\ \A g \in Handler \ {h} : copy'[g] = copy[g]
  BY <1>1 DEF TypeOK
<1>3. CASE store.revision = 0 /\ output' = [output EXCEPT ![h].hash = disk] /\ Goto(h, "create")
  <2>1. /\ pc'[h] = "create" /\ pc' \in [Handler -> Place]
        /\ \A g \in Handler \ {h} : pc'[g] = pc[g]
    BY <1>1, <1>3 DEF Goto, TypeOK, Place
  <2>2. /\ output'[h].hash = disk /\ output' \in [Handler -> [value : Checkpoint, hash : Content]]
        /\ \A g \in Handler \ {h} : output'[g] = output[g]
    BY <1>1, <1>3 DEF TypeOK
  <2>4. TypeOK'
    BY <1>1, <1>2, <2>1, <2>2 DEF TypeOK
  <2>5. Local(h)'
    <3>1. /\ copy'[h].revision = 0
          /\ copy'[h].value.journal \subseteq written' \cap store'.value.journal
          /\ copy'[h].value.hash \in Patch => copy'[h].value.hash \in written'
      BY <1>1, <1>2, <1>3 DEF Local
    <3>2. /\ output'[h].hash \in Patch => output'[h].hash \in written'
          /\ output'[h].hash = Mixed => disk' = Mixed
          /\ SeesWorkspace(h)'
      BY <1>1, <2>2 DEF Workspace, SeesWorkspace
    <3> QED BY <1>1, <1>3, <2>1, <2>2, <3>1, <3>2 DEF Local, Acting
  <2> QED BY <1>1, <1>2, <2>1, <2>2, <2>4, <2>5, GoesOn DEF workspace
<1>4. CASE Goto(h, "start") /\ UNCHANGED output
  <2>1. /\ pc'[h] = "start" /\ pc' \in [Handler -> Place]
        /\ \A g \in Handler \ {h} : pc'[g] = pc[g]
    BY <1>1, <1>4 DEF Goto, TypeOK, Place
  <2>2. TypeOK'
    BY <1>1, <1>2, <1>4, <2>1 DEF TypeOK
  <2>3. Local(h)'
    BY <1>1, <1>2, <1>4, <2>1 DEF Local, Acting, Observing, TypeOK
  <2> QED BY <1>1, <1>2, <1>4, <2>1, <2>2, <2>3, GoesOn DEF workspace
<1> QED BY <1>3, <1>4 DEF Bootstrap

LEMMA TakeWorkStep ==
  ASSUME IInv, NEW h \in Handler, TakeWork(h) PROVE IInv' /\ store' = store
<1>1. /\ UNCHANGED <<store, disk, written, origin, job, output>>
      /\ copy' = [copy EXCEPT ![h].revision = store.revision]
      /\ Goto(h, "work") /\ TypeOK /\ Local(h)
  BY DEF TakeWork, IInv, workspace
<1>2. /\ copy' \in [Handler -> [revision : Nat, value : Checkpoint]]
      /\ copy'[h].revision = store.revision /\ copy'[h].value = copy[h].value
      /\ \A g \in Handler \ {h} : copy'[g] = copy[g]
  BY <1>1 DEF TypeOK
<1>3. /\ pc'[h] = "work" /\ pc' \in [Handler -> Place]
      /\ \A g \in Handler \ {h} : pc'[g] = pc[g]
  BY <1>1 DEF Goto, TypeOK, Place
<1>4. TypeOK'
  BY <1>1, <1>2, <1>3 DEF TypeOK
<1>5. Local(h)'
  BY <1>1, <1>2, <1>3 DEF Local, Acting, Observing, TypeOK
<1> QED BY <1>1, <1>2, <1>3, <1>4, <1>5, GoesOn DEF workspace

LEMMA LoadStep ==
  ASSUME IInv, NEW h \in Handler, Load(h) PROVE IInv' /\ store' = store
<1>1. /\ UNCHANGED <<store, disk, written, origin, job, copy, output>> /\ pc[h] = "load"
      /\ Goto(h, "commit") /\ TypeOK /\ Local(h)
  BY DEF Load, IInv, workspace
<1>2. /\ pc'[h] = "commit" /\ pc' \in [Handler -> Place]
      /\ \A g \in Handler \ {h} : pc'[g] = pc[g]
  BY <1>1 DEF Goto, TypeOK, Place
<1>3. TypeOK'
  BY <1>1, <1>2 DEF TypeOK
<1>4. ~Acting(h)' /\ SeesWorkspace(h)'
  BY <1>1, LabAssumption DEF Local, Acting, Observing, SeesWorkspace
<1>5. Local(h)'
  BY <1>1, <1>2, <1>4 DEF Local
<1> QED BY <1>1, <1>2, <1>3, <1>5, GoesOn DEF workspace

LEMMA ServeStep ==
  ASSUME IInv, NEW h \in Handler, NEW r \in Request, Serve(h, r)
  PROVE  IInv' /\ store' = store
<1>1. /\ UNCHANGED <<store, disk, written, origin>> /\ job' = [job EXCEPT ![h] = r]
      /\ TypeOK /\ Local(h) /\ Workspace /\ JournalIsTrue /\ Sound(store.value)
  BY DEF Serve, IInv, workspace
<1>2. /\ job' \in [Handler -> Request \cup {NoRequest}] /\ job'[h] = r
      /\ \A g \in Handler \ {h} : job'[g] = job[g]
  BY <1>1 DEF TypeOK
<1>3. CASE r \in Resume
  <2>1. /\ output' = [output EXCEPT ![h].hash = disk] /\ Goto(h, "load")
        /\ copy' = [copy EXCEPT ![h].revision = store.revision]
    BY <1>3, LabAssumption DEF Serve
  <2>2. /\ pc'[h] = "load" /\ pc' \in [Handler -> Place]
        /\ \A g \in Handler \ {h} : pc'[g] = pc[g]
    BY <1>1, <2>1 DEF Goto, TypeOK, Place
  <2>3. /\ output'[h].hash = disk /\ output' \in [Handler -> [value : Checkpoint, hash : Content]]
        /\ \A g \in Handler \ {h} : output'[g] = output[g]
    BY <1>1, <2>1 DEF TypeOK
  <2>4. /\ copy' \in [Handler -> [revision : Nat, value : Checkpoint]]
        /\ copy'[h].revision = store.revision /\ copy'[h].value = copy[h].value
        /\ \A g \in Handler \ {h} : copy'[g] = copy[g]
    BY <1>1, <2>1 DEF TypeOK
  <2>5. TypeOK'
    BY <1>1, <1>2, <2>2, <2>3, <2>4 DEF TypeOK
  <2>6. SeesWorkspace(h)' /\ ~Acting(h)'
    BY <1>1, <2>2, <2>3 DEF SeesWorkspace, Acting
  <2>7. Local(h)'
    BY <1>1, <1>2, <1>3, <2>2, <2>3, <2>4, <2>6 DEF Local, Workspace, TypeOK
  <2> QED BY <1>1, <1>2, <2>2, <2>3, <2>4, <2>5, <2>7, GoesOn DEF workspace
<1>4. CASE r \notin Resume /\ r \in Verify \cup Rollback
  <2>1. /\ copy' = [copy EXCEPT ![h] = store] /\ Goto(h, "act") /\ UNCHANGED output
    BY <1>4 DEF Serve
  <2>2. /\ pc'[h] = "act" /\ pc' \in [Handler -> Place]
        /\ \A g \in Handler \ {h} : pc'[g] = pc[g]
    BY <1>1, <2>1 DEF Goto, TypeOK, Place
  <2>3. /\ copy'[h] = store /\ copy' \in [Handler -> [revision : Nat, value : Checkpoint]]
        /\ \A g \in Handler \ {h} : copy'[g] = copy[g]
    BY <1>1, <2>1 DEF TypeOK
  <2>4. TypeOK'
    BY <1>1, <1>2, <2>1, <2>2, <2>3 DEF TypeOK
  <2>5. Local(h)'
    BY <1>1, <2>1, <2>2, <2>3 DEF Local, Acting, Observing, Loaded, JournalIsTrue,
                                  Workspace, TypeOK
  <2> QED BY <1>1, <1>2, <2>1, <2>2, <2>3, <2>4, <2>5, GoesOn DEF workspace
<1>5. CASE r \notin Resume /\ r \notin Verify \cup Rollback
  <2>1. /\ copy' = [copy EXCEPT ![h].revision = store.revision]
        /\ Goto(h, "commit") /\ UNCHANGED output
    BY <1>5 DEF Serve
  <2>2. /\ pc'[h] = "commit" /\ pc' \in [Handler -> Place]
        /\ \A g \in Handler \ {h} : pc'[g] = pc[g]
    BY <1>1, <2>1 DEF Goto, TypeOK, Place
  <2>3. /\ copy' \in [Handler -> [revision : Nat, value : Checkpoint]]
        /\ copy'[h].revision = store.revision /\ copy'[h].value = copy[h].value
        /\ \A g \in Handler \ {h} : copy'[g] = copy[g]
    BY <1>1, <2>1 DEF TypeOK
  <2>4. TypeOK'
    BY <1>1, <1>2, <2>1, <2>2, <2>3 DEF TypeOK
  <2>5. ~Acting(h)' /\ ~Observing(h)'
    BY <1>2, <1>5, <2>2 DEF Acting, Observing
  <2>6. Local(h)'
    BY <1>1, <2>1, <2>2, <2>3, <2>5 DEF Local, TypeOK
  <2> QED BY <1>1, <1>2, <2>1, <2>2, <2>3, <2>4, <2>6, GoesOn DEF workspace
<1> QED BY <1>3, <1>4, <1>5


LEMMA LeavingSteps ==
  ASSUME IInv, NEW h \in Handler, ActThrows(h) \/ CommitRefused(h) \/ Crash(h)
  PROVE  IInv' /\ store' = store
<1>1. Drop(h)
  BY DEF ActThrows, CommitRefused, Crash
<1> QED BY <1>1, DropKeeps

\* A passed verification completes the task and asks for the gate.
LEMMA CompletedStatus ==
  ASSUME NEW c \in Checkpoint
  PROVE  LET v == Completed(c)
         IN /\ v \in Checkpoint /\ v.task = "completed"
            /\ \/ v.run = c.run
               \/ v.run = "awaiting_user_gate" /\ v.run \in RunTransitions[c.run]
<1> DEFINE run == Moved(RunTransitions, c.run, "awaiting_user_gate")
           phase == Moved(PhaseTransitions, c.phase, "awaiting_gate")
           v == Completed(c)
<1>1. v = [c EXCEPT !.task = "completed", !.phase = phase, !.run = run]
  BY DEF Completed
<1>2. /\ run \in RunStatus /\ phase \in {c.phase, "awaiting_gate"}
      /\ run = c.run \/ (run = "awaiting_user_gate" /\ run \in RunTransitions[c.run])
  BY Moves DEF Checkpoint
<1> HIDE DEF run, phase, v
<1>3. v \in Checkpoint /\ v.task = "completed" /\ v.run = run
  BY <1>1, <1>2, Statuses DEF Checkpoint
<1> QED BY <1>2, <1>3 DEF v

LEMMA ActVerifyStep ==
  ASSUME IInv, NEW h \in Handler, ActVerify(h) PROVE IInv' /\ store' = store
<1> DEFINE c == copy[h].value
<1>1. /\ UNCHANGED <<store, disk, written, origin, job, copy>> /\ Goto(h, "commit")
      /\ pc[h] = "act" /\ job[h] \in Verify /\ c.task = "verifying" /\ c.journal # {}
      /\ TypeOK /\ Local(h) /\ Workspace /\ Explained
  BY DEF ActVerify, IInv, workspace
<1>2. PICK passed \in BOOLEAN :
        output' = [output EXCEPT ![h] =
          [value |-> [IF passed THEN Completed(c) ELSE c
                      EXCEPT !.boundary = "verification_committed"],
           hash  |-> disk]]
  BY DEF ActVerify
<1> DEFINE w == IF passed THEN Completed(c) ELSE c
           v == [w EXCEPT !.boundary = "verification_committed"]
<1>3. c \in Checkpoint /\ Loaded(h)
  BY <1>1 DEF TypeOK, Local
<1>4. w \in Checkpoint
      /\ \/ w.run = c.run
         \/ w.run = "awaiting_user_gate" /\ w.run \in RunTransitions[c.run]
  BY <1>3, CompletedStatus
<1>5. output'[h].value = v /\ output'[h].hash = disk
      /\ \A g \in Handler \ {h} : output'[g] = output[g]
  BY <1>1, <1>2 DEF TypeOK
<1>6. output' = [output EXCEPT ![h] = [value |-> v, hash |-> disk]]
  BY <1>2
<1> HIDE DEF w
<1>7. v \in Checkpoint /\ v.run = w.run
  BY <1>4 DEF Checkpoint, SafeBoundary
<1> HIDE DEF v
<1>8. output' \in [Handler -> [value : Checkpoint, hash : Content]]
  BY <1>1, <1>6, <1>7 DEF TypeOK
<1>9. /\ pc'[h] = "commit" /\ pc' \in [Handler -> Place]
      /\ \A g \in Handler \ {h} : pc'[g] = pc[g]
  BY <1>1 DEF Goto, TypeOK, Place
<1>10. TypeOK'
  BY <1>1, <1>8, <1>9 DEF TypeOK
<1>11. SeesWorkspace(h)'
  BY <1>1, <1>5 DEF SeesWorkspace
<1>12. Loaded(h)' /\ Acted(h)'
  BY <1>1, <1>3, <1>4, <1>5, <1>7 DEF Loaded, Acted
<1>13. Local(h)'
  BY <1>1, <1>5, <1>9, <1>11, <1>12 DEF Local, Workspace
<1> QED BY <1>1, <1>5, <1>9, <1>10, <1>13, GoesOn DEF workspace

\* A rollback leaves the workspace before the newest patch of the journal it
\* loaded, as it was, or as something else.
LEMMA ActRollbackStep ==
  ASSUME IInv, NEW h \in Handler, ActRollback(h) PROVE IInv' /\ store' = store
<1> DEFINE c == copy[h].value
           newest == LastPatch(c)
<1>1. /\ UNCHANGED <<store, written, job, copy>> /\ Goto(h, "commit")
      /\ pc[h] = "act" /\ job[h] \in Rollback
      /\ c.task \in {"verifying", "repairing"} /\ c.journal # {}
      /\ TypeOK /\ Local(h) /\ Workspace /\ Explained /\ Sound(store.value)
  BY DEF ActRollback, IInv
<1>2. PICK result \in {"rolled_back", "apply_failed", "hash_conflict"} :
        /\ CASE result = "rolled_back" -> disk' = Changed(newest, newest - 1)
             [] result = "apply_failed" -> disk' \in {disk, Mixed}
             [] OTHER -> disk' = disk
        /\ origin' = IF disk' = disk THEN origin
                     ELSE IF disk' = Mixed THEN "foreign" ELSE "reverted"
        /\ output' = [output EXCEPT ![h] =
             [value |-> [IF result = "rolled_back" THEN [c EXCEPT !.task = "rolled_back"]
                         ELSE NeedsUser(c) EXCEPT !.boundary = "task_ready"],
              hash  |-> disk']]
  BY DEF ActRollback
<1> DEFINE w == IF result = "rolled_back" THEN [c EXCEPT !.task = "rolled_back"] ELSE NeedsUser(c)
           v == [w EXCEPT !.boundary = "task_ready"]
<1>3. c \in Checkpoint /\ Loaded(h)
  BY <1>1 DEF TypeOK, Local
<1>4. newest \in c.journal
  BY <1>1, <1>3, NewestPatch
<1>5. newest \in written /\ newest \in store.value.journal /\ newest \in Patch
  BY <1>1, <1>4 DEF Local, TypeOK
<1> HIDE DEF newest
<1>6. /\ disk' \in Content
      /\ disk = Mixed => disk' = Mixed
      /\ disk' = disk \/ disk' = Mixed \/ disk' = newest - 1
  <2>1. CASE result = "rolled_back"
    <3>1. disk' = IF disk = newest THEN newest - 1 ELSE Mixed
      BY <1>2, <2>1 DEF Changed
    <3> QED BY <1>5, <3>1, Contents
  <2>2. CASE result = "apply_failed"
    <3>1. disk' \in {disk, Mixed}
      BY <1>2, <2>2
    <3> QED BY <1>1, <3>1, Contents DEF TypeOK
  <2>3. CASE result = "hash_conflict"
    <3>1. disk' = disk
      BY <1>2, <2>3
    <3> QED BY <1>1, <3>1 DEF TypeOK
  <2> QED BY <2>1, <2>2, <2>3
<1>7. disk' \in Patch => disk' \in written
  BY <1>1, <1>5, <1>6, Contents DEF Workspace
<1>8. Explained' /\ origin' \in Origin /\ (origin' = "recorded" => origin = "recorded" /\ disk' = disk)
  <2>1. CASE disk' = disk
    <3>1. origin' = origin
      BY <1>2, <2>1
    <3> QED BY <1>1, <2>1, <3>1 DEF Explained, TypeOK
  <2>2. CASE disk' # disk /\ disk' = Mixed
    <3>1. origin' = "foreign"
      BY <1>2, <2>2
    <3> QED BY <1>1, <2>2, <3>1 DEF Explained, Origin
  <2>3. CASE disk' # disk /\ disk' # Mixed
    <3>1. origin' = "reverted"
      BY <1>2, <2>3
    <3>2. disk' + 1 \in store.value.journal
      BY <1>5, <1>6, <2>3, Contents
    <3> QED BY <1>1, <3>1, <3>2 DEF Explained, Origin
  <2> QED BY <2>1, <2>2, <2>3
<1>9. /\ w \in Checkpoint /\ w.task # "completed"
      /\ w.run = c.run \/ (w.run = "needs_user_action" /\ w.run \in RunTransitions[c.run])
  <2>1. CASE result = "rolled_back"
    <3>1. w = [c EXCEPT !.task = "rolled_back"]
      BY <2>1
    <3> QED BY <1>3, <3>1, Statuses DEF Checkpoint
  <2>2. CASE result # "rolled_back" /\ c.run = "running"
    <3>1. w = [c EXCEPT !.run = "needs_user_action"]
      BY <2>2 DEF NeedsUser
    <3>2. w \in Checkpoint /\ w.task = c.task /\ w.run = "needs_user_action"
      BY <1>3, <3>1, Statuses DEF Checkpoint
    <3> QED BY <1>1, <2>2, <3>2, Moves
  <2>3. CASE result # "rolled_back" /\ c.run # "running"
    <3>1. w = c
      BY <2>3 DEF NeedsUser
    <3> QED BY <1>1, <1>3, <3>1
  <2> QED BY <2>1, <2>2, <2>3
<1>10. output' = [output EXCEPT ![h] = [value |-> v, hash |-> disk']]
  BY <1>2
<1> HIDE DEF w
<1>11. v \in Checkpoint /\ v.run = w.run /\ v.task = w.task
  BY <1>9 DEF Checkpoint, SafeBoundary
<1> HIDE DEF v
<1>12. /\ output'[h].value = v /\ output'[h].hash = disk'
       /\ \A g \in Handler \ {h} : output'[g] = output[g]
       /\ output' \in [Handler -> [value : Checkpoint, hash : Content]]
  BY <1>1, <1>6, <1>10, <1>11 DEF TypeOK
<1>13. /\ pc'[h] = "commit" /\ pc' \in [Handler -> Place]
       /\ \A g \in Handler \ {h} : pc'[g] = pc[g]
  BY <1>1 DEF Goto, TypeOK, Place
<1>14. TypeOK'
  BY <1>1, <1>6, <1>8, <1>12, <1>13 DEF TypeOK
<1>15. SeesWorkspace(h)'
  BY <1>12 DEF SeesWorkspace
<1>16. Loaded(h)' /\ Acted(h)'
  BY <1>1, <1>3, <1>9, <1>11, <1>12 DEF Loaded, Acted
<1>17. Local(h)'
  BY <1>1, <1>7, <1>12, <1>13, <1>15, <1>16 DEF Local
<1>18. ASSUME NEW g \in Handler PROVE Local(g)'
  <2>1. CASE g = h
    BY <1>17, <2>1
  <2>2. CASE g # h
    BY <1>1, <1>6, <1>8, <1>12, <1>13, <2>2, OthersStand
  <2> QED BY <2>1, <2>2
<1>19. Workspace'
  BY <1>1, <1>7 DEF Workspace
<1>20. Sound(store'.value) /\ JournalIsTrue' /\ Fresh'
  BY <1>1 DEF IInv, JournalIsTrue, Fresh
<1> QED BY <1>1, <1>8, <1>14, <1>18, <1>19, <1>20 DEF IInv

\* A prepared patch gives its own content or, beside changes of others, another.
LEMMA ApplyPatchStep ==
  ASSUME IInv, NEW h \in Handler, ApplyPatch(h) PROVE IInv' /\ store' = store
<1> DEFINE op == copy[h].value.pending
<1>1. /\ pc[h] = "apply" /\ op.kind = "applying_patch"
      /\ TypeOK /\ Local(h) /\ Workspace /\ Explained
      /\ Sound(store.value) /\ JournalIsTrue /\ Fresh
  BY DEF ApplyPatch, IInv
<1>2. Sound(copy[h].value) /\ Interrupted(copy[h].value)
  BY <1>1 DEF Local, Loaded, Interrupted
<1>3. /\ op.after \in Patch /\ op.after - 1 = op.before /\ op.before \in Nat
      /\ op.before \in Patch => op.before \in written
  <2>1. copy[h].value.hash \in Nat
    BY <1>1, Contents DEF TypeOK, Checkpoint
  <2> QED BY <1>1, <1>2, <2>1, Contents DEF Sound, Local
<1> HIDE DEF op
<1>4. CASE /\ disk' = Changed(op.before, op.after) /\ written' = written \cup {op.after}
           /\ origin' = IF disk' = Mixed THEN "foreign"
                        ELSE IF store.value.pending = op THEN "prepared"
                        ELSE "unprepared"
           /\ output' = [output EXCEPT ![h].hash = disk'] /\ Goto(h, "report")
           /\ UNCHANGED <<store, job, copy>>
  <2>1. /\ pc'[h] = "report" /\ pc' \in [Handler -> Place]
        /\ \A g \in Handler \ {h} : pc'[g] = pc[g]
    BY <1>1, <1>4 DEF Goto, TypeOK, Place
  <2>2. /\ disk' \in {op.after, Mixed} /\ op.after # Mixed /\ disk' \in Content
        /\ disk = Mixed => disk' = Mixed
        /\ origin' \in {"foreign", "prepared", "unprepared"} /\ origin' \in Origin
    BY <1>3, <1>4, Contents DEF Changed, Origin
  <2>3. /\ output'[h].hash = disk' /\ output' \in [Handler -> [value : Checkpoint, hash : Content]]
        /\ \A g \in Handler \ {h} : output'[g] = output[g]
    BY <1>1, <1>4, <2>2 DEF TypeOK
  <2>4. TypeOK'
    BY <1>1, <1>3, <1>4, <2>1, <2>2, <2>3 DEF TypeOK
  <2>5. Local(h)'
    <3>1. Loaded(h)'
      BY <1>1, <1>4 DEF Local, Loaded
    <3>2. ~Acting(h)' /\ SeesWorkspace(h)'
      BY <2>1, <2>2 DEF Acting, SeesWorkspace
    <3>3. /\ copy'[h].value.journal \subseteq written' \cap store'.value.journal
          /\ copy'[h].value.hash \in Patch => copy'[h].value.hash \in written'
          /\ copy'[h].revision <= store'.revision
      BY <1>1, <1>4 DEF Local
    <3>4. output'[h].hash \in Patch => output'[h].hash \in written'
      BY <1>4, <2>2, <2>3, Contents
    <3> QED BY <1>1, <1>2, <1>4, <2>1, <2>2, <2>3, <3>1, <3>2, <3>3, <3>4 DEF Local, op
  <2>6. ASSUME NEW g \in Handler PROVE Local(g)'
    <3>1. CASE g = h
      BY <2>5, <3>1
    <3>2. CASE g # h
      BY <1>4, <2>1, <2>2, <2>3, <3>2, OthersStand
    <3> QED BY <3>1, <3>2
  <2>7. Workspace'
    <3>1. \A p \in written' : p - 1 \in Patch => p - 1 \in written'
      BY <1>1, <1>3, <1>4 DEF Workspace
    <3>2. disk' \in Patch => disk' \in written'
      BY <1>4, <2>2, Contents
    <3> QED BY <1>1, <1>4, <3>1, <3>2 DEF Workspace
  <2>8. Sound(store'.value) /\ JournalIsTrue' /\ Fresh'
    BY <1>1, <1>4 DEF JournalIsTrue, Fresh
  <2>9. Explained'
    <3>1. CASE disk' = Mixed
      <4>1. origin' = "foreign"
        BY <1>4, <3>1
      <4> QED BY <3>1, <4>1 DEF Explained
    <3>2. CASE disk' # Mixed /\ store.value.pending = op
      <4>1. origin' = "prepared"
        BY <1>4, <3>2
      <4> QED BY <1>1, <1>4, <2>2, <3>2, <4>1 DEF Explained, Interrupted
    <3>3. CASE disk' # Mixed /\ store.value.pending # op
      <4>1. origin' = "unprepared"
        BY <1>4, <3>3
      <4>2. Steady(store.value) => op.after \in store.value.journal
        BY <1>1, <1>2, <3>3 DEF Local, op
      <4> QED BY <1>4, <2>2, <3>3, <4>1, <4>2 DEF Explained
    <3> QED BY <3>1, <3>2, <3>3
  <2> QED BY <1>4, <2>4, <2>6, <2>7, <2>8, <2>9 DEF IInv
<1>5. CASE disk' = Mixed /\ origin' = "foreign" /\ Leave(h) /\ UNCHANGED <<store, written>>
  <2>1. Mixed \in Content /\ ~(Mixed \in Patch)
    BY Contents
  <2>2. TypeOK'
    BY <1>1, <1>5, <2>1, Left DEF TypeOK, Origin
  <2>3. ASSUME NEW g \in Handler PROVE Local(g)'
    <3>1. CASE g = h
      BY <1>1, <1>5, <3>1, LeftLocal DEF TypeOK
    <3>2. CASE g # h
      BY <1>1, <1>5, <3>2, Left, OthersStand
    <3> QED BY <3>1, <3>2
  <2>4. Sound(store'.value) /\ JournalIsTrue' /\ Fresh' /\ Workspace' /\ Explained'
    BY <1>1, <1>5, <2>1 DEF JournalIsTrue, Fresh, Workspace, Explained
  <2> QED BY <1>5, <2>2, <2>3, <2>4 DEF IInv
<1>6. CASE Drop(h)
  BY <1>6, DropKeeps
<1> QED BY <1>4, <1>5, <1>6 DEF ApplyPatch, AppliesTo, op


-----------------------------------------------------------------------------
(* Steps that commit.                                                      *)

\* What is committed for a recorded command.
Executing(w, r) ==
  [w EXCEPT !.pending = NoOperation, !.receipts = @ \cup ({r} \ {NoRequest})]

LEMMA ExecutedValue ==
  ASSUME NEW w \in Checkpoint, NEW r \in Request \cup {NoRequest}
  PROVE  LET v == Executing(w, r)
         IN /\ v \in Checkpoint
            /\ v.run = w.run /\ v.phase = w.phase /\ v.task = w.task /\ v.hash = w.hash
            /\ v.journal = w.journal /\ v.pending = NoOperation /\ ~Interrupted(v)
            /\ v.receipts = w.receipts \cup ({r} \ {NoRequest})
<1> DEFINE v == Executing(w, r)
<1>1. NoOperation \in Operation /\ NoOperation.kind = "none"
  BY Contents DEF NoOperation, Operation
<1>2. w.receipts \cup ({r} \ {NoRequest}) \in SUBSET Request
  BY DEF Checkpoint
<1>3. v \in Checkpoint
  BY <1>1, <1>2 DEF Executing, Checkpoint
<1>4. /\ v.run = w.run /\ v.phase = w.phase /\ v.task = w.task /\ v.hash = w.hash
      /\ v.journal = w.journal /\ v.pending = NoOperation
      /\ v.receipts = w.receipts \cup ({r} \ {NoRequest})
  BY DEF Executing, Checkpoint
<1> HIDE DEF v
<1>5. ~Interrupted(v)
  BY <1>1, <1>4 DEF Interrupted
<1> QED BY <1>3, <1>4, <1>5 DEF v

\* A commit that records the workspace as its handler found it accounts for it.
LEMMA ObservedAccounts ==
  ASSUME NEW c, NEW v, Observed(v.hash), origin \in {"recorded", "prepared"} => disk = v.hash
  PROVE  Accounts(c, v)
  BY DEF Observed, Accounts

LEMMA ExecutedCommits ==
  ASSUME IInv, NEW h \in Handler, NEW r, NEW w, Executed(h, r, w),
         Step(store.value, Executing(w, r)), Accounts(store.value, Executing(w, r)),
         Leave(h), UNCHANGED <<disk, written>>
  PROVE  IInv' /\ Step(store.value, store'.value)
<1> DEFINE v == Executing(w, r)
<1>1. Committed(v)
  BY DEF Executed, Executing
<1> HIDE DEF v
<1>2. IInv' /\ store'.value = v
  BY <1>1, CommitAndLeave DEF v
<1> QED BY <1>2 DEF v

\* A command that changes only statuses and drops no prepared patch, unless it
\* is a gate or a cancel.
LEMMA PlainIsStep ==
  ASSUME IInv, NEW r \in Request \cup {NoRequest}, NEW w \in Checkpoint,
         w.hash = store.value.hash, w.journal = store.value.journal,
         w.receipts = store.value.receipts,
         Onward(store.value, w),
         w.run = "ready" => w.task = "pending",
         w.task = "completed" => store.value.task = "completed",
         w.run = "completed" => w.task = "completed" /\ w.phase = "completed",
         Interrupted(store.value) => r \in Gate \cup Cancel,
         Unobserved(r)
  PROVE  Step(store.value, Executing(w, r)) /\ Accounts(store.value, Executing(w, r))
<1> DEFINE c == store.value
           v == Executing(w, r)
<1>1. /\ c \in Checkpoint /\ Sound(c) /\ c.journal \subseteq written
      /\ c.hash \in Patch => c.hash \in written
      /\ origin = "prepared" => Interrupted(c)
  BY DEF IInv, TypeOK, JournalIsTrue, Workspace, Explained
<1>2. /\ v \in Checkpoint
      /\ v.run = w.run /\ v.phase = w.phase /\ v.task = w.task /\ v.hash = c.hash
      /\ v.journal = c.journal /\ ~Interrupted(v)
      /\ v.receipts = c.receipts \cup ({r} \ {NoRequest})
  BY ExecutedValue
<1> HIDE DEF v, c
<1>3. Onward(c, v)
  BY <1>2 DEF Onward, c
<1>5. Sound(v)
  <2>1. /\ v.run = "ready" => v.task = "pending"
        /\ v.run = "completed" => v.task = "completed" /\ v.phase = "completed"
    BY <1>2
  <2>2. v.task = "completed" => v.journal # {} /\ v.receipts \cap Verify # {}
    BY <1>1, <1>2 DEF Sound, c
  <2> QED BY <1>2, <2>1, <2>2 DEF Sound
<1>6. Interrupted(c) => ~Steady(v)
  <2>1. SUFFICES ASSUME Interrupted(c) PROVE ~Steady(v)
    OBVIOUS
  <2>2. r \in Gate \cup Cancel
    BY <2>1 DEF c
  <2>3. r \in Request /\ r # NoRequest
    BY <2>2, LabAssumption DEF Request
  <2> QED BY <1>2, <2>2, <2>3 DEF Steady
<1>7. Accounts(c, v)
  <2>1. CASE origin # "prepared"
    BY <1>2, <2>1 DEF Unobserved, Accounts
  <2>2. CASE origin = "prepared"
    <3>1. r \in Gate \cup Cancel
      BY <1>1, <2>2 DEF c
    <3> QED BY <1>1, <1>6, <2>2, <3>1 DEF Unobserved, Accounts
  <2> QED BY <2>1, <2>2
<1> QED BY <1>1, <1>2, <1>3, <1>5, <1>6, <1>7 DEF Step, v, c

LEMMA StartStep ==
  ASSUME IInv, NEW h \in Handler, StartDevelopmentRun(h)
  PROVE  IInv' /\ Step(store.value, store'.value)
<1> DEFINE c == store.value
           w == [c EXCEPT !.run = "running", !.phase = "running", !.task = "ready",
                          !.boundary = "task_ready"]
<1>1. /\ c \in Checkpoint /\ Sound(c) /\ c.run = "ready" /\ Executed(h, NoRequest, w)
      /\ Unobserved(NoRequest) /\ Leave(h) /\ UNCHANGED <<disk, written>>
  BY DEF StartDevelopmentRun, IInv, TypeOK
<1>2. /\ w \in Checkpoint /\ w.hash = c.hash /\ w.journal = c.journal
      /\ w.receipts = c.receipts /\ w.run = "running" /\ w.task = "ready"
  BY <1>1, Statuses DEF Checkpoint, SafeBoundary
<1>3. c.task = "pending" /\ ~Interrupted(c)
  BY <1>1 DEF Sound
<1> HIDE DEF w
<1>4. Onward(c, w)
  BY <1>1, <1>2, <1>3, Moves DEF Onward
<1>5. Step(c, Executing(w, NoRequest)) /\ Accounts(c, Executing(w, NoRequest))
  BY <1>1, <1>2, <1>3, <1>4, PlainIsStep
<1> QED BY <1>1, <1>5, ExecutedCommits

LEMMA WorkStep ==
  ASSUME IInv, NEW h \in Handler, Work(h)
  PROVE  IInv' /\ Step(store.value, store'.value)
<1> DEFINE c == store.value
<1>1. /\ c \in Checkpoint /\ Sound(c) /\ c.run = "running"
      /\ Unobserved(NoRequest) /\ Leave(h) /\ UNCHANGED <<disk, written>>
  BY DEF Work, IInv, TypeOK
<1>2. PICK w : /\ Executed(h, NoRequest, w) /\ c.task \in {"ready", "repairing", "verifying"}
               /\ \/ w = [c EXCEPT !.task = "applying_patch"]
                  \/ w = [c EXCEPT !.task = "repairing", !.boundary = "repair_committed"]
  <2>1. CASE /\ c.task \in {"ready", "repairing"}
             /\ Executed(h, NoRequest, [c EXCEPT !.task = "applying_patch"])
    BY <2>1
  <2>2. CASE /\ c.task = "verifying"
             /\ Executed(h, NoRequest, [c EXCEPT !.task = "repairing",
                                                !.boundary = "repair_committed"])
    BY <2>2
  <2> QED BY <2>1, <2>2 DEF Work
<1>3. /\ w \in Checkpoint /\ w.hash = c.hash /\ w.journal = c.journal
      /\ w.receipts = c.receipts /\ w.run = c.run /\ w.task \in {"applying_patch", "repairing"}
  BY <1>1, <1>2, Statuses DEF Checkpoint, SafeBoundary
<1>4. ~Interrupted(c)
  BY <1>1, <1>2 DEF Sound
<1>5. Onward(c, w)
  BY <1>2, <1>3 DEF Onward
<1>6. Step(c, Executing(w, NoRequest)) /\ Accounts(c, Executing(w, NoRequest))
  BY <1>1, <1>3, <1>4, <1>5, PlainIsStep
<1> QED BY <1>1, <1>2, <1>6, ExecutedCommits

\* A checkpoint recorded as it was read.
LEMMA SameIsOnward ==
  \A c : Onward(c, c)
  BY DEF Onward

LEMMA ReportOtherStep ==
  ASSUME IInv, NEW h \in Handler, ReportOther(h)
  PROVE  IInv' /\ Step(store.value, store'.value)
<1> DEFINE c == store.value
<1>1. /\ c \in Checkpoint /\ Sound(c) /\ Executed(h, NoRequest, c)
      /\ pc[h] = "apply" /\ copy[h].value.pending.kind \in {"verifying", "repairing"}
      /\ Local(h) /\ Unobserved(NoRequest) /\ Leave(h) /\ UNCHANGED <<disk, written>>
  BY DEF ReportOther, IInv, TypeOK
<1>2. copy[h].value = c
  BY <1>1 DEF Executed, Expected, Local, Loaded
<1>3. ~Interrupted(c)
  BY <1>1, <1>2 DEF Interrupted
<1> HIDE DEF c
<1>4. Step(c, Executing(c, NoRequest)) /\ Accounts(c, Executing(c, NoRequest))
  BY <1>1, <1>3, PlainIsStep, SameIsOnward DEF Sound, c
<1> QED BY <1>1, <1>4, ExecutedCommits DEF c

\* A pause, a cancellation or a resume, accepted or not, changes only statuses.
LEMMA ControlledStatus ==
  ASSUME NEW c \in Checkpoint, Sound(c), NEW to \in {"paused", "cancelled", "running"},
         NEW boundary \in SafeBoundary
  PROVE  LET w == Controlled(c, to, boundary)
         IN /\ w \in Checkpoint /\ w.hash = c.hash /\ w.journal = c.journal
            /\ w.receipts = c.receipts /\ Onward(c, w)
            /\ w.run = "ready" => w.task = "pending"
            /\ w.task = "completed" => c.task = "completed"
            /\ w.run = "completed" => w.task = "completed" /\ w.phase = "completed"
<1> DEFINE w == Controlled(c, to, boundary)
<1>1. CASE to \notin RunTransitions[c.run]
  <2>1. w = [c EXCEPT !.boundary = boundary]
    BY <1>1 DEF Controlled
  <2> HIDE DEF w
  <2>2. /\ w \in Checkpoint /\ w.hash = c.hash /\ w.journal = c.journal
        /\ w.receipts = c.receipts /\ w.run = c.run /\ w.task = c.task /\ w.phase = c.phase
    BY <2>1 DEF Checkpoint
  <2> QED BY <2>2 DEF Sound, Onward, w
<1>2. CASE to \in RunTransitions[c.run] /\ to = "cancelled"
  <2> DEFINE phase == Moved(PhaseTransitions, c.phase, to)
             task == Moved(TaskTransitions, c.task, to)
  <2>1. w = [c EXCEPT !.run = to, !.boundary = boundary, !.phase = phase, !.task = task]
    BY <1>2 DEF Controlled
  <2>2. phase \in {c.phase, "cancelled"} /\ task \in {c.task, "cancelled"}
    BY <1>2, Moves DEF Checkpoint
  <2> HIDE DEF w, phase, task
  <2>3. phase \in PhaseStatus /\ task \in TaskStatus /\ to \in RunStatus
    BY <1>2, <2>2, Statuses DEF Checkpoint
  <2>4. /\ w \in Checkpoint /\ w.hash = c.hash /\ w.journal = c.journal
        /\ w.receipts = c.receipts /\ w.run = to /\ w.task = task
    BY <2>1, <2>3 DEF Checkpoint
  <2> QED BY <1>2, <2>2, <2>4 DEF Onward, w
<1>3. CASE to \in RunTransitions[c.run] /\ to # "cancelled"
  <2>1. w = [c EXCEPT !.run = to, !.boundary = boundary]
    BY <1>3 DEF Controlled
  <2> HIDE DEF w
  <2>2. /\ w \in Checkpoint /\ w.hash = c.hash /\ w.journal = c.journal
        /\ w.receipts = c.receipts /\ w.run = to /\ w.task = c.task
    BY <2>1, Statuses DEF Checkpoint
  <2> QED BY <1>3, <2>2 DEF Onward, w
<1> QED BY <1>1, <1>2, <1>3

LEMMA CommitControlStep ==
  ASSUME IInv, NEW h \in Handler, CommitControl(h)
  PROVE  IInv' /\ Step(store.value, store'.value)
<1> DEFINE c == store.value
<1>1. /\ c \in Checkpoint /\ Sound(c) /\ Leave(h) /\ UNCHANGED <<disk, written>>
      /\ job[h] \in Request \cup {NoRequest} /\ Unobserved(job[h])
  BY DEF CommitControl, IInv, TypeOK
<1>2. "paused" \in SafeBoundary /\ "cancelled" \in SafeBoundary
  BY DEF SafeBoundary
<1>3. CASE c.pending = NoOperation /\ Executed(h, job[h], Controlled(c, "paused", "paused"))
  <2> DEFINE w == Controlled(c, "paused", "paused")
  <2>1. ~Interrupted(c)
    BY <1>3 DEF Interrupted, NoOperation
  <2>2. /\ w \in Checkpoint /\ w.hash = c.hash /\ w.journal = c.journal
        /\ w.receipts = c.receipts /\ Onward(c, w)
        /\ w.run = "ready" => w.task = "pending"
        /\ w.task = "completed" => c.task = "completed"
        /\ w.run = "completed" => w.task = "completed" /\ w.phase = "completed"
    BY <1>1, <1>2, ControlledStatus
  <2> HIDE DEF w
  <2>3. Step(c, Executing(w, job[h])) /\ Accounts(c, Executing(w, job[h]))
    BY <1>1, <2>1, <2>2, PlainIsStep
  <2> QED BY <1>1, <1>3, <2>3, ExecutedCommits DEF w
<1>4. CASE job[h] \in Cancel /\ Executed(h, job[h], Controlled(c, "cancelled", "cancelled"))
  <2> DEFINE w == Controlled(c, "cancelled", "cancelled")
  <2>1. /\ w \in Checkpoint /\ w.hash = c.hash /\ w.journal = c.journal
        /\ w.receipts = c.receipts /\ Onward(c, w)
        /\ w.run = "ready" => w.task = "pending"
        /\ w.task = "completed" => c.task = "completed"
        /\ w.run = "completed" => w.task = "completed" /\ w.phase = "completed"
    BY <1>1, <1>2, ControlledStatus
  <2> HIDE DEF w
  <2>2. Step(c, Executing(w, job[h])) /\ Accounts(c, Executing(w, job[h]))
    BY <1>1, <1>4, <2>1, PlainIsStep
  <2> QED BY <1>1, <1>4, <2>2, ExecutedCommits DEF w
<1> QED BY <1>3, <1>4 DEF CommitControl

LEMMA ResumeRunStep ==
  ASSUME IInv, NEW h \in Handler, ResumeRun(h)
  PROVE  IInv' /\ Step(store.value, store'.value)
<1> DEFINE c == store.value
           u == Controlled(c, "running", "task_ready")
           w == [u EXCEPT !.controls = @ \cup {job[h]}]
<1>1. /\ c \in Checkpoint /\ Sound(c) /\ Leave(h) /\ UNCHANGED <<disk, written>>
      /\ c.pending = NoOperation /\ Executed(h, NoRequest, w) /\ Unobserved(NoRequest)
      /\ job[h] \in Resume
  BY DEF ResumeRun, IInv, TypeOK, Local
<1>2. "task_ready" \in SafeBoundary
  BY DEF SafeBoundary
<1>3. ~Interrupted(c)
  BY <1>1 DEF Interrupted, NoOperation
<1>4. /\ u \in Checkpoint /\ u.hash = c.hash /\ u.journal = c.journal
      /\ u.receipts = c.receipts /\ Onward(c, u)
      /\ u.run = "ready" => u.task = "pending"
      /\ u.task = "completed" => c.task = "completed"
      /\ u.run = "completed" => u.task = "completed" /\ u.phase = "completed"
  BY <1>1, <1>2, ControlledStatus
<1> HIDE DEF u
<1>5. u.controls \cup {job[h]} \in SUBSET Resume
  BY <1>1, <1>4 DEF Checkpoint
<1>6. /\ w \in Checkpoint /\ w.hash = u.hash /\ w.journal = u.journal /\ w.run = u.run
      /\ w.receipts = u.receipts /\ w.task = u.task /\ w.phase = u.phase
  BY <1>4, <1>5 DEF Checkpoint
<1> HIDE DEF w
<1>7. Onward(c, w)
  BY <1>4, <1>6 DEF Onward
<1>8. Step(c, Executing(w, NoRequest)) /\ Accounts(c, Executing(w, NoRequest))
  BY <1>1, <1>3, <1>4, <1>6, <1>7, PlainIsStep
<1> QED BY <1>1, <1>8, ExecutedCommits DEF w, u

LEMMA CommitGateStep ==
  ASSUME IInv, NEW h \in Handler, CommitGate(h)
  PROVE  IInv' /\ Step(store.value, store'.value)
<1> DEFINE c == store.value
           w == IF GateIsOpen(c)
                THEN [c EXCEPT !.run = "completed", !.phase = "completed",
                               !.boundary = "gate_committed"]
                ELSE c
<1>1. /\ c \in Checkpoint /\ Sound(c) /\ Leave(h) /\ UNCHANGED <<disk, written>>
      /\ job[h] \in Gate /\ Executed(h, job[h], w) /\ Unobserved(job[h])
  BY DEF CommitGate, IInv, TypeOK
<1>2. /\ w \in Checkpoint /\ w.hash = c.hash /\ w.journal = c.journal
      /\ w.receipts = c.receipts /\ Onward(c, w)
      /\ w.run = "ready" => w.task = "pending"
      /\ w.task = "completed" => c.task = "completed"
      /\ w.run = "completed" => w.task = "completed" /\ w.phase = "completed"
  <2>1. CASE GateIsOpen(c)
    <3>1. w = [c EXCEPT !.run = "completed", !.phase = "completed",
                        !.boundary = "gate_committed"]
      BY <2>1
    <3>2. c.run = "awaiting_user_gate" /\ c.task = "completed"
      BY <2>1 DEF GateIsOpen
    <3> HIDE DEF w
    <3>3. /\ w \in Checkpoint /\ w.hash = c.hash /\ w.journal = c.journal
          /\ w.receipts = c.receipts /\ w.run = "completed" /\ w.phase = "completed"
          /\ w.task = c.task
      BY <1>1, <3>1, Statuses DEF Checkpoint, SafeBoundary
    <3> QED BY <3>2, <3>3 DEF Onward
  <2>2. CASE ~GateIsOpen(c)
    <3>1. w = c
      BY <2>2
    <3> QED BY <1>1, <3>1, SameIsOnward DEF Sound
  <2> QED BY <2>1, <2>2
<1> HIDE DEF w
<1>3. Step(c, Executing(w, job[h])) /\ Accounts(c, Executing(w, job[h]))
  BY <1>1, <1>2, PlainIsStep DEF Request
<1> QED BY <1>1, <1>3, ExecutedCommits

\* What an action of the page concluded still holds when it is committed: the
\* checkpoint is the one the action loaded.
LEMMA CommitActionStep ==
  ASSUME IInv, NEW h \in Handler, CommitAction(h)
  PROVE  IInv' /\ Step(store.value, store'.value)
<1> DEFINE c == store.value
           r == job[h]
           out == output[h]
           w == [c EXCEPT !.run = out.value.run, !.phase = out.value.phase,
                          !.task = out.value.task, !.boundary = out.value.boundary,
                          !.hash = out.hash]
           v == Executing(w, r)
<1>1. /\ c \in Checkpoint /\ Sound(c) /\ Leave(h) /\ UNCHANGED <<disk, written>>
      /\ r \in Verify \cup Rollback /\ Executed(h, r, w) /\ Acting(h) /\ Local(h)
      /\ out.value \in Checkpoint /\ out.hash \in Content /\ c.journal \subseteq written
      /\ Observed(out.hash)
      /\ origin = "prepared" => Interrupted(c)
  BY DEF CommitAction, Acting, IInv, TypeOK, JournalIsTrue, Explained
<1>2. /\ copy[h].value = c /\ copy[h].revision = store.revision /\ Acted(h)
  BY <1>1 DEF Executed, Expected, Local, Loaded
<1>3. /\ c.task \in {"verifying", "repairing"} /\ c.journal # {}
      /\ \/ out.value.run = c.run
         \/ /\ out.value.run \in RunTransitions[c.run]
            /\ out.value.run \in {"awaiting_user_gate", "needs_user_action"}
      /\ out.value.task = "completed" => r \in Verify
  BY <1>2 DEF Acted
<1>4. /\ out.hash \in Patch => out.hash \in written
      /\ origin = "recorded" => disk = out.hash
  BY <1>1, <1>2 DEF Local, Acting, Observing, SeesWorkspace
<1>5. /\ w \in Checkpoint /\ w.run = out.value.run /\ w.task = out.value.task
      /\ w.hash = out.hash /\ w.journal = c.journal /\ w.receipts = c.receipts
  BY <1>1 DEF Checkpoint
<1>6. r \in Request /\ r # NoRequest
  BY <1>1, LabAssumption DEF Request
<1> HIDE DEF w, out
<1>7. /\ v \in Checkpoint /\ v.run = out.value.run /\ v.task = out.value.task
      /\ v.hash = out.hash /\ v.journal = c.journal /\ ~Interrupted(v)
      /\ v.receipts = c.receipts \cup {r}
  BY <1>5, <1>6, ExecutedValue
<1> HIDE DEF v, c, r
<1>8. ~Interrupted(c)
  BY <1>1, <1>3 DEF Sound
<1>9. Onward(c, v)
  BY <1>3, <1>7 DEF Onward
<1>10. Sound(v)
  <2>1. v.run # "completed" /\ v.run # "ready"
    BY <1>1, <1>3, <1>7 DEF Sound
  <2>2. v.task = "completed" => v.journal # {} /\ v.receipts \cap Verify # {}
    BY <1>3, <1>7
  <2> QED BY <1>7, <2>1, <2>2 DEF Sound
<1>11. Step(c, v)
  BY <1>1, <1>4, <1>7, <1>8, <1>9, <1>10 DEF Step
<1>12. Accounts(c, v)
  BY <1>1, <1>4, <1>7, <1>8, ObservedAccounts
<1> QED BY <1>1, <1>11, <1>12, ExecutedCommits DEF v, c, r

\* Recording a prepared patch that was written, by its executor or by an audit.
LEMMA RecordedIsStep ==
  ASSUME IInv, Interrupted(store.value), store.value.pending.after \in written,
         NEW v \in Checkpoint, ~Interrupted(v),
         v.run = store.value.run, v.task = "verifying",
         v.hash \in Patch => v.hash \in written,
         v.journal = store.value.journal \cup {store.value.pending.after},
         store.value.receipts \subseteq v.receipts
  PROVE  Step(store.value, v)
<1> DEFINE c == store.value
           patch == c.pending.after
<1>1. /\ c \in Checkpoint /\ Sound(c) /\ c.journal \subseteq written
      /\ c.task = "applying_patch"
  BY DEF IInv, TypeOK, JournalIsTrue, Sound
<1> HIDE DEF c
<1>2. v.journal = c.journal \cup {patch} /\ v.run = c.run
  BY DEF c
<1> HIDE DEF patch
<1>3. Onward(c, v)
  BY <1>1, <1>2 DEF Onward, c
<1>4. Sound(v)
  BY <1>1, <1>2 DEF Sound
<1>5. v.journal \subseteq written /\ patch \in v.journal
  BY <1>1, <1>2 DEF c, patch
<1> QED BY <1>3, <1>4, <1>5 DEF Step, c, patch

\* Where the last change of the workspace is the prepared patch itself, or is on
\* record, its executor or an audit that found it written records what is there.
LEMMA RecordedAccounts ==
  ASSUME IInv, NEW v, Observed(v.hash), origin = "recorded" => disk = v.hash,
         v.hash \in {store.value.pending.after, Mixed},
         v.hash = Mixed => disk = Mixed
  PROVE  Accounts(store.value, v)
<1>1. origin = "prepared" => disk = store.value.pending.after /\ disk \in Patch
  BY DEF IInv, Explained, Sound
<1>2. ~(Mixed \in Patch)
  BY Contents
<1>3. origin \in {"recorded", "prepared"} => disk = v.hash
  BY <1>1, <1>2
<1> QED BY <1>3, ObservedAccounts

LEMMA RecordedValue ==
  ASSUME NEW c \in Checkpoint, NEW hash \in Content, NEW patch \in Patch
  PROVE  LET w == Recorded(c, hash, patch)
         IN /\ w \in Checkpoint /\ w.run = c.run /\ w.task = "verifying" /\ w.hash = hash
            /\ w.journal = c.journal \cup {patch} /\ w.receipts = c.receipts
            /\ w.pending = c.pending
<1> DEFINE w == Recorded(c, hash, patch)
<1>1. w = [c EXCEPT !.task = "verifying", !.hash = hash,
                    !.journal = c.journal \cup {patch}, !.boundary = "patch_committed"]
  BY DEF Recorded, Checkpoint
<1>2. c.journal \cup {patch} \in SUBSET Patch
  BY DEF Checkpoint
<1> HIDE DEF w
<1>3. w \in Checkpoint
  BY <1>1, <1>2, Statuses DEF Checkpoint, SafeBoundary
<1>4. /\ w.run = c.run /\ w.task = "verifying" /\ w.hash = hash
      /\ w.journal = c.journal \cup {patch} /\ w.receipts = c.receipts
      /\ w.pending = c.pending
  BY <1>1 DEF Checkpoint
<1> QED BY <1>3, <1>4 DEF w

LEMMA ReportStep ==
  ASSUME IInv, NEW h \in Handler, Report(h)
  PROVE  IInv' /\ Step(store.value, store'.value)
<1> DEFINE c == store.value
           patch == copy[h].value.pending.after
           w == Recorded(c, output[h].hash, patch)
           v == Executing(w, NoRequest)
<1>1. /\ c \in Checkpoint /\ Sound(c) /\ Leave(h) /\ UNCHANGED <<disk, written>>
      /\ pc[h] = "report" /\ Executed(h, NoRequest, w) /\ Local(h)
      /\ output[h].hash \in Content /\ Observed(output[h].hash)
  BY DEF Report, IInv, TypeOK
<1>2. /\ copy[h].value = c /\ Interrupted(c) /\ patch \in written
      /\ output[h].hash \in {patch, Mixed}
      /\ output[h].hash \in Patch => output[h].hash \in written
      /\ output[h].hash = Mixed => disk = Mixed
      /\ origin = "recorded" => disk = output[h].hash
  BY <1>1 DEF Executed, Expected, Local, Loaded, Observing, SeesWorkspace
<1>3. patch \in Patch /\ patch = c.pending.after
  BY <1>1, <1>2 DEF Sound
<1> HIDE DEF patch
<1>4. /\ w \in Checkpoint /\ w.run = c.run /\ w.task = "verifying"
      /\ w.hash = output[h].hash
      /\ w.journal = c.journal \cup {patch} /\ w.receipts = c.receipts
  BY <1>1, <1>2, <1>3, RecordedValue
<1> HIDE DEF w
<1>5. /\ v \in Checkpoint /\ ~Interrupted(v) /\ v.run = c.run /\ v.task = "verifying"
      /\ v.hash = output[h].hash /\ v.journal = c.journal \cup {patch}
      /\ c.receipts \subseteq v.receipts
  BY <1>4, ExecutedValue
<1> HIDE DEF v
<1>6. Step(c, v)
  BY <1>2, <1>3, <1>5, RecordedIsStep
<1>7. Accounts(c, v)
  BY <1>1, <1>2, <1>3, <1>5, RecordedAccounts
<1> QED BY <1>1, <1>6, <1>7, ExecutedCommits DEF v

LEMMA CreateStep ==
  ASSUME IInv, NEW h \in Handler, Create(h)
  PROVE  IInv' /\ Step(store.value, store'.value)
<1> DEFINE c == store.value
           v == Created(output[h].hash)
<1>1. /\ pc[h] = "create" /\ Expected(h) /\ Committed(v) /\ Goto(h, "start")
      /\ Observed(output[h].hash) /\ Explained
      /\ copy' = [copy EXCEPT ![h].revision = store'.revision]
      /\ output' = [output EXCEPT ![h] = NoOutput]
      /\ UNCHANGED <<disk, written, job>> /\ TypeOK /\ Local(h) /\ Fresh
  BY DEF Create, IInv
<1>2. /\ output[h].hash \in Content /\ store.revision = 0
      /\ output[h].hash \in Patch => output[h].hash \in written
      /\ origin = "recorded" => disk = output[h].hash
  BY <1>1 DEF Expected, Local, Observing, SeesWorkspace, TypeOK
<1>3. c = Created(Original)
  BY <1>1, <1>2, Idle DEF Fresh
<1>4. /\ c.run = "ready" /\ c.task = "pending" /\ c.journal = {} /\ c.receipts = {}
      /\ c.pending = NoOperation
  BY <1>3, Idle, Contents
<1>5. /\ v \in Checkpoint /\ v.run = "ready" /\ v.task = "pending" /\ v.hash = output[h].hash
      /\ v.journal = {} /\ v.receipts = {} /\ v.pending = NoOperation /\ Sound(v)
  BY <1>2, Idle
<1> HIDE DEF v, c
<1>6. Step(c, v) /\ Accounts(c, v)
  <2>1. Step(c, v)
    BY <1>1, <1>2, <1>4, <1>5 DEF Step, Onward
  <2>2. origin # "prepared"
    BY <1>1, <1>4 DEF Explained, Interrupted, NoOperation, c
  <2> QED BY <1>1, <1>2, <1>5, <2>1, <2>2, ObservedAccounts
<1>7. /\ store' \in [revision : Nat, value : Checkpoint] /\ store'.value = v
      /\ store'.revision \in Nat /\ origin' \in Origin
      /\ Sound(store'.value) /\ JournalIsTrue' /\ Workspace' /\ Explained' /\ Fresh'
  BY <1>1, <1>6, CommitKeepsTheRecord DEF c
<1>8. /\ copy' \in [Handler -> [revision : Nat, value : Checkpoint]]
      /\ copy'[h].revision = store'.revision /\ copy'[h].value = copy[h].value
      /\ \A g \in Handler \ {h} : copy'[g] = copy[g]
  BY <1>1, <1>7 DEF TypeOK
<1>9. /\ pc'[h] = "start" /\ pc' \in [Handler -> Place]
      /\ \A g \in Handler \ {h} : pc'[g] = pc[g]
  BY <1>1 DEF Goto, TypeOK, Place
<1>10. /\ output'[h].hash = 0 /\ output' \in [Handler -> [value : Checkpoint, hash : Content]]
       /\ \A g \in Handler \ {h} : output'[g] = output[g]
  BY <1>1, Idle, Contents DEF TypeOK
<1>11. TypeOK'
  BY <1>1, <1>7, <1>8, <1>9, <1>10 DEF TypeOK
<1>12. Local(h)'
  <2>1. /\ copy[h].value.journal = {}
        /\ copy[h].value.hash \in Patch => copy[h].value.hash \in written
    BY <1>1, <1>4 DEF Local, c
  <2>2. ~(0 \in Patch) /\ 0 # Mixed
    BY Contents
  <2> QED BY <1>1, <1>7, <1>8, <1>9, <1>10, <2>1, <2>2 DEF Local, Acting, Observing
<1>13. ASSUME NEW g \in Handler PROVE Local(g)'
  <2>1. CASE g = h
    BY <1>12, <2>1
  <2>2. CASE g # h
    BY <1>1, <1>6, <1>8, <1>9, <1>10, <2>2, CommitKeepsOthers DEF c
  <2> QED BY <2>1, <2>2
<1> QED BY <1>6, <1>7, <1>11, <1>13 DEF IInv, c

\* A handler that has committed and goes on from its own commit.
LEMMA CommitAndGoOn ==
  ASSUME IInv, NEW h \in Handler, NEW v, Step(store.value, v), Accounts(store.value, v),
         Committed(v), UNCHANGED <<disk, written>>, Local(h)',
         pc' \in [Handler -> Place], job' \in [Handler -> Request \cup {NoRequest}],
         copy' \in [Handler -> [revision : Nat, value : Checkpoint]],
         output' \in [Handler -> [value : Checkpoint, hash : Content]],
         \A g \in Handler \ {h} : /\ pc'[g] = pc[g] /\ job'[g] = job[g]
                                 /\ copy'[g] = copy[g] /\ output'[g] = output[g]
  PROVE  IInv' /\ Step(store.value, store'.value)
<1>1. /\ store' \in [revision : Nat, value : Checkpoint] /\ store'.value = v
      /\ Sound(store'.value) /\ JournalIsTrue' /\ Workspace' /\ Explained' /\ Fresh'
      /\ origin' \in Origin
  BY CommitKeepsTheRecord
<1>2. TypeOK'
  BY <1>1 DEF IInv, TypeOK
<1>3. ASSUME NEW g \in Handler PROVE Local(g)'
  <2>1. CASE g = h
    BY <2>1
  <2>2. CASE g # h
    BY <2>2, CommitKeepsOthers
  <2> QED BY <2>1, <2>2
<1> QED BY <1>1, <1>2, <1>3 DEF IInv

LEMMA PreparedOperation ==
  ASSUME NEW c \in Checkpoint, CanPrepare(c)
  PROVE  LET op == OperationOf(c)
         IN /\ op \in Operation
            /\ op.kind = "applying_patch" => /\ c.task = "applying_patch" /\ op.before = c.hash
                                            /\ op.after = c.hash + 1 /\ op.after \in Patch
<1> DEFINE op == OperationOf(c)
<1>1. c.hash \in Content
  BY DEF Checkpoint
<1>2. CASE c.task = "applying_patch" /\ NextPatch(c) \in Patch
  <2>1. op = [kind |-> "applying_patch", before |-> c.hash, after |-> NextPatch(c)]
    BY <1>2 DEF OperationOf
  <2>2. NextPatch(c) \in Content
    BY <1>2, Contents
  <2> HIDE DEF op
  <2>3. op \in Operation /\ op.before = c.hash /\ op.after = NextPatch(c)
    BY <1>1, <2>1, <2>2 DEF Operation
  <2> QED BY <1>2, <2>3 DEF NextPatch, op
<1>3. CASE c.task = "verifying"
  <2>1. op = [kind |-> "verifying", before |-> c.hash, after |-> c.hash]
    BY <1>3 DEF OperationOf
  <2> QED BY <1>1, <2>1 DEF Operation
<1>4. CASE c.task = "repairing"
  <2>1. op = [kind |-> "repairing", before |-> c.hash, after |-> c.hash]
    BY <1>4 DEF OperationOf
  <2> QED BY <1>1, <2>1 DEF Operation
<1> QED BY <1>2, <1>3, <1>4 DEF CanPrepare

\* A handler that has just copied the store and is about to act on its pending
\* operation.
LEMMA CopiedLocal ==
  ASSUME IInv, NEW h \in Handler, UNCHANGED <<disk, written, output>>,
         store' \in [revision : Nat, value : Checkpoint],
         Sound(store'.value), store'.value.journal \subseteq written,
         store'.value.hash \in Patch => store'.value.hash \in written,
         pc'[h] = "apply", copy'[h] = store'
  PROVE  Local(h)'
<1>1. Local(h)
  BY DEF IInv
<1>2. ~Acting(h)' /\ ~Observing(h)'
  BY DEF Acting, Observing
<1>3. Loaded(h)' /\ copy'[h].revision <= store'.revision
  BY DEF Loaded
<1> QED BY <1>1, <1>2, <1>3 DEF Local

LEMMA PrepareStep ==
  ASSUME IInv, NEW h \in Handler, Prepare(h)
  PROVE  IInv' /\ (store' = store \/ Step(store.value, store'.value))
<1> DEFINE c == store.value
           op == OperationOf(c)
           v == [c EXCEPT !.pending = op]
<1>1. /\ TypeOK /\ c \in Checkpoint /\ Sound(c) /\ c.journal \subseteq written /\ CanPrepare(c)
      /\ copy' = [copy EXCEPT ![h] = store'] /\ Goto(h, "apply")
      /\ UNCHANGED <<disk, written, origin, job, output>>
      /\ c.hash \in Patch => c.hash \in written
      /\ origin = "prepared" => Interrupted(c)
  BY DEF Prepare, IInv, TypeOK, JournalIsTrue, Workspace, Explained, workspace
<1>2. /\ pc'[h] = "apply" /\ pc' \in [Handler -> Place]
      /\ \A g \in Handler \ {h} : pc'[g] = pc[g]
  BY <1>1 DEF Goto, TypeOK, Place
<1>3. /\ copy'[h] = store' /\ \A g \in Handler \ {h} : copy'[g] = copy[g]
      /\ store' \in [revision : Nat, value : Checkpoint]
           => copy' \in [Handler -> [revision : Nat, value : Checkpoint]]
  BY <1>1 DEF TypeOK
<1>4. CASE UNCHANGED store
  <2>1. store' \in [revision : Nat, value : Checkpoint]
    BY <1>1, <1>4 DEF TypeOK
  <2>2. TypeOK'
    BY <1>1, <1>2, <1>3, <1>4, <2>1 DEF TypeOK
  <2>3. Local(h)'
    BY <1>1, <1>2, <1>3, <1>4, <2>1, CopiedLocal
  <2> QED BY <1>1, <1>2, <1>3, <1>4, <2>2, <2>3, GoesOn DEF workspace
<1>5. CASE c.pending = NoOperation /\ Committed(v)
  <2>1. /\ op \in Operation
        /\ op.kind = "applying_patch" => /\ c.task = "applying_patch" /\ op.before = c.hash
                                        /\ op.after = c.hash + 1 /\ op.after \in Patch
    BY <1>1, PreparedOperation
  <2> HIDE DEF op
  <2>2. /\ v \in Checkpoint /\ v.run = c.run /\ v.phase = c.phase /\ v.task = c.task
        /\ v.hash = c.hash /\ v.journal = c.journal /\ v.receipts = c.receipts /\ v.pending = op
    BY <1>1, <2>1 DEF Checkpoint
  <2>3. ~Interrupted(c)
    BY <1>5 DEF Interrupted, NoOperation
  <2> HIDE DEF v, c
  <2>4. Onward(c, v)
    BY <2>2 DEF Onward
  <2>5. Sound(v)
    <3>1. Interrupted(v) => /\ v.task = "applying_patch"
                            /\ v.pending.before = v.hash /\ v.pending.after = v.hash + 1
                            /\ v.pending.after \in Patch
      BY <2>1, <2>2 DEF Interrupted
    <3> QED BY <1>1, <2>2, <3>1 DEF Sound
  <2>6. Step(c, v) /\ Accounts(c, v)
    BY <1>1, <2>2, <2>3, <2>4, <2>5 DEF Step, Accounts
  <2>7. store' \in [revision : Nat, value : Checkpoint] /\ store'.value = v
    BY <1>1, <1>5, <2>6, CommitKeepsTheRecord DEF c
  <2>8. Local(h)'
    BY <1>1, <1>2, <1>3, <2>2, <2>5, <2>7, CopiedLocal
  <2>9. copy' \in [Handler -> [revision : Nat, value : Checkpoint]]
    BY <1>3, <2>7
  <2>10. /\ job' \in [Handler -> Request \cup {NoRequest}]
         /\ output' \in [Handler -> [value : Checkpoint, hash : Content]]
         /\ \A g \in Handler \ {h} : /\ pc'[g] = pc[g] /\ job'[g] = job[g]
                                     /\ copy'[g] = copy[g] /\ output'[g] = output[g]
    BY <1>1, <1>2, <1>3 DEF TypeOK
  <2> QED BY <1>1, <1>2, <1>5, <2>6, <2>8, <2>9, <2>10, CommitAndGoOn DEF c
<1> QED BY <1>4, <1>5, <1>1 DEF Prepare

LEMMA AuditedValue ==
  ASSUME NEW c \in Checkpoint, NEW disposition \in Disposition, NEW drift \in BOOLEAN
  PROVE  LET w == Audited(c, disposition, drift)
         IN /\ w \in Checkpoint /\ w.run = c.run /\ w.phase = c.phase /\ w.task = c.task
            /\ w.hash = c.hash /\ w.journal = c.journal /\ w.receipts = c.receipts
            /\ w.pending = c.pending
<1> DEFINE boundary == IF disposition \in {"blocked", "manual_review"}
                       THEN "recovery_required" ELSE c.boundary
           w == Audited(c, disposition, drift)
<1>1. w = [c EXCEPT !.audit = disposition, !.drift = drift, !.boundary = boundary]
  BY DEF Audited, Checkpoint
<1>2. boundary \in SafeBoundary
  BY DEF Checkpoint, SafeBoundary
<1> HIDE DEF boundary, w
<1>3. /\ w \in Checkpoint /\ w.run = c.run /\ w.phase = c.phase /\ w.task = c.task
      /\ w.hash = c.hash /\ w.journal = c.journal /\ w.receipts = c.receipts
      /\ w.pending = c.pending
  BY <1>1, <1>2 DEF Checkpoint
<1> QED BY <1>3 DEF w

\* An audit either records the interrupted patch it found written, or leaves
\* the run, the workspace hash, the journal and the pending operation alone.
LEMMA RecoveredValue ==
  ASSUME NEW c \in Checkpoint, Sound(c), NEW actual \in Content, NEW matches \in BOOLEAN
  PROVE  LET w == Recovered(c, actual, matches)
         IN /\ w \in Checkpoint /\ w.run = c.run /\ w.receipts = c.receipts
            /\ \/ /\ w.task = c.task /\ w.phase = c.phase /\ w.hash = c.hash
                  /\ w.journal = c.journal /\ w.pending = c.pending
               \/ /\ Interrupted(c) /\ actual = c.pending.after
                  /\ w.task = "verifying" /\ w.hash = actual
                  /\ w.journal = c.journal \cup {actual} /\ w.pending = NoOperation
<1> DEFINE w == Recovered(c, actual, matches)
           finalized == [Recorded(Audited(c, "finalize_patch", FALSE), actual, c.pending.after)
                         EXCEPT !.pending = NoOperation]
<1>1. CASE \E d \in Disposition, drift \in BOOLEAN : w = Audited(c, d, drift)
  BY <1>1, AuditedValue
<1>2. CASE w = finalized /\ Interrupted(c) /\ FoundWritten(c, actual)
  <2>1. c.pending.after \in Patch /\ actual = c.pending.after
    BY <1>2 DEF Sound, FoundWritten
  <2>2. "finalize_patch" \in Disposition
    BY DEF Disposition
  <2> DEFINE a == Audited(c, "finalize_patch", FALSE)
             b == Recorded(a, actual, c.pending.after)
  <2>3. a \in Checkpoint /\ a.run = c.run /\ a.journal = c.journal /\ a.receipts = c.receipts
    BY <2>2, AuditedValue
  <2> HIDE DEF a
  <2>4. /\ b \in Checkpoint /\ b.run = a.run /\ b.task = "verifying" /\ b.hash = actual
        /\ b.journal = a.journal \cup {c.pending.after} /\ b.receipts = a.receipts
    BY <2>1, <2>3, RecordedValue
  <2> HIDE DEF b
  <2>5. NoOperation \in Operation
    BY Contents DEF NoOperation, Operation
  <2>6. w = [b EXCEPT !.pending = NoOperation]
    BY <1>2 DEF a, b
  <2> HIDE DEF w
  <2>7. /\ w \in Checkpoint /\ w.run = b.run /\ w.task = b.task /\ w.hash = b.hash
        /\ w.journal = b.journal /\ w.receipts = b.receipts /\ w.pending = NoOperation
    BY <2>4, <2>5, <2>6 DEF Checkpoint
  <2> QED BY <1>2, <2>1, <2>3, <2>4, <2>7 DEF w
<1>3. \/ \E d \in Disposition, drift \in BOOLEAN : w = Audited(c, d, drift)
      \/ w = finalized /\ Interrupted(c) /\ FoundWritten(c, actual)
  <2>1. CASE ~matches
    <3>1. w = Audited(c, "blocked", FALSE)
      BY <2>1 DEF Recovered
    <3> QED BY <3>1 DEF Disposition
  <2>2. CASE matches /\ c.pending.kind = "applying_patch"
    <3>1. w = RecoverPatch(c, actual)
      BY <2>2 DEF Recovered
    <3>2. \/ w = Audited(c, "resume", FALSE) \/ w = Audited(c, "manual_review", FALSE)
          \/ w = finalized /\ FoundWritten(c, actual)
      BY <3>1 DEF RecoverPatch
    <3> HIDE DEF w, finalized
    <3> QED BY <2>2, <3>2 DEF Disposition, Interrupted
  <2>3. CASE matches /\ c.pending.kind # "applying_patch" /\ actual # c.hash
    <3>1. w = Audited(c, "blocked", TRUE)
      BY <2>3 DEF Recovered
    <3> QED BY <3>1 DEF Disposition
  <2>4. CASE matches /\ c.pending.kind # "applying_patch" /\ actual = c.hash
    <3> DEFINE d == IF c.pending.kind = "verifying" THEN "resume_verification"
                    ELSE IF \/ c.pending.kind = "repairing"
                            \/ c.task \in {"applying_patch", "repairing"}
                    THEN "manual_review"
                    ELSE IF c.task = "verifying" THEN "resume_verification"
                    ELSE "resume"
    <3>1. w = Audited(c, d, FALSE)
      BY <2>4 DEF Recovered
    <3>2. d \in Disposition
      BY DEF Disposition
    <3> HIDE DEF d
    <3> QED BY <3>1, <3>2
  <2> QED BY <2>1, <2>2, <2>3, <2>4
<1> QED BY <1>1, <1>2, <1>3

LEMMA RecoveredIsStep ==
  ASSUME IInv, NEW h \in Handler, pc[h] = "commit", job[h] \in Resume,
         NEW matches \in BOOLEAN
  PROVE  LET v == [Recovered(store.value, output[h].hash, matches)
                   EXCEPT !.receipts = @ \cup {job[h]}]
         IN /\ Step(store.value, v)
            /\ \/ v.pending = store.value.pending /\ v.hash = store.value.hash
               \/ /\ v.pending # store.value.pending
                  /\ v.hash = output[h].hash /\ v.hash = store.value.pending.after
                  /\ v.hash \in Patch
<1> DEFINE c == store.value
           actual == output[h].hash
           w == Recovered(c, actual, matches)
           v == [w EXCEPT !.receipts = @ \cup {job[h]}]
<1>1. /\ c \in Checkpoint /\ Sound(c) /\ c.journal \subseteq written
      /\ c.hash \in Patch => c.hash \in written
      /\ actual \in Content
      /\ actual \in Patch => actual \in written
      /\ job[h] \in Request
  BY DEF IInv, TypeOK, JournalIsTrue, Workspace, Local, Request
<1> HIDE DEF actual
<1>2. /\ w \in Checkpoint /\ w.run = c.run /\ w.receipts = c.receipts
      /\ \/ /\ w.task = c.task /\ w.phase = c.phase /\ w.hash = c.hash
            /\ w.journal = c.journal /\ w.pending = c.pending
         \/ /\ Interrupted(c) /\ actual = c.pending.after
            /\ w.task = "verifying" /\ w.hash = actual
            /\ w.journal = c.journal \cup {actual} /\ w.pending = NoOperation
  BY <1>1, RecoveredValue
<1> HIDE DEF w, c
<1>3. w.receipts \cup {job[h]} \in SUBSET Request
  BY <1>1, <1>2 DEF Checkpoint
<1>4. /\ v \in Checkpoint /\ v.run = c.run /\ v.receipts = c.receipts \cup {job[h]}
      /\ v.task = w.task /\ v.phase = w.phase /\ v.hash = w.hash
      /\ v.journal = w.journal /\ v.pending = w.pending
  BY <1>2, <1>3 DEF Checkpoint
<1> HIDE DEF v
<1>5. CASE /\ v.task = c.task /\ v.phase = c.phase /\ v.hash = c.hash
           /\ v.journal = c.journal /\ v.pending = c.pending
  <2>1. Onward(c, v)
    BY <1>4, <1>5 DEF Onward
  <2>2. Sound(v)
    <3>1. Interrupted(v) => /\ v.task = "applying_patch"
                            /\ v.pending.before = v.hash /\ v.pending.after = v.hash + 1
                            /\ v.pending.after \in Patch
      BY <1>1, <1>5 DEF Sound, Interrupted
    <3>2. /\ v.run = "ready" => v.task = "pending"
          /\ v.task = "completed" => v.journal # {} /\ v.receipts \cap Verify # {}
          /\ v.run = "completed" => v.task = "completed" /\ v.phase = "completed"
      BY <1>1, <1>4, <1>5 DEF Sound
    <3> QED BY <3>1, <3>2 DEF Sound
  <2>3. Step(c, v)
    BY <1>1, <1>4, <1>5, <2>1, <2>2 DEF Step
  <2> QED BY <1>5, <2>3 DEF v, w, c, actual
<1>6. CASE /\ Interrupted(c) /\ actual = c.pending.after
           /\ v.task = "verifying" /\ v.hash = actual
           /\ v.journal = c.journal \cup {actual} /\ v.pending = NoOperation
  <2>1. actual \in written
    BY <1>1, <1>6 DEF Sound
  <2>2. ~Interrupted(v)
    BY <1>6 DEF Interrupted, NoOperation
  <2>3. Step(c, v)
    BY <1>1, <1>4, <1>6, <2>1, <2>2, RecordedIsStep DEF c
  <2>4. v.pending # c.pending /\ v.hash = c.pending.after /\ v.hash \in Patch
    BY <1>1, <1>6 DEF Sound, Interrupted, NoOperation
  <2> QED BY <1>6, <2>3, <2>4 DEF v, w, c, actual
<1> QED BY <1>2, <1>4, <1>5, <1>6

\* A resume that was answered and goes on.
Resuming(h, checkpoint) ==
  /\ copy' = [copy EXCEPT ![h].revision = checkpoint.revision]
  /\ output' = [output EXCEPT ![h] = NoOutput]
  /\ Goto(h, "resume") /\ UNCHANGED job

LEMMA ResumingLocal ==
  ASSUME IInv, NEW h \in Handler, pc[h] = "commit", job[h] \in Resume, Resuming(h, store'),
         UNCHANGED <<disk, written>>, store' \in [revision : Nat, value : Checkpoint],
         store.value.journal \subseteq store'.value.journal
  PROVE  /\ pc' \in [Handler -> Place] /\ job' \in [Handler -> Request \cup {NoRequest}]
         /\ copy' \in [Handler -> [revision : Nat, value : Checkpoint]]
         /\ output' \in [Handler -> [value : Checkpoint, hash : Content]]
         /\ \A g \in Handler \ {h} : /\ pc'[g] = pc[g] /\ job'[g] = job[g]
                                    /\ copy'[g] = copy[g] /\ output'[g] = output[g]
         /\ Local(h)'
<1>1. /\ copy' = [copy EXCEPT ![h].revision = store'.revision]
      /\ output' = [output EXCEPT ![h] = NoOutput]
      /\ Goto(h, "resume") /\ UNCHANGED job /\ TypeOK /\ Local(h)
  BY DEF Resuming, IInv
<1>2. /\ copy' \in [Handler -> [revision : Nat, value : Checkpoint]]
      /\ copy'[h].revision = store'.revision /\ copy'[h].value = copy[h].value
      /\ \A g \in Handler \ {h} : copy'[g] = copy[g]
  BY <1>1 DEF TypeOK
<1>3. /\ pc'[h] = "resume" /\ pc' \in [Handler -> Place]
      /\ \A g \in Handler \ {h} : pc'[g] = pc[g]
  BY <1>1 DEF Goto, TypeOK, Place
<1>4. /\ output'[h].hash = 0 /\ output' \in [Handler -> [value : Checkpoint, hash : Content]]
      /\ \A g \in Handler \ {h} : output'[g] = output[g]
  BY <1>1, Idle, Contents DEF TypeOK
<1>5. job' \in [Handler -> Request \cup {NoRequest}]
  BY <1>1 DEF TypeOK
<1>6. Local(h)'
  <2>1. ~(0 \in Patch) /\ 0 # Mixed
    BY Contents
  <2>2. /\ copy'[h].value.journal \subseteq written' \cap store'.value.journal
        /\ copy'[h].value.hash \in Patch => copy'[h].value.hash \in written'
    BY <1>1, <1>2 DEF Local
  <2> QED BY <1>1, <1>2, <1>3, <1>4, <2>1, <2>2 DEF Local, Acting, Observing
<1> QED BY <1>1, <1>2, <1>3, <1>4, <1>5, <1>6

LEMMA CommitRecoveryStep ==
  ASSUME IInv, NEW h \in Handler, CommitRecovery(h)
  PROVE  IInv' /\ Step(store.value, store'.value)
<1>1. /\ pc[h] = "commit" /\ job[h] \in Resume /\ UNCHANGED <<disk, written>>
      /\ ~Refused(h) /\ Local(h)
      /\ IF store'.value.pending = store.value.pending THEN UNCHANGED origin
         ELSE Observed(output[h].hash)
      /\ Leave(h) \/ Resuming(h, store')
  BY DEF CommitRecovery, Answered, Resuming, IInv
<1>2. PICK matches \in BOOLEAN :
        Committed([Recovered(store.value, output[h].hash, matches)
                   EXCEPT !.receipts = @ \cup {job[h]}])
  BY DEF CommitRecovery
<1> DEFINE v == [Recovered(store.value, output[h].hash, matches)
                 EXCEPT !.receipts = @ \cup {job[h]}]
<1>3. /\ Step(store.value, v) /\ Committed(v)
      /\ \/ v.pending = store.value.pending /\ v.hash = store.value.hash
         \/ /\ v.pending # store.value.pending
            /\ v.hash = output[h].hash /\ v.hash = store.value.pending.after
            /\ v.hash \in Patch
  BY <1>1, <1>2, RecoveredIsStep
<1> HIDE DEF v
<1>4. store'.value = v
  BY <1>3 DEF Committed
<1>5. Accounts(store.value, v)
  <2>1. CASE v.pending = store.value.pending /\ v.hash = store.value.hash
    <3>1. origin' = origin
      BY <1>1, <1>4, <2>1
    <3> QED BY <2>1, <3>1 DEF Accounts
  <2>2. CASE /\ v.pending # store.value.pending
             /\ v.hash = output[h].hash /\ v.hash = store.value.pending.after
             /\ v.hash \in Patch
    <3>1. Observed(v.hash)
      BY <1>1, <1>4, <2>2
    <3>2. origin = "recorded" => disk = v.hash
      BY <1>1, <2>2 DEF Local, Observing, SeesWorkspace, Refused, Expected
    <3>3. v.hash # Mixed
      BY <2>2, Contents
    <3> QED BY <2>2, <3>1, <3>2, <3>3, RecordedAccounts
  <2> QED BY <1>3, <2>1, <2>2
<1>6. CASE Leave(h)
  BY <1>1, <1>3, <1>5, <1>6, CommitAndLeave
<1>7. CASE Resuming(h, store')
  <2>1. /\ store' \in [revision : Nat, value : Checkpoint]
        /\ store'.revision = store.revision + 1
        /\ store.value.journal \subseteq store'.value.journal
    BY <1>1, <1>3, <1>5, CommitKeepsTheRecord DEF Step, Onward
  <2>2. /\ pc' \in [Handler -> Place] /\ job' \in [Handler -> Request \cup {NoRequest}]
        /\ copy' \in [Handler -> [revision : Nat, value : Checkpoint]]
        /\ output' \in [Handler -> [value : Checkpoint, hash : Content]]
        /\ \A g \in Handler \ {h} : /\ pc'[g] = pc[g] /\ job'[g] = job[g]
                                   /\ copy'[g] = copy[g] /\ output'[g] = output[g]
        /\ Local(h)'
    BY <1>1, <1>7, <2>1, ResumingLocal
  <2> QED BY <1>1, <1>3, <1>5, <2>2, CommitAndGoOn
<1> QED BY <1>1, <1>6, <1>7

LEMMA ReplayRecoveryStep ==
  ASSUME IInv, NEW h \in Handler, ReplayRecovery(h) PROVE IInv' /\ store' = store
<1>1. /\ pc[h] = "commit" /\ job[h] \in Resume /\ UNCHANGED <<store, disk, written, origin>>
      /\ TypeOK
      /\ Leave(h) \/ Resuming(h, store)
  BY DEF ReplayRecovery, Answered, Resuming, IInv, workspace
<1>2. CASE Leave(h)
  BY <1>1, <1>2, DropKeeps DEF Drop, workspace
<1>3. CASE Resuming(h, store)
  <2>1. store' \in [revision : Nat, value : Checkpoint]
    BY <1>1 DEF TypeOK
  <2>2. Resuming(h, store')
    BY <1>1, <1>3
  <2>3. /\ pc' \in [Handler -> Place] /\ job' \in [Handler -> Request \cup {NoRequest}]
        /\ copy' \in [Handler -> [revision : Nat, value : Checkpoint]]
        /\ output' \in [Handler -> [value : Checkpoint, hash : Content]]
        /\ \A g \in Handler \ {h} : /\ pc'[g] = pc[g] /\ job'[g] = job[g]
                                   /\ copy'[g] = copy[g] /\ output'[g] = output[g]
        /\ Local(h)'
    BY <1>1, <2>1, <2>2, ResumingLocal
  <2>4. TypeOK'
    BY <1>1, <2>3 DEF TypeOK
  <2> QED BY <1>1, <2>3, <2>4, GoesOn DEF workspace
<1> QED BY <1>1, <1>2, <1>3

-----------------------------------------------------------------------------
\* Every step keeps the invariant and leaves the store or moves it onward.
LEMMA NextKeeps ==
  ASSUME IInv, [Next]_vars
  PROVE  IInv' /\ (store' = store \/ Onward(store.value, store'.value))
<1> DEFINE Kept == IInv' /\ (store' = store \/ Onward(store.value, store'.value))
<1>1. CASE Edit
  BY <1>1, EditStep
<1>2. ASSUME NEW h \in Handler,
             \/ Bootstrap(h) \/ Create(h) \/ StartDevelopmentRun(h)
             \/ TakeWork(h) \/ Work(h) \/ Prepare(h) \/ ApplyPatch(h)
             \/ Report(h) \/ ReportOther(h)
             \/ \E r \in Request : Serve(h, r)
             \/ Load(h) \/ ActVerify(h) \/ ActRollback(h) \/ ActThrows(h)
             \/ CommitAction(h) \/ CommitControl(h) \/ CommitGate(h)
             \/ CommitRecovery(h) \/ ReplayRecovery(h) \/ ResumeRun(h)
             \/ CommitRefused(h) \/ Crash(h)
      PROVE  Kept
  <2>1. CASE Bootstrap(h)
    BY <2>1, BootstrapStep
  <2>2. CASE Create(h)
    BY <2>2, CreateStep DEF Step
  <2>3. CASE StartDevelopmentRun(h)
    BY <2>3, StartStep DEF Step
  <2>4. CASE TakeWork(h)
    BY <2>4, TakeWorkStep
  <2>5. CASE Work(h)
    BY <2>5, WorkStep DEF Step
  <2>6. CASE Prepare(h)
    BY <2>6, PrepareStep DEF Step
  <2>7. CASE ApplyPatch(h)
    BY <2>7, ApplyPatchStep
  <2>8. CASE Report(h)
    BY <2>8, ReportStep DEF Step
  <2>9. CASE ReportOther(h)
    BY <2>9, ReportOtherStep DEF Step
  <2>10. CASE \E r \in Request : Serve(h, r)
    BY <2>10, ServeStep
  <2>11. CASE Load(h)
    BY <2>11, LoadStep
  <2>12. CASE ActVerify(h)
    BY <2>12, ActVerifyStep
  <2>13. CASE ActRollback(h)
    BY <2>13, ActRollbackStep
  <2>14. CASE ActThrows(h) \/ CommitRefused(h) \/ Crash(h)
    BY <2>14, LeavingSteps
  <2>15. CASE CommitAction(h)
    BY <2>15, CommitActionStep DEF Step
  <2>16. CASE CommitControl(h)
    BY <2>16, CommitControlStep DEF Step
  <2>17. CASE CommitGate(h)
    BY <2>17, CommitGateStep DEF Step
  <2>18. CASE CommitRecovery(h)
    BY <2>18, CommitRecoveryStep DEF Step
  <2>19. CASE ResumeRun(h)
    BY <2>19, ResumeRunStep DEF Step
  <2>20. CASE ReplayRecovery(h)
    BY <2>20, ReplayRecoveryStep
  <2> HIDE DEF Kept
  <2> QED BY <1>2, <2>1, <2>2, <2>3, <2>4, <2>5, <2>6, <2>7, <2>8, <2>9, <2>10, <2>11,
             <2>12, <2>13, <2>14, <2>15, <2>16, <2>17, <2>18, <2>19, <2>20
<1>3. CASE UNCHANGED vars
  <2>1. UNCHANGED <<store, disk, written, origin, pc, job, copy, output>>
    BY <1>3 DEF vars, workspace
  <2>2. TypeOK' /\ Sound(store'.value) /\ JournalIsTrue' /\ Workspace' /\ Explained' /\ Fresh'
    BY <2>1 DEF IInv, TypeOK, JournalIsTrue, Workspace, Explained, Fresh
  <2>3. ASSUME NEW g \in Handler PROVE Local(g)'
    BY <2>1, OthersStand
  <2> QED BY <2>1, <2>2, <2>3 DEF IInv
<1> HIDE DEF Kept
<1>4. Kept
  BY <1>1, <1>2, <1>3 DEF Next, Kept
<1> QED BY <1>4 DEF Kept

LEMMA Invariance == Spec => []IInv
<1>1. IInv /\ [Next]_vars => IInv'
  BY NextKeeps
<1> QED BY InitIsSound, <1>1, PTL DEF Spec

-----------------------------------------------------------------------------
\* Every value a handler, the store or the workspace holds is one the program
\* can write, whatever its interleavings, crashes and recoveries.
THEOREM TypeCorrect == Spec => []TypeOK
<1>1. IInv => TypeOK
  BY DEF IInv
<1> QED BY <1>1, Invariance, PTL

\* No recovery, retry or second executor records a patch that was not written
\* to the workspace completely.
THEOREM JournalTellsTheTruth == Spec => []JournalIsTrue
<1>1. IInv => JournalIsTrue
  BY DEF IInv
<1> QED BY <1>1, Invariance, PTL

\* A run is completed only with its task completed by a recorded verification
\* of a recorded patch, and its phase by the gate.
THEOREM CompletionIsEarned == Spec => []CompletionIsOnRecord
<1>1. IInv => CompletionIsOnRecord
  BY DEF IInv, Sound, CompletionIsOnRecord
<1> QED BY <1>1, Invariance, PTL

\* Wherever the workspace is not the one the checkpoint names, the change that
\* made it so is known and is one of the five the service allows; no commit
\* records an observation that another step has overtaken.
THEOREM DriftIsAccountedFor == Spec => []DriftIsExplained
<1>1. ASSUME IInv PROVE DriftIsExplained
  <2> DEFINE c == store.value
  <2>1. Explained /\ origin \in Origin
    BY <1>1 DEF IInv, TypeOK
  <2>2. SUFFICES ASSUME disk # c.hash PROVE
          \/ origin = "prepared" /\ c.pending.kind = "applying_patch" /\ disk = c.pending.after
          \/ origin = "foreign" /\ disk = Mixed
          \/ /\ origin = "unprepared"
             /\ disk \in c.journal \/ c.receipts \cap (Gate \cup Cancel) # {}
          \/ origin = "dropped" /\ c.receipts \cap (Gate \cup Cancel) # {}
          \/ origin = "reverted" /\ disk + 1 \in c.journal
    BY DEF DriftIsExplained
  <2> QED BY <2>1, <2>2 DEF Explained, Interrupted, Steady, Origin
<1> QED BY <1>1, Invariance, PTL

\* No command, action or recovery takes back what another committed.
THEOREM CommitsAreKept == Spec => NothingIsUndone
<1> DEFINE Kept == Onward(store.value, store'.value)
<1>1. IInv /\ [Next]_vars => [Kept]_store
  BY NextKeeps
<1> QED BY <1>1, Invariance, PTL DEF Spec, NothingIsUndone, Onward

==============================================================================
