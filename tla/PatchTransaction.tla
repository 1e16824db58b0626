-------------------------- MODULE PatchTransaction --------------------------
(***************************************************************************)
(* PatchTransactionManager: a proposal is applied to several files or to   *)
(* none.  A call reads every file first (preflight), then changes them one *)
(* after the other, each change a comparison and a write.  When a change   *)
(* fails, apply undoes the earlier ones in reverse order; a user's rollback*)
(* of an applied patch is the same walk, after a preflight of its own.     *)
(*                                                                         *)
(* The manager is synchronous, so its calls do not overlap; but the user   *)
(* edits the same files in an editor, between any two accesses, the file   *)
(* system may refuse or cut short a write, and the process may die.        *)
(*                                                                         *)
(* A call that is refused before it reads the first file (a replayed key,  *)
(* another task's lease, a proposal that fails validation, a missing       *)
(* confirmation) changes nothing but the answer: it is a stuttering step,  *)
(* and Patch holds the proposals that pass validation.  A file is          *)
(* abstracted to its content, which the code compares by hash.             *)
(***************************************************************************)
EXTENDS Naturals, Sequences

CONSTANTS
  File, Content,
  Absent,      \* the state of a file that does not exist
  Torn,        \* the content left by a write that was cut short
  Task,
  Patch,       \* validated proposals, each with its idempotency key
  TaskOf,      \* the task run of each
  Changes,     \* its operations: path, before (Absent: create), after (Absent: delete)
  NoOne,
  MaxEdits, MaxCrashes   \* bounds on the environment

Proposed == Content \cup {Absent}
FileState == Proposed \cup {Torn}
Change == [path : File, before : Proposed, after : Proposed]

(* changeProposalSchema demands an operation, apply demands distinct paths. *)
ASSUME PatchAssumption ==
  /\ Absent \notin Content /\ Torn \notin Proposed
  /\ NoOne \notin Task /\ TaskOf \in [Patch -> Task]
  /\ Changes \in [Patch -> Seq(Change) \ {<<>>}]
  /\ \A p \in Patch : \A i, j \in DOMAIN Changes[p] :
       Changes[p][i].path = Changes[p][j].path => i = j
  /\ MaxEdits \in Nat /\ MaxCrashes \in Nat

VARIABLES
  files,      \* the workspace
  lease,      \* #leaseOwner
  completed,  \* the patches whose keys are in #completed
  journal,    \* the patches with an applied journal entry, which the callers keep
  call,       \* the running call, or the last one with its outcome
  touched,    \* the files the user has edited since the call began
  raced,      \* the user edited the current file after it was compared
  edits, crashes

history == <<touched, raced, edits, crashes>>
vars == <<files, lease, completed, journal, call, history>>

Running == {"reading", "comparing", "writing"}
Outcome == {"idle", "done", "conflict", "undone", "undo_failed", "failed", "crashed"}

(* kind "undo" is the compensation of a failed apply; held tells whether the*)
(* task had reserved the lease before; clean, whether every undo succeeded. *)
Call == [kind : {"apply", "undo", "rollback"}, patch : Patch, at : Nat \ {0},
         stage : Running \cup Outcome, held : BOOLEAN, clean : BOOLEAN]

TypeOK ==
  /\ files \in [File -> FileState]
  /\ lease \in Task \cup {NoOne}
  /\ journal \subseteq Patch /\ completed \subseteq journal
  /\ call \in Call /\ call.at <= Len(Changes[call.patch])
  /\ touched \subseteq File /\ raced \in BOOLEAN
  /\ edits \in Nat /\ crashes \in Nat

Begun(kind, p) ==
  [kind |-> kind, patch |-> p,
   at |-> IF kind = "apply" THEN 1 ELSE Len(Changes[p]),
   stage |-> "reading", held |-> FALSE, clean |-> TRUE]

Init ==
  /\ files \in [File -> Proposed]
  /\ lease = NoOne
  /\ completed = {} /\ journal = {}
  /\ call \in {[Begun("apply", p) EXCEPT !.stage = "idle"] : p \in Patch}
  /\ touched = {} /\ raced = FALSE /\ edits = 0 /\ crashes = 0

-----------------------------------------------------------------------------
(* Apply walks the changes forward, an undo and a rollback walk them back.  *)
Forward(c) == c.kind = "apply"
Current(c) == Changes[c.patch][c.at]
Expected(c) == IF Forward(c) THEN Current(c).before ELSE Current(c).after
Replacement(c) == IF Forward(c) THEN Current(c).after ELSE Current(c).before
Onward(c) == [c EXCEPT !.at = IF Forward(c) THEN @ + 1 ELSE @ - 1]

(* A slip: the last change of a patch is left out.                          *)
IsLastButOne(c) == Forward(c) /\ c.at + 1 >= Len(Changes[c.patch])

IsLast(c) == c.at = IF Forward(c) THEN Len(Changes[c.patch]) ELSE 1

Advanced(c) ==
  IF ~IsLast(c) THEN [Onward(c) EXCEPT !.stage = "comparing"]
  ELSE [c EXCEPT !.stage = IF c.clean THEN IF c.kind = "undo" THEN "undone" ELSE "done"
                           ELSE "undo_failed"]

(* A slip: the most recent change is forgotten by the compensation.         *)
UndoEarlierOnly(c) ==
  IF c.at <= 2 THEN [c EXCEPT !.kind = "undo", !.stage = "undone"]
  ELSE [c EXCEPT !.kind = "undo", !.at = @ - 2, !.stage = "comparing"]

UndoApplied(c) ==
  IF c.at = 1 THEN [c EXCEPT !.kind = "undo", !.stage = "undone"]
  ELSE [c EXCEPT !.kind = "undo", !.at = @ - 1, !.stage = "comparing"]

(* What a change that was denied or threw leads to.                         *)
Failed(c) ==
  CASE c.kind = "apply" -> UndoApplied(c)
    [] c.kind = "undo" -> Advanced([c EXCEPT !.clean = FALSE])
    [] c.kind = "rollback" -> [c EXCEPT !.stage = "failed"]

(* The call goes on as c, or ends: a lease it took itself is given back and *)
(* a patch that went through is remembered.                                 *)
Proceed(c) ==
  LET applied == IF c.stage = "done" /\ c.kind = "apply" THEN {c.patch} ELSE {} IN
  /\ call' = c
  /\ lease' = IF c.stage \in Running \/ c.held THEN lease ELSE NoOne
  /\ completed' = completed \cup applied
  /\ journal' = journal \cup applied

-----------------------------------------------------------------------------
Reserve(t) ==
  /\ call.stage \notin Running
  /\ lease = NoOne
  /\ lease' = t
  /\ UNCHANGED <<files, completed, journal, call, history>>

Release(t) ==
  /\ call.stage \notin Running
  /\ lease = t
  /\ lease' = NoOne
  /\ UNCHANGED <<files, completed, journal, call, history>>

Begin(kind, p) ==
  /\ call.stage \notin Running
  /\ lease \in {NoOne, TaskOf[p]}
  /\ call' = Begun(kind, p)
  /\ touched' = {} /\ raced' = FALSE
  /\ UNCHANGED <<files, lease, completed, journal, edits, crashes>>

Apply(p) == p \notin completed /\ Begin("apply", p)

Rollback(p) == p \in journal /\ Begin("rollback", p)

Matches == files[Current(call).path] = Expected(call)

(* The first change that does not find what it expects refuses the patch.   *)
Conflict ==
  /\ call.stage = "reading"
  /\ ~Matches
  /\ call' = [call EXCEPT !.stage = "conflict"]
  /\ UNCHANGED <<files, lease, completed, journal, history>>

ReadNext ==
  /\ call.stage = "reading"
  /\ Matches /\ ~IsLast(call)
  /\ call' = Onward(call)
  /\ UNCHANGED <<files, lease, completed, journal, history>>

(* Every file was as expected: take the lease and start over, writing.      *)
StartWriting ==
  /\ call.stage = "reading"
  /\ Matches /\ IsLast(call)
  /\ call' = [call EXCEPT !.at = Begun(call.kind, call.patch).at, !.stage = "comparing",
                          !.held = (lease = TaskOf[call.patch])]
  /\ lease' = TaskOf[call.patch]
  /\ UNCHANGED <<files, completed, journal, history>>

(* A slip: NodeWorkspaceAdapter.patch is not given the hash it must find.   *)
CompareNothing ==
  /\ call.stage = "comparing"
  /\ call' = [call EXCEPT !.stage = "writing"]
  /\ raced' = FALSE
  /\ UNCHANGED <<files, lease, completed, journal, touched, edits, crashes>>

Compare ==
  /\ call.stage = "comparing"
  /\ Matches
  /\ call' = [call EXCEPT !.stage = "writing"]
  /\ raced' = FALSE
  /\ UNCHANGED <<files, lease, completed, journal, touched, edits, crashes>>

(* The file is not as expected, or the path is refused: its directory is    *)
(* gone, a link leads out of the workspace.                                 *)
Deny ==
  /\ call.stage = "comparing"
  /\ Proceed(Failed(call))
  /\ UNCHANGED <<files, history>>

(* A create is exclusive and a delete needs a file; an update writes in any *)
(* case.                                                                    *)
CanWrite ==
  /\ Expected(call) = Absent => files[Current(call).path] = Absent
  /\ Replacement(call) = Absent => files[Current(call).path] # Absent

Write ==
  /\ call.stage = "writing"
  /\ CanWrite
  /\ files' = [files EXCEPT ![Current(call).path] = Replacement(call)]
  /\ Proceed(Advanced(call))
  /\ UNCHANGED history

(* What is left of the file when the write does not finish.                 *)
CutShort ==
  \/ UNCHANGED files
  \/ /\ CanWrite /\ Replacement(call) # Absent
     /\ files' = [files EXCEPT ![Current(call).path] = Torn]

WriteFails ==
  /\ call.stage = "writing"
  /\ CutShort
  /\ Proceed(Failed(call))
  /\ UNCHANGED history

-----------------------------------------------------------------------------
(* The user saves another content, or deletes the file.                     *)
Edit(f) == \E c \in Proposed :
  /\ edits < MaxEdits
  /\ c # files[f]
  /\ files' = [files EXCEPT ![f] = c]
  /\ touched' = touched \cup {f}
  /\ raced' = (raced \/ (call.stage = "writing" /\ f = Current(call).path))
  /\ edits' = edits + 1
  /\ UNCHANGED <<lease, completed, journal, call, crashes>>

(* The manager and its memory are gone, in the middle of a call or not.  A  *)
(* caller that dies before it stored the journal entry never asks for a     *)
(* rollback, which Rollback allows.                                         *)
Crash ==
  /\ crashes < MaxCrashes
  /\ crashes' = crashes + 1
  /\ IF call.stage = "writing" THEN CutShort ELSE UNCHANGED files
  /\ lease' = NoOne
  /\ completed' = {}
  /\ call' = IF call.stage \in Running THEN [call EXCEPT !.stage = "crashed"] ELSE call
  /\ UNCHANGED <<journal, touched, raced, edits>>

Next ==
  \/ \E t \in Task : Reserve(t) \/ Release(t)
  \/ \E p \in Patch : Apply(p) \/ Rollback(p)
  \/ Conflict \/ ReadNext \/ StartWriting
  \/ Compare \/ Deny \/ Write \/ WriteFails
  \/ \E f \in File : Edit(f)
  \/ Crash

Spec == Init /\ [][Next]_vars

-----------------------------------------------------------------------------
Target(c, i) == IF Forward(c) THEN Changes[c.patch][i].after ELSE Changes[c.patch][i].before

(* A patch reported applied is wholly in the workspace, and one reported    *)
(* rolled back by the user is wholly out of it, except where the user has   *)
(* edited a file in the meantime.                                           *)
DoneIsWhole ==
  call.stage = "done" =>
    \A i \in DOMAIN Changes[call.patch] : LET f == Changes[call.patch][i].path IN
      files[f] = Target(call, i) \/ f \in touched

(* An apply reported as failed and rolled back leaves no file with its new  *)
(* content, whichever change failed and whatever the user did meanwhile.    *)
UndoneIsGone ==
  call.stage = "undone" =>
    \A i \in DOMAIN Changes[call.patch] : LET f == Changes[call.patch][i].path IN
      files[f] \in {Changes[call.patch][i].before, Torn} \/ f \in touched

(* "A runtime failure cannot silently leave a partially applied Patch"      *)
(* (docs/adr/016-task-context-and-patch-transaction.md:62): after           *)
(* apply_failed_rolled_back every file is as it was.                        *)
UndoneIsClean ==
  call.stage = "undone" =>
    \A i \in DOMAIN Changes[call.patch] : LET f == Changes[call.patch][i].path IN
      files[f] = Changes[call.patch][i].before \/ f \in touched

(* The manager, also when it compensates or rolls back, writes only to the  *)
(* file of its current change and only over what that change replaces: an   *)
(* edit survives unless it falls between the comparison and the write.      *)
EditsSurvive ==
  [][edits' = edits =>
       \A f \in File : files'[f] # files[f] =>
         f = Current(call).path /\ (files[f] = Expected(call) \/ raced)]_vars
=============================================================================
