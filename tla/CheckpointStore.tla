--------------------------- MODULE CheckpointStore ---------------------------
(***************************************************************************)
(* FileDevelopmentCheckpointStore for one key, used by several processes:  *)
(* writers that execute durable commands and publishers that drain the     *)
(* outbox.  Every await of the code is a step boundary: the reads of the   *)
(* file, the exclusive creation of the lock file, the read under the lock, *)
(* the rename of the temporary file and the removal of the lock.  A process*)
(* may crash between any two of them, and the removal of the lock may fail: *)
(* either way a lock file stays behind.                                    *)
(***************************************************************************)
EXTENDS Naturals, Sequences, FiniteSets

CONSTANTS
  Request,     \* request ids (idempotency keys)
  Writer,      \* processes that execute durable commands
  Publisher,   \* processes that run publishPendingDevelopmentEvents
  MaxCrashes,  \* bound on the crashes
  NoOne, NoRequest

Process == Writer \cup Publisher

ASSUME ProcessAssumption ==
  /\ Writer \cap Publisher = {}
  /\ NoOne \notin Process /\ NoRequest \notin Request
  /\ MaxCrashes \in Nat

VARIABLES
  file,       \* the record under pathFor(key), Missing before the first commit
  lock,       \* who created the file under lockPathFor(key), NoOne without one
  pc,         \* where each process is
  expected,   \* the revision a process will demand when it holds the lock
  copy,       \* the record a writer computes its next value from
  request,    \* the request a writer is executing
  pending,    \* the events a publisher found unpublished and has yet to mark
  marking,    \* the event a publisher has just published
  next,       \* the record a process has written to its temporary file
  delivered,  \* the events consumers have seen, by their first delivery
  crashes,
  orphaned    \* whether the owner of a lock file crashed or failed to remove it

faults == <<crashes, orphaned>>
locals == <<expected, copy, request, pending, marking, next>>
vars == <<file, lock, pc, locals, delivered, faults>>

Store == INSTANCE VersionedStore WITH record <- file

Missing == Store!Missing
Record == Store!Record
Receipts(r) == Store!Receipts(r)

Holding == {"locked", "writing", "saved", "failed"}
Counter == {"idle", "bound", "publishing", "locking"} \cup Holding

TypeOK ==
  /\ file \in Record
  /\ file.published \subseteq DOMAIN file.log
  /\ lock \in Process \cup {NoOne}
  /\ pc \in [Process -> Counter]
  /\ expected \in [Process -> Nat]
  /\ copy \in [Writer -> Record]
  /\ request \in [Writer -> Request \cup {NoRequest}]
  /\ pending \in [Publisher -> SUBSET Nat]
  /\ marking \in [Publisher -> Nat]
  /\ next \in [Process -> Record]
  /\ delivered \in Seq(Nat)
  /\ crashes \in Nat
  /\ orphaned \in BOOLEAN

Init ==
  /\ file = Missing
  /\ lock = NoOne
  /\ pc = [p \in Process |-> "idle"]
  /\ expected = [p \in Process |-> 0]
  /\ copy = [w \in Writer |-> Missing]
  /\ request = [w \in Writer |-> NoRequest]
  /\ pending = [p \in Publisher |-> {}]
  /\ marking = [p \in Publisher |-> 0]
  /\ next = [p \in Process |-> Missing]
  /\ delivered = <<>>
  /\ crashes = 0
  /\ orphaned = FALSE

Goto(p, label) == pc' = [pc EXCEPT ![p] = label]

(* The call of a process ends, with a result or an exception.               *)
Return(p) ==
  /\ Goto(p, "idle")
  /\ expected' = [expected EXCEPT ![p] = 0]
  /\ copy' = [w \in Writer |-> IF w = p THEN Missing ELSE copy[w]]
  /\ request' = [w \in Writer |-> IF w = p THEN NoRequest ELSE request[w]]
  /\ pending' = [q \in Publisher |-> IF q = p THEN {} ELSE pending[q]]
  /\ marking' = [q \in Publisher |-> IF q = p THEN 0 ELSE marking[q]]
  /\ next' = [next EXCEPT ![p] = Missing]

-----------------------------------------------------------------------------
(* Writers: bootstrapDevelopmentFromPlanning, or a handler of the           *)
(* application, loads the checkpoint and binds the command to its revision. *)
Bind(w) ==
  /\ pc[w] = "idle"
  /\ Goto(w, "bound")
  /\ expected' = [expected EXCEPT ![w] = file.revision]
  /\ UNCHANGED <<file, lock, copy, request, pending, marking, next, delivered, faults>>

(* The first checkpoint is built from nothing; a command loads the          *)
(* checkpoint a second time.                                                *)
Base(w) == IF expected[w] = 0 THEN Missing ELSE file

Replay(w, r) ==
  /\ pc[w] = "bound"
  /\ r \in Receipts(Base(w))
  /\ Return(w)
  /\ UNCHANGED <<file, lock, delivered, faults>>

(* A slip: the command is mutated and committed without looking for its     *)
(* receipt.                                                                 *)
MutateAgain(w, r) ==
  /\ pc[w] = "bound"
  /\ Goto(w, "locking")
  /\ copy' = [copy EXCEPT ![w] = Base(w)]
  /\ request' = [request EXCEPT ![w] = r]
  /\ UNCHANGED <<file, lock, expected, pending, marking, next, delivered, faults>>

Mutate(w, r) ==
  /\ pc[w] = "bound"
  /\ r \notin Receipts(Base(w))
  /\ Goto(w, "locking")
  /\ copy' = [copy EXCEPT ![w] = Base(w)]
  /\ request' = [request EXCEPT ![w] = r]
  /\ UNCHANGED <<file, lock, expected, pending, marking, next, delivered, faults>>

-----------------------------------------------------------------------------
(* Publishers: publishPendingDevelopmentEvents reads the revision and the   *)
(* outbox separately, then publishes and marks one event after the other.   *)
ReadRevision(p) ==
  /\ pc[p] = "idle"
  /\ file # Missing
  /\ Goto(p, "bound")
  /\ expected' = [expected EXCEPT ![p] = file.revision]
  /\ UNCHANGED <<file, lock, copy, request, pending, marking, next, delivered, faults>>

ReadOutbox(p) ==
  /\ pc[p] = "bound"
  /\ Goto(p, "publishing")
  /\ pending' = [pending EXCEPT ![p] = DOMAIN file.log \ file.published]
  /\ UNCHANGED <<file, lock, expected, copy, request, marking, next, delivered, faults>>

Seen == {delivered[i] : i \in DOMAIN delivered}

(* A slip: the latest pending event goes out first.                         *)
IsLastPending(p, i) == i \in pending[p] /\ \A j \in pending[p] : j <= i
IsFirstPending(p, i) == i \in pending[p] /\ \A j \in pending[p] : i <= j

DeliverTo(i) == delivered' = IF i \in Seen THEN delivered ELSE Append(delivered, i)

Publish(p) == \E i \in pending[p] :
  /\ pc[p] = "publishing"
  /\ IsFirstPending(p, i)
  /\ DeliverTo(i)
  /\ Goto(p, "locking")
  /\ marking' = [marking EXCEPT ![p] = i]
  /\ UNCHANGED <<file, lock, expected, copy, request, pending, next, faults>>

(* The transport throws, before or after the consumers got the event.       *)
PublishFails(p) == \E i \in pending[p] :
  /\ pc[p] = "publishing"
  /\ IsFirstPending(p, i)
  /\ DeliverTo(i) \/ UNCHANGED delivered
  /\ Return(p)
  /\ UNCHANGED <<file, lock, faults>>

Drained(p) ==
  /\ pc[p] = "publishing"
  /\ pending[p] = {}
  /\ Return(p)
  /\ UNCHANGED <<file, lock, delivered, faults>>

-----------------------------------------------------------------------------
(* Both write under withWriterLock.                                         *)

(* A slip: the lock file is opened without the exclusive flag.              *)
LockAnyway(p) ==
  /\ pc[p] = "locking"
  /\ lock' = p
  /\ Goto(p, "locked")
  /\ UNCHANGED <<file, locals, delivered, faults>>

Lock(p) ==
  /\ pc[p] = "locking"
  /\ lock = NoOne
  /\ lock' = p
  /\ Goto(p, "locked")
  /\ UNCHANGED <<file, locals, delivered, faults>>

(* DevelopmentCheckpointBusyError.                                          *)
Busy(p) ==
  /\ pc[p] = "locking"
  /\ lock # NoOne
  /\ Return(p)
  /\ UNCHANGED <<file, lock, delivered, faults>>

(* What the lock holder writes, given the record it reads under the lock.   *)
(* A slip: the event after the one published is marked.                     *)
MarkFollowing(p) ==
  IF p \in Writer
  THEN [Store!Committed(copy[p], request[p]) EXCEPT !.revision = file.revision + 1,
                                                    !.published = file.published]
  ELSE Store!Marked(file, marking[p] + 1)

Replacement(p) ==
  IF p \in Writer
  THEN [Store!Committed(copy[p], request[p]) EXCEPT !.revision = file.revision + 1,
                                                    !.published = file.published]
  ELSE Store!Marked(file, marking[p])

(* The revision must be the expected one, and the sequence number of a new  *)
(* event, which comes from the writer's copy, must follow the stored outbox.*)
Current(p) ==
  /\ file.revision = expected[p]
  /\ p \in Writer => Len(copy[p].log) = Len(file.log)

WriteTemporary(p) ==
  /\ pc[p] = "locked"
  /\ Current(p)
  /\ Goto(p, "writing")
  /\ next' = [next EXCEPT ![p] = Replacement(p)]
  /\ UNCHANGED <<file, lock, expected, copy, request, pending, marking, delivered, faults>>

Conflict(p) ==
  /\ pc[p] = "locked"
  /\ ~Current(p)
  /\ Goto(p, "failed")
  /\ UNCHANGED <<file, lock, locals, delivered, faults>>

Rename(p) ==
  /\ pc[p] = "writing"
  /\ file' = next[p]
  /\ Goto(p, "saved")
  /\ UNCHANGED <<lock, locals, delivered, faults>>

WriteFails(p) ==
  /\ pc[p] = "writing"
  /\ Goto(p, "failed")
  /\ UNCHANGED <<file, lock, locals, delivered, faults>>

(* The finally block closes the lock file and removes it.  The lock stays    *)
(* behind when unlink fails, which the code swallows, and when close throws, *)
(* which skips it and ends the call with an exception.                       *)
RemoveLock == lock' = NoOne /\ UNCHANGED orphaned
LeaveLock == orphaned' = TRUE /\ UNCHANGED lock

(* A publisher goes on with the next event, under the revision its own write *)
(* returned.                                                                 *)
UnlockAfterMark(p) ==
  /\ pc[p] = "saved"
  /\ p \in Publisher
  /\ RemoveLock \/ LeaveLock
  /\ Goto(p, "publishing")
  /\ expected' = [expected EXCEPT ![p] = next[p].revision]
  /\ pending' = [pending EXCEPT ![p] = @ \ {marking[p]}]
  /\ marking' = [marking EXCEPT ![p] = 0]
  /\ next' = [next EXCEPT ![p] = Missing]
  /\ UNCHANGED <<file, copy, request, delivered, crashes>>

(* A slip: the lock is removed after a success only.                        *)
UnlockAfterSuccess(p) ==
  /\ \/ pc[p] = "failed" /\ UNCHANGED <<lock, orphaned>>
     \/ pc[p] = "saved" /\ p \in Writer /\ RemoveLock
  /\ Return(p)
  /\ UNCHANGED <<file, delivered, crashes>>

Unlock(p) ==
  /\ pc[p] = "failed" \/ (pc[p] = "saved" /\ p \in Writer)
  /\ RemoveLock \/ LeaveLock
  /\ Return(p)
  /\ UNCHANGED <<file, delivered, crashes>>

CloseFailsAfterMark(p) ==
  /\ pc[p] = "saved"
  /\ p \in Publisher
  /\ LeaveLock
  /\ Return(p)
  /\ UNCHANGED <<file, delivered, crashes>>

(* The process dies and is started again: its memory is gone, the files stay.*)
Crash(p) ==
  /\ crashes < MaxCrashes
  /\ pc[p] # "idle"
  /\ crashes' = crashes + 1
  /\ orphaned' = (orphaned \/ pc[p] \in Holding)
  /\ Return(p)
  /\ UNCHANGED <<file, lock, delivered>>

-----------------------------------------------------------------------------
Write(p) ==
  \/ Lock(p) \/ Busy(p)
  \/ WriteTemporary(p) \/ Conflict(p)
  \/ Rename(p) \/ WriteFails(p)
  \/ UnlockAfterMark(p) \/ CloseFailsAfterMark(p) \/ Unlock(p)

Execute(w) == \E r \in Request : Replay(w, r) \/ Mutate(w, r)

Drain(p) == ReadRevision(p) \/ ReadOutbox(p) \/ Publish(p) \/ PublishFails(p) \/ Drained(p)

Next ==
  \/ \E w \in Writer : Bind(w) \/ Execute(w)
  \/ \E p \in Publisher : Drain(p)
  \/ \E p \in Process : Write(p) \/ Crash(p)

Spec == Init /\ [][Next]_vars

(* A call that has started runs on; publication is attempted again and      *)
(* again, and neither the transport nor the file system fails every time.   *)
Fairness ==
  /\ \A w \in Writer : WF_vars(Execute(w))
  /\ \A p \in Publisher : WF_vars(Drain(p)) /\ SF_vars(Publish(p))
  /\ \A p \in Process : WF_vars(Write(p)) /\ SF_vars(Rename(p))

FairSpec == Spec /\ Fairness

-----------------------------------------------------------------------------
(* Every history of the file store is one of the in-memory store: no stale  *)
(* writer replaces newer state (ADR 018:26-28), no request is applied twice *)
(* and no event is lost, marked before it was delivered or first delivered  *)
(* out of order, whatever the interleaving and wherever processes crash.    *)
ImplementsVersionedStore == Store!Spec

(* A retried request, whether its answer was lost or two processes issue it *)
(* at once, is applied at most once (ADR 018:33-35).                        *)
AppliedOnce ==
  \A i, j \in DOMAIN file.log : file.log[i] = file.log[j] => i = j

(* Consumers who deduplicate by event id see the events in commit order     *)
(* without gaps, and what is marked published is a prefix of what they saw. *)
OutboxInOrder ==
  /\ \A i \in DOMAIN delivered : delivered[i] = i
  /\ file.published \subseteq DOMAIN delivered
  /\ \A i \in file.published : 1..i \subseteq file.published

(* At most one process is between taking the lock and releasing it, and it  *)
(* is the one the lock file belongs to.                                     *)
LockIsExclusive == \A p \in Process : pc[p] \in Holding => lock = p

Event == 1..Cardinality(Request)
Emitted(i) == i \in DOMAIN file.log

(* Only a lock file whose owner crashed or failed to remove it can keep a    *)
(* committed event from being published and marked in the end.               *)
EventsPublishedUnlessOrphaned ==
  \A i \in Event : Emitted(i) ~> (i \in file.published \/ orphaned)
=============================================================================
