--------------------------- MODULE PlanningDurable ---------------------------
(***************************************************************************)
(* The planning page's handlers over the checkpoint store: start, approve, *)
(* revise and cancel, each ending in the resumable runner.  Handlers are   *)
(* asynchronous functions of one process (or of several on one directory): *)
(* whatever they await - a load, a provider, a commit, a publication - is  *)
(* a point where the others run.  A handler may stop at any such point: a  *)
(* provider failed, a publication failed or the process died.              *)
(*                                                                         *)
(* commit and markOutboxPublished read the record, check it and write it   *)
(* back.  Exclusive says nothing comes between the two, as in              *)
(* InMemoryTransactionalCheckpointStore; FileTransactionalCheckpointStore  *)
(* awaits the read and the rename and takes no lock.                       *)
(***************************************************************************)
EXTENDS Naturals, FiniteSets, FiniteSetsExt

CONSTANTS
  Handler,                          \* concurrent requests being served
  Approval, Revision, Cancellation, \* request ids, by what they ask for
  SubjectOf,                        \* the subject each request is about
  NoText, NoRequest,
  MaxVersion, MaxRevision,          \* bounds on versions and on commits
  MaxRequests,                      \* bound on the requests clients make
  Exclusive

Request == Approval \cup Revision \cup Cancellation

VARIABLES
  store,      \* the checkpoint record: revision, value and pending events
  delivered,  \* the events published so far, by the revision they were made in
  asked,      \* the document each request names
  pc,
  job,        \* the request a handler serves
  gate,       \* options.approveStatus: the gate status a run may pass
  copy,       \* the revision and the aggregate a handler works on
  todo,       \* events a handler has yet to publish
  after,      \* where a handler continues once they are published
  page        \* the record a file operation has read and will write back

mine == <<pc, job, gate, copy, todo, after, page>>
vars == <<store, delivered, asked, mine>>

P == INSTANCE PlanningAggregate WITH
       Text <- Handler, Unlogged <- NoRequest, planning <- store.value

Subject == P!Subject
GateStatus == {P!Awaiting[s] : s \in Subject}
NoGate == "none"

Record == [revision : Nat, value : P!Aggregate, pending : SUBSET Nat]
Missing == [revision |-> 0, value |-> P!New, pending |-> {}]

ASSUME RequestAssumption ==
  /\ SubjectOf \in [Request -> Subject]
  /\ \A r \in Cancellation : SubjectOf[r] = "project_spec"
  /\ NoText \notin Handler /\ NoRequest \notin Request
  /\ MaxVersion \in Nat \ {0} /\ MaxRevision \in Nat /\ MaxRequests \in Nat
  /\ Exclusive \in BOOLEAN

Place == {"idle", "check", "load", "publish", "marking", "loop", "commit",
          "write"}

TypeOK ==
  /\ store \in Record
  /\ delivered \subseteq Nat
  /\ asked \in [Request -> P!Pointer]
  /\ pc \in [Handler -> Place]
  /\ job \in [Handler -> Request \cup {NoRequest}]
  /\ gate \in [Handler -> GateStatus \cup {NoGate}]
  /\ copy \in [Handler -> [revision : Nat, value : P!Aggregate]]
  /\ todo \in [Handler -> SUBSET Nat]
  /\ after \in [Handler -> Place]
  /\ page \in [Handler -> Record]

Init ==
  /\ store = Missing /\ delivered = {}
  /\ asked = [r \in Request |-> P!NoDocument]
  /\ pc = [h \in Handler |-> "idle"]
  /\ job = [h \in Handler |-> NoRequest]
  /\ gate = [h \in Handler |-> NoGate]
  /\ copy = [h \in Handler |-> [revision |-> 0, value |-> P!New]]
  /\ todo = [h \in Handler |-> {}]
  /\ after = [h \in Handler |-> "idle"]
  /\ page = [h \in Handler |-> Missing]

-----------------------------------------------------------------------------
\* What a handler forgets when it returns or throws.
Finish(h) ==
  /\ pc' = [pc EXCEPT ![h] = "idle"]
  /\ job' = [job EXCEPT ![h] = NoRequest]
  /\ gate' = [gate EXCEPT ![h] = NoGate]
  /\ copy' = [copy EXCEPT ![h] = [revision |-> 0, value |-> P!New]]
  /\ todo' = [todo EXCEPT ![h] = {}]
  /\ after' = [after EXCEPT ![h] = "idle"]
  /\ page' = [page EXCEPT ![h] = Missing]
  /\ UNCHANGED <<store, delivered, asked>>

Goto(h, place) == pc' = [pc EXCEPT ![h] = place]

\* A client names a document its page shows: the one at the gate to approve,
\* any valid one to revise, the specification to cancel.  It may send the
\* same request again when no answer came.
Shows(r) ==
  /\ store.value.valid[SubjectOf[r]]
  /\ r \in Approval => store.value.status = P!Awaiting[SubjectOf[r]]

Submit(h, r) ==
  /\ pc[h] = "idle" /\ store.revision > 0
  /\ \/ asked[r] # P!NoDocument /\ UNCHANGED asked
     \/ /\ asked[r] = P!NoDocument /\ Shows(r)
        /\ Cardinality({q \in Request : asked[q] # P!NoDocument}) < MaxRequests
        /\ asked' = [asked EXCEPT ![r] = store.value.pointer[SubjectOf[r]]]
  /\ Goto(h, "check")
  /\ job' = [job EXCEPT ![h] = r]
  /\ UNCHANGED <<store, delivered, gate, copy, todo, after, page>>

StartRun(h) ==
  /\ pc[h] = "idle"
  /\ Goto(h, "load")
  /\ UNCHANGED <<store, delivered, asked, job, gate, copy, todo, after, page>>

\* No one else is between reading the record and writing it back.
Free(h) == Exclusive => \A g \in Handler \ {h} : pc[g] \notin {"marking", "write"}

\* a slip: the validity of the named document is not looked at.
NamesPointer(r) == store.value.pointer[SubjectOf[r]] = asked[r]

\* The document of a request is still the one the loaded checkpoint shows.
StillNamed(r) ==
  /\ store.value.valid[SubjectOf[r]]
  /\ store.value.pointer[SubjectOf[r]] = asked[r]

\* PlanningWebController.approve: compare the binding with the gate, then run
\* with permission to pass a gate of that status.
CheckApproval(h) ==
  /\ pc[h] = "check" /\ Free(h) /\ job[h] \in Approval
  /\ ~P!Known(store.value, job[h])
  /\ store.value.status = P!Awaiting[SubjectOf[job[h]]]
  /\ store.value.pointer[SubjectOf[job[h]]] = asked[job[h]]
  /\ gate' = [gate EXCEPT ![h] = store.value.status]
  /\ Goto(h, "load")
  /\ UNCHANGED <<store, delivered, asked, job, copy, todo, after, page>>

\* returnDurablePlanningSubject: a known request only runs on.
CheckKnownRevision(h) ==
  /\ pc[h] = "check" /\ Free(h) /\ job[h] \in Revision
  /\ P!Known(store.value, job[h])
  /\ Goto(h, "load")
  /\ job' = [job EXCEPT ![h] = NoRequest]
  /\ UNCHANGED <<store, delivered, asked, gate, copy, todo, after, page>>

\* The value a return or a cancellation computes from the loaded checkpoint.
Mutated(r) ==
  IF r \in Revision THEN P!ReturnTo(store.value, r, SubjectOf[r])
                    ELSE P!Reject(store.value, r)

CheckMutation(h) ==
  /\ pc[h] = "check" /\ Free(h) /\ job[h] \in Revision \cup Cancellation
  /\ ~P!Known(store.value, job[h]) /\ StillNamed(job[h])
  /\ Mutated(job[h]).answers[job[h]].accepted
  /\ copy' = [copy EXCEPT ![h] =
       [revision |-> store.revision, value |-> Mutated(job[h])]]
  /\ after' = [after EXCEPT ![h] = IF job[h] \in Revision THEN "load" ELSE "idle"]
  /\ job' = [job EXCEPT ![h] = NoRequest]
  /\ Goto(h, "commit")
  /\ UNCHANGED <<store, delivered, asked, gate, todo, page>>

CheckFails(h) ==
  /\ pc[h] = "check" /\ Free(h)
  /\ \/ job[h] \in Approval \cup Cancellation /\ P!Known(store.value, job[h])
     \/ ~P!Known(store.value, job[h]) /\ ~StillNamed(job[h])
     \/ /\ job[h] \in Approval
        /\ store.value.status # P!Awaiting[SubjectOf[job[h]]]
     \/ /\ job[h] \in Revision \cup Cancellation
        /\ ~Mutated(job[h]).answers[job[h]].accepted
  /\ Finish(h)

-----------------------------------------------------------------------------
\* runDurableStandalonePlanning: load, then publish what an earlier run left.
Load(h) ==
  /\ pc[h] = "load" /\ Free(h)
  /\ copy' = [copy EXCEPT ![h] = [revision |-> store.revision, value |-> store.value]]
  /\ todo' = [todo EXCEPT ![h] = store.pending]
  /\ Goto(h, IF store.revision = 0 THEN "commit"
             ELSE IF store.pending = {} THEN "loop" ELSE "publish")
  /\ after' = [after EXCEPT ![h] = "loop"]
  /\ UNCHANGED <<store, delivered, asked, job, gate, page>>

\* The event is published, then markOutboxPublished reads the record.
Publish(h) ==
  /\ pc[h] = "publish" /\ Free(h)
  /\ delivered' = delivered \cup {Min(todo[h])}
  /\ page' = [page EXCEPT ![h] = store]
  /\ Goto(h, "marking")
  /\ UNCHANGED <<store, asked, job, gate, copy, todo, after>>

\* One event is done; the rest of the list follows.
MarkDone(h) ==
  /\ todo' = [todo EXCEPT ![h] = @ \ {Min(@)}]
  /\ IF Cardinality(todo[h]) > 1 THEN Goto(h, "publish") /\ UNCHANGED after
     ELSE Goto(h, after[h]) /\ after' = [after EXCEPT ![h] = "idle"]

\* a slip: everything up to the newest event counts as published.
MarkedAll(record, e) == [record EXCEPT !.pending = {}]

Marked(record, e) == [record EXCEPT !.pending = @ \ {e}]

WriteMark(h) ==
  /\ pc[h] = "marking"
  /\ store' = Marked(page[h], Min(todo[h]))
  /\ page' = [page EXCEPT ![h] = Missing]
  /\ MarkDone(h)
  /\ UNCHANGED <<delivered, asked, job, gate, copy>>

-----------------------------------------------------------------------------
\* The document a handler's provider writes next, and what it is bound to.
NextDocument(h, s) ==
  [version |-> copy[h].value.pointer[s].version + 1, text |-> h]

Given(a, s) == P!Bindings([u \in P!Upstream[s] |-> a.pointer[u]])

Generated(h, s) ==
  P!RecordVersion(copy[h].value, NoRequest, s, NextDocument(h, s),
                  Given(copy[h].value, s))

\* A turn of the loop computes the next value and goes to persist it.
Turn(h, value) ==
  /\ pc[h] = "loop"
  /\ copy' = [copy EXCEPT ![h].value = value]
  /\ Goto(h, "commit")
  /\ after' = [after EXCEPT ![h] = "loop"]
  /\ UNCHANGED <<store, delivered, asked, job, gate, todo, page>>

Collected(h) ==
  /\ copy[h].value.status = "collecting_idea"
  /\ Turn(h, [copy[h].value EXCEPT !.status = "analyzing_request"])

Analyzed(h) ==
  /\ copy[h].value.status = "analyzing_request"
  /\ Turn(h, [copy[h].value EXCEPT !.status = "generating_product_spec"])

MayGenerate(h, s) ==
  /\ P!MayRecord(copy[h].value, s)
  /\ copy[h].value.pointer[s].version < MaxVersion

Generate(h, s) == MayGenerate(h, s) /\ Turn(h, Generated(h, s))

\* approveCurrentSubject takes the version the loaded copy points to.
Passed(h, s) == P!Approve(copy[h].value, job[h], s, copy[h].value.pointer[s])

MayPass(h, s) ==
  /\ copy[h].value.status = P!Awaiting[s] /\ gate[h] = P!Awaiting[s]
  /\ copy[h].value.valid[s]
  /\ Passed(h, s).answers[job[h]].accepted

PassGate(h, s) == MayPass(h, s) /\ Turn(h, Passed(h, s))

\* The run is over, waits at a gate or cannot go on from this status.
Stop(h) ==
  /\ pc[h] = "loop"
  /\ copy[h].value.status \notin {"collecting_idea", "analyzing_request"}
  /\ \A s \in Subject : ~MayGenerate(h, s) /\ ~MayPass(h, s)
  /\ Finish(h)

\* A provider, the publisher or the process fails: the handler is gone, the
\* checkpoint stays.
Fail(h) == pc[h] \in {"load", "publish", "marking", "loop", "commit", "write"}
           /\ Finish(h)

-----------------------------------------------------------------------------
Committed(record, h) ==
  [revision |-> record.revision + 1, value |-> copy[h].value,
   pending  |-> record.pending \cup {record.revision + 1}]

\* a slip: the expected revision is not compared.
AlwaysCurrent(h) == copy[h].revision \in Nat

IsCurrent(h) == store.revision = copy[h].revision

\* persist and commitMutation: commit, then publish the event and mark it.
AfterCommit(h, revision) ==
  /\ copy' = [copy EXCEPT ![h].revision = revision]
  /\ todo' = [todo EXCEPT ![h] = {revision}]
  /\ Goto(h, "publish")

ReadToCommit(h) ==
  /\ pc[h] = "commit" /\ Free(h) /\ IsCurrent(h)
  /\ store.revision < MaxRevision
  /\ page' = [page EXCEPT ![h] = store]
  /\ Goto(h, "write")
  /\ UNCHANGED <<store, delivered, asked, job, gate, copy, todo, after>>

WriteCommit(h) ==
  /\ pc[h] = "write"
  /\ store' = Committed(page[h], h)
  /\ AfterCommit(h, page[h].revision + 1)
  /\ page' = [page EXCEPT ![h] = Missing]
  /\ UNCHANGED <<delivered, asked, job, gate, after>>

Conflict(h) == pc[h] = "commit" /\ Free(h) /\ ~IsCurrent(h) /\ Finish(h)

-----------------------------------------------------------------------------
Serve(h) ==
  \/ CheckApproval(h) \/ CheckKnownRevision(h) \/ CheckMutation(h) \/ CheckFails(h)
  \/ Load(h) \/ Publish(h) \/ WriteMark(h)
  \/ Collected(h) \/ Analyzed(h) \/ Stop(h)
  \/ \E s \in Subject : Generate(h, s) \/ PassGate(h, s)
  \/ ReadToCommit(h) \/ WriteCommit(h) \/ Conflict(h)

Next == \E h \in Handler :
  \/ StartRun(h)
  \/ \E r \in Request : Submit(h, r)
  \/ Serve(h)
  \/ Fail(h)

Spec == Init /\ [][Next]_vars

-----------------------------------------------------------------------------
\* Every change of the stored checkpoint is one planning command applied to
\* the checkpoint as it was: no handler replaces what another committed.
\* (P!Spec, with the condition a step must meet only if it changes the value
\* written first.)
ImplementsPlanning ==
  P!Init /\ [][store'.value # store.value /\ P!Next]_(store.value)

\* What is stored claims no authority it lacks: approvals are current, a valid
\* document rests on valid current ones, the envelope on approved ones, also
\* when handlers overwrite each other.
StoredAuthority ==
  P!ApprovalsAreCurrent /\ P!AuthorityIsGrounded /\ P!EnvelopeIsApproved

\* A request the store has answered stays answered, through the commits and
\* the outbox updates of every other handler.
AnswersStay ==
  [][\A r \in Request : P!Known(store.value, r)
       => store'.value.answers[r] = store.value.answers[r]]_store

\* Each committed status event is published or still in the outbox.
EventsKept == \A e \in 1..store.revision : e \in store.pending \cup delivered

\* The run never waits for a document that cannot be generated: whoever sent
\* it back named a valid version, so the approvals above it still stand
\* (durable.ts assertMutationBinding; the aggregate's table alone allows it).
GenerationCanProceed ==
  \A s \in Subject :
    store.value.status = P!Generating[s] => P!UpstreamApproved(store.value, s)

\* An approval is recorded for the version the request named.
ApprovedAsNamed ==
  \A r \in Approval :
    store.value.answers[r].accepted
      => store.value.answers[r].document = asked[r]
=============================================================================
