-------------------------- MODULE PlanningAggregate --------------------------
(***************************************************************************)
(* The planning aggregate: a project specification, a technical design and *)
(* an execution plan are generated, approved and returned in turn, until   *)
(* the approved plan yields the envelope development starts from.          *)
(*                                                                         *)
(* A command is a function from one aggregate to the next, because callers *)
(* apply it to a copy they have loaded; the actions apply it to the one    *)
(* aggregate.  Version id, version number and content hash of a document   *)
(* are one record; the approval policy and the workflow definition do not  *)
(* change during a run.                                                    *)
(***************************************************************************)
EXTENDS Naturals

CONSTANTS
  Text,        \* contents that tell documents of one version number apart
  NoText,
  Request,     \* the command request ids clients choose
  Unlogged,    \* an id drawn by IdGenerator.nextId: used once, never replayed
  MaxVersion   \* bound on the versions of a document

VARIABLE planning

Subject == {"project_spec", "technical_design", "execution_plan"}

Status ==
  {"collecting_idea", "analyzing_request", "awaiting_clarification",
   "generating_product_spec", "awaiting_product_spec_approval",
   "generating_technical_design", "awaiting_technical_design_approval",
   "generating_execution_plan", "awaiting_execution_plan_approval",
   "needs_user_action", "ready_for_development", "cancelled"}

Generating == [project_spec     |-> "generating_product_spec",
               technical_design |-> "generating_technical_design",
               execution_plan   |-> "generating_execution_plan"]

Awaiting == [project_spec     |-> "awaiting_product_spec_approval",
             technical_design |-> "awaiting_technical_design_approval",
             execution_plan   |-> "awaiting_execution_plan_approval"]

\* a slip: the last status is named as a development run names it.
AfterApprovalOfRun == [project_spec     |-> "generating_technical_design",
                       technical_design |-> "generating_execution_plan",
                       execution_plan   |-> "ready"]

AfterApproval == [project_spec     |-> "generating_technical_design",
                  technical_design |-> "generating_execution_plan",
                  execution_plan   |-> "ready_for_development"]

Upstream == [project_spec     |-> {},
             technical_design |-> {"project_spec"},
             execution_plan   |-> {"project_spec", "technical_design"}]

\* a slip: only the direct dependents lose their authority.
DownstreamNext == [project_spec     |-> {"technical_design"},
                   technical_design |-> {"execution_plan"},
                   execution_plan   |-> {}]

\* What a new version of a subject takes the authority of, besides its own.
Downstream == [s \in Subject |-> {t \in Subject : s \in Upstream[t]}]

\* The statuses a status may go back to a generating one from.
Reopens == [project_spec |-> {"analyzing_request", "awaiting_clarification",
                "needs_user_action", "awaiting_product_spec_approval",
                "awaiting_technical_design_approval",
                "awaiting_execution_plan_approval", "ready_for_development"},
            technical_design |-> {"awaiting_product_spec_approval",
                "needs_user_action", "awaiting_technical_design_approval",
                "awaiting_execution_plan_approval", "ready_for_development"},
            execution_plan |-> {"awaiting_technical_design_approval",
                "needs_user_action", "awaiting_execution_plan_approval",
                "ready_for_development"}]

Document == [version : 1..MaxVersion, text : Text]
NoDocument == [version |-> 0, text |-> NoText]
Pointer == Document \cup {NoDocument}
NoPointers == [s \in Subject |-> NoDocument]

Answer == [known : BOOLEAN, accepted : BOOLEAN, document : Pointer]
NoAnswer == [known |-> FALSE, accepted |-> FALSE, document |-> NoDocument]

\* pointer and valid are the snapshot's pointers, basis the bindings written
\* into the current version of each document, start the envelope.
Aggregate ==
  [status   : Status,
   pointer  : [Subject -> Pointer],
   valid    : [Subject -> BOOLEAN],
   basis    : [Subject -> [Subject -> Pointer]],
   approval : [Subject -> Pointer],
   start    : [Subject -> Pointer],
   answers  : [Request -> Answer]]

New == [status   |-> "collecting_idea",
        pointer  |-> NoPointers,
        valid    |-> [s \in Subject |-> FALSE],
        basis    |-> [s \in Subject |-> NoPointers],
        approval |-> NoPointers,
        start    |-> NoPointers,
        answers  |-> [r \in Request |-> NoAnswer]]

TypeOK == planning \in Aggregate

-----------------------------------------------------------------------------
Known(a, r) == r \in Request /\ a.answers[r].known

Remember(a, r, accepted, d) ==
  IF r \in Request
  THEN [a EXCEPT !.answers[r] =
          [known |-> TRUE, accepted |-> accepted, document |-> d]]
  ELSE a

\* The shape of every command: replay the receipt, recognise what is already
\* so, apply what is allowed, refuse the rest; the answer is remembered.
Handle(a, r, d, already, allowed, after) ==
  IF Known(a, r) THEN a
  ELSE IF already THEN Remember(a, r, TRUE, d)
  ELSE IF allowed THEN Remember(after, r, TRUE, d)
  ELSE Remember(a, r, FALSE, d)

Approved(a, s) ==
  /\ a.valid[s]
  /\ a.approval[s] # NoDocument
  /\ a.approval[s] = a.pointer[s]

UpstreamApproved(a, s) == \A u \in Upstream[s] : Approved(a, u)

ReturnTo(a, r, s) ==
  Handle(a, r, a.pointer[s],
         a.status = Generating[s],
         a.status \in Reopens[s],
         [a EXCEPT !.status = Generating[s]])

Reject(a, r) ==
  Handle(a, r, a.pointer["project_spec"],
         FALSE,
         a.status = "awaiting_product_spec_approval",
         [a EXCEPT !.status = "cancelled"])

\* The current version of subject s becomes d, what depended on it loses validity
\* and approval, and the envelope is dropped.
Recorded(a, s, d, basis) ==
  [status   |-> Awaiting[s],
   pointer  |-> [a.pointer EXCEPT ![s] = d],
   valid    |-> [t \in Subject |-> IF t = s THEN TRUE
                                  ELSE a.valid[t] /\ t \notin Downstream[s]],
   basis    |-> [a.basis EXCEPT ![s] = basis],
   approval |-> [t \in Subject |-> IF t = s \/ t \in Downstream[s]
                                  THEN NoDocument ELSE a.approval[t]],
   start    |-> NoPointers,
   answers  |-> a.answers]

MayRecord(a, s) == a.status = Generating[s] /\ UpstreamApproved(a, s)

\* The bindings of a design or a plan must name the current, valid upstream
\* documents.
Bound(a, s, basis) ==
  \A u \in Upstream[s] : a.valid[u] /\ basis[u] = a.pointer[u]

Bindings(given) ==
  [t \in Subject |-> IF t \in DOMAIN given THEN given[t] ELSE NoDocument]

RecordVersion(a, r, s, d, basis) ==
  Handle(a, r, d,
         Bound(a, s, basis) /\ MayRecord(a, s) /\ a.pointer[s] = d,
         /\ Bound(a, s, basis) /\ MayRecord(a, s)
         /\ d.version > a.pointer[s].version,
         Recorded(a, s, d, basis))

MayApprove(a, s, d) ==
  /\ a.status = Awaiting[s]
  /\ a.valid[s] /\ a.pointer[s] = d
  /\ UpstreamApproved(a, s)

Start(a, s, d) ==
  IF s = "execution_plan" THEN [a.pointer EXCEPT ![s] = d] ELSE a.start

\* The approval takes effect; that of the execution plan makes the envelope.
Authorized(a, s, d) ==
  [status   |-> AfterApproval[s],
   pointer  |-> a.pointer,
   valid    |-> a.valid,
   basis    |-> a.basis,
   approval |-> [a.approval EXCEPT ![s] = d],
   start    |-> Start(a, s, d),
   answers  |-> a.answers]

Approve(a, r, s, d) ==
  Handle(a, r, d,
         a.approval[s] = d,
         MayApprove(a, s, d),
         Authorized(a, s, d))

-----------------------------------------------------------------------------
Init == planning = New

BeginAnalysis ==
  /\ planning.status = "collecting_idea"
  /\ planning' = [planning EXCEPT !.status = "analyzing_request"]

BeginProjectSpec ==
  /\ planning.status = "analyzing_request"
  /\ planning' = [planning EXCEPT !.status = "generating_product_spec"]

ReturnToPlanningSubject(r, s) == planning' = ReturnTo(planning, r, s)

RejectProjectSpec(r) == planning' = Reject(planning, r)

\* A version is written against the documents its author was given.
RecordDocumentVersion(r, s, d) ==
  \E given \in [Upstream[s] -> Pointer] :
    planning' = RecordVersion(planning, r, s, d, Bindings(given))

ApprovePlanningSubject(r, s, d) == planning' = Approve(planning, r, s, d)

Next ==
  \/ BeginAnalysis
  \/ BeginProjectSpec
  \/ \E r \in Request \cup {Unlogged} :
       \/ RejectProjectSpec(r)
       \/ \E s \in Subject :
            \/ ReturnToPlanningSubject(r, s)
            \/ \E d \in Document : \/ RecordDocumentVersion(r, s, d)
                                   \/ ApprovePlanningSubject(r, s, d)

Spec == Init /\ [][Next]_planning

-----------------------------------------------------------------------------
\* An effective approval is always of the current, valid version: no approval
\* outlives the version it was given for (aggregate.ts, the invalidation loop
\* of recordDocumentVersion).
Current(a) ==
  \A s \in Subject : a.approval[s] # NoDocument => Approved(a, s)

ApprovalsAreCurrent == Current(planning)

\* A valid document rests on the valid, current upstream documents, and an
\* approved one on approved ones, through every return and re-generation.
Grounded(a) ==
  \A s \in Subject : \A u \in Upstream[s] :
    /\ a.valid[s] => a.valid[u] /\ a.basis[s][u] = a.pointer[u]
    /\ Approved(a, s) => Approved(a, u)

AuthorityIsGrounded == Grounded(planning)

\* An envelope, even one kept while a document is being regenerated, names
\* the current version of all three documents, each with an approval; and
\* planning is ready for development only with one.
Enveloped(a) ==
  /\ a.start # NoPointers =>
       \A s \in Subject : a.start[s] = a.pointer[s] /\ Approved(a, s)
  /\ a.status = "ready_for_development" => a.start # NoPointers

EnvelopeIsApproved == Enveloped(planning)
=============================================================================
