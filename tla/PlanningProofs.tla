--------------------------- MODULE PlanningProofs ---------------------------
(***************************************************************************)
(* What approval means in the planning aggregate, for any number of texts, *)
(* requests and versions.  Every command keeps the aggregate sound: it is  *)
(* well typed, its approvals are current, its authority is grounded and an *)
(* envelope is approved.  None of the three holds by itself: an envelope   *)
(* stays approved because approvals stay current, and those stay grounded  *)
(* because a new version withdraws what rests on the old one.              *)
(***************************************************************************)
EXTENDS PlanningAggregate, TLAPS

\* A valid document has been written, and what it was written against has been
\* approved since: a new version of that would have taken its validity.
Standing(a) ==
  \A s \in Subject : a.valid[s] => a.pointer[s] # NoDocument /\ UpstreamApproved(a, s)

Sound(a) ==
  a \in Aggregate /\ Current(a) /\ Grounded(a) /\ Standing(a) /\ Enveloped(a)

IInv == Sound(planning)

USE DEF Subject

LEMMA PointerTypes ==
  /\ NoDocument \in Pointer /\ Document \subseteq Pointer
  /\ NoPointers \in [Subject -> Pointer]
  /\ NoAnswer \in Answer
  /\ \A d \in Document : d # NoDocument
BY DEF Pointer, Document, NoDocument, NoPointers, NoAnswer, Answer

LEMMA StatusTypes ==
  /\ Generating \in [Subject -> Status]
  /\ Awaiting \in [Subject -> Status]
  /\ AfterApproval \in [Subject -> Status]
  /\ Upstream \in [Subject -> SUBSET Subject]
BY DEF Generating, Awaiting, AfterApproval, Upstream, Status

\* A new aggregate claims nothing.
LEMMA NewIsSound == Sound(New)
<1>1. New \in Aggregate
  BY PointerTypes DEF New, Aggregate, Status
<1>2. \A s \in Subject : New.approval[s] = NoDocument /\ ~New.valid[s]
  BY DEF New, NoPointers
<1>3. New.start = NoPointers /\ New.status # "ready_for_development"
  BY DEF New
<1> QED BY <1>1, <1>2, <1>3, StatusTypes
        DEF Sound, Current, Grounded, Standing, UpstreamApproved, Enveloped, Approved

\* Remembering an answer disturbs no authority.
LEMMA RememberIsSound ==
  ASSUME NEW a, Sound(a), NEW r, NEW accepted \in BOOLEAN, NEW d \in Pointer
  PROVE  Sound(Remember(a, r, accepted, d))
<1> DEFINE b == Remember(a, r, accepted, d)
<1>1. b \in Aggregate
  BY DEF Sound, Aggregate, Remember, Answer
<1>2. /\ b.status = a.status /\ b.pointer = a.pointer /\ b.valid = a.valid
      /\ b.basis = a.basis /\ b.approval = a.approval /\ b.start = a.start
  BY DEF Sound, Aggregate, Remember
<1> HIDE DEF b
<1>3. Sound(b)
  BY <1>1, <1>2 DEF Sound, Current, Grounded, Standing, UpstreamApproved, Enveloped, Approved
<1> QED BY <1>3 DEF b

LEMMA HandleIsSound ==
  ASSUME NEW a, Sound(a), NEW r, NEW d \in Pointer,
         NEW already \in BOOLEAN, NEW allowed \in BOOLEAN, NEW after,
         allowed => Sound(after)
  PROVE  Sound(Handle(a, r, d, already, allowed, after))
<1>1. CASE Known(a, r)
  BY <1>1 DEF Handle
<1>2. CASE ~Known(a, r) /\ already
  BY <1>2, RememberIsSound DEF Handle
<1>3. CASE ~Known(a, r) /\ ~already /\ allowed
  BY <1>3, RememberIsSound DEF Handle
<1>4. CASE ~Known(a, r) /\ ~already /\ ~allowed
  BY <1>4, RememberIsSound DEF Handle
<1> QED BY <1>1, <1>2, <1>3, <1>4

\* A status other than ready leaves everything else as it was.
LEMMA StatusIsSound ==
  ASSUME NEW a, Sound(a), NEW status \in Status, status # "ready_for_development"
  PROVE  Sound([a EXCEPT !.status = status])
<1> DEFINE b == [a EXCEPT !.status = status]
<1>1. b \in Aggregate
  BY DEF Sound, Aggregate
<1>2. /\ b.status = status /\ b.pointer = a.pointer /\ b.valid = a.valid
      /\ b.basis = a.basis /\ b.approval = a.approval /\ b.start = a.start
  BY DEF Sound, Aggregate
<1> HIDE DEF b
<1>3. Sound(b)
  BY <1>1, <1>2 DEF Sound, Current, Grounded, Standing, UpstreamApproved, Enveloped, Approved
<1> QED BY <1>3 DEF b

LEMMA ReturnIsSound ==
  ASSUME NEW a, Sound(a), NEW r, NEW s \in Subject
  PROVE  Sound(ReturnTo(a, r, s))
<1>1. Sound([a EXCEPT !.status = Generating[s]])
  BY StatusIsSound, StatusTypes DEF Generating
<1>2. a.pointer[s] \in Pointer
  BY DEF Sound, Aggregate
<1> DEFINE already == a.status = Generating[s]
           allowed == a.status \in Reopens[s]
           after == [a EXCEPT !.status = Generating[s]]
<1>3. already \in BOOLEAN /\ allowed \in BOOLEAN
  OBVIOUS
<1>4. ReturnTo(a, r, s) = Handle(a, r, a.pointer[s], already, allowed, after)
  BY DEF ReturnTo
<1>5. Sound(after)
  BY <1>1
<1> HIDE DEF already, allowed, after
<1> QED BY <1>2, <1>3, <1>4, <1>5, HandleIsSound

LEMMA RejectIsSound ==
  ASSUME NEW a, Sound(a), NEW r
  PROVE  Sound(Reject(a, r))
<1>1. Sound([a EXCEPT !.status = "cancelled"])
  BY StatusIsSound DEF Status
<1>2. a.pointer["project_spec"] \in Pointer
  BY DEF Sound, Aggregate
<1> QED BY <1>1, <1>2, HandleIsSound DEF Reject

\* A new version takes the authority of its subject and of all that rests on
\* it, so what keeps authority rests on nothing that changed.
LEMMA RecordedIsSound ==
  ASSUME NEW a, Sound(a), NEW s \in Subject, NEW d \in Document,
         NEW basis \in [Subject -> Pointer], Bound(a, s, basis), UpstreamApproved(a, s)
  PROVE  Sound(Recorded(a, s, d, basis))
<1> DEFINE b == Recorded(a, s, d, basis)
           Withdrawn(t) == t = s \/ s \in Upstream[t]
<1>0. \A t \in Subject : t \in Downstream[s] <=> s \in Upstream[t]
  BY DEF Downstream
<1>1. /\ b.status = Awaiting[s]
      /\ b.pointer = [a.pointer EXCEPT ![s] = d]
      /\ b.valid = [t \in Subject |-> IF t = s THEN TRUE
                                      ELSE a.valid[t] /\ t \notin Downstream[s]]
      /\ b.basis = [a.basis EXCEPT ![s] = basis]
      /\ b.approval = [t \in Subject |-> IF t = s \/ t \in Downstream[s]
                                         THEN NoDocument ELSE a.approval[t]]
      /\ b.start = NoPointers
      /\ b.answers = a.answers
  BY DEF Sound, Aggregate, Recorded
<1>2. b = [status |-> b.status, pointer |-> b.pointer, valid |-> b.valid,
           basis |-> b.basis, approval |-> b.approval, start |-> b.start,
           answers |-> b.answers]
  BY DEF Recorded
<1> HIDE DEF b
<1>13. /\ a.pointer \in [Subject -> Pointer] /\ a.valid \in [Subject -> BOOLEAN]
      /\ a.basis \in [Subject -> [Subject -> Pointer]]
      /\ a.approval \in [Subject -> Pointer] /\ a.answers \in [Request -> Answer]
  BY DEF Sound, Aggregate
<1>14. b \in Aggregate
  <2>1. b.pointer \in [Subject -> Pointer] /\ b.basis \in [Subject -> [Subject -> Pointer]]
    BY <1>1, <1>13, PointerTypes
  <2>2. b.valid \in [Subject -> BOOLEAN]
    BY <1>1, <1>13
  <2>3. b.approval \in [Subject -> Pointer]
    BY <1>1, <1>13, PointerTypes
  <2>4. b.status \in Status /\ b.start \in [Subject -> Pointer]
    BY <1>1, PointerTypes, StatusTypes
  <2>5. b.answers \in [Request -> Answer]
    BY <1>1, <1>13
  <2> QED BY <1>2, <2>1, <2>2, <2>3, <2>4, <2>5 DEF Aggregate
<1>3. \A t \in Subject : ~Withdrawn(t) =>
        /\ b.pointer[t] = a.pointer[t] /\ (b.valid[t] <=> a.valid[t])
        /\ b.basis[t] = a.basis[t] /\ b.approval[t] = a.approval[t]
  <2> SUFFICES ASSUME NEW t \in Subject, t # s, t \notin Downstream[s]
               PROVE  /\ b.pointer[t] = a.pointer[t] /\ (b.valid[t] <=> a.valid[t])
                      /\ b.basis[t] = a.basis[t] /\ b.approval[t] = a.approval[t]
    BY <1>0
  <2>1. b.valid[t] <=> a.valid[t]
    BY <1>1
  <2>2. b.pointer[t] = a.pointer[t] /\ b.basis[t] = a.basis[t]
    BY <1>1, <1>13
  <2>3. b.approval[t] = a.approval[t]
    BY <1>1
  <2> QED BY <2>1, <2>2, <2>3
<1>4. \A t \in Subject : Withdrawn(t) => b.approval[t] = NoDocument
  BY <1>0, <1>1
<1>5. \A t \in Subject : s \in Upstream[t] => ~b.valid[t]
  <2>1. s \notin Upstream[s]
    BY DEF Upstream
  <2> QED BY <2>1, <1>0, <1>1
<1>6. b.pointer[s] = d /\ b.valid[s] /\ b.basis[s] = basis
  BY <1>1, <1>13
<1>7. \A t \in Subject : \A u \in Upstream[t] :
        u \in Subject /\ (~Withdrawn(t) => ~Withdrawn(u))
  BY DEF Upstream
<1>8. \A u \in Upstream[s] : ~Withdrawn(u)
  BY DEF Upstream
<1>9. b.status # "ready_for_development" /\ b.start = NoPointers
  BY <1>1 DEF Awaiting
<1>10. Current(b)
  BY <1>3, <1>4 DEF Sound, Current, Approved
<1>11. Grounded(b)
  <2> SUFFICES ASSUME NEW t \in Subject, NEW u \in Upstream[t]
               PROVE  /\ b.valid[t] => b.valid[u] /\ b.basis[t][u] = b.pointer[u]
                      /\ Approved(b, t) => Approved(b, u)
    BY DEF Grounded
  <2>1. CASE t = s
    <3>1. u \in Subject /\ b.pointer[u] = a.pointer[u] /\ (b.valid[u] <=> a.valid[u])
      BY <2>1, <1>3, <1>7, <1>8
    <3>2. a.valid[u] /\ basis[u] = a.pointer[u]
      BY <2>1 DEF Bound
    <3>3. ~Approved(b, t)
      BY <2>1, <1>4 DEF Approved
    <3> QED BY <2>1, <3>1, <3>2, <3>3, <1>6
  <2>2. CASE t # s /\ s \in Upstream[t]
    BY <2>2, <1>4, <1>5 DEF Approved
  <2>3. CASE ~Withdrawn(t)
    BY <2>3, <1>3, <1>7 DEF Sound, Grounded, Approved
  <2> QED BY <2>1, <2>2, <2>3
<1>12. Standing(b)
  <2> SUFFICES ASSUME NEW t \in Subject, b.valid[t]
               PROVE  b.pointer[t] # NoDocument /\ \A u \in Upstream[t] : Approved(b, u)
    BY DEF Standing, UpstreamApproved
  <2>1. s \notin Upstream[t]
    BY <1>5
  <2>2. b.pointer[t] # NoDocument
    BY <2>1, <1>3, <1>6, PointerTypes DEF Sound, Standing
  <2>3. \A u \in Upstream[t] : u \in Subject /\ Approved(a, u)
    BY <2>1, <1>3, <1>7 DEF Sound, Standing, UpstreamApproved
  <2>4. \A u \in Upstream[t] : ~Withdrawn(u)
    BY <2>1, <1>7, <1>8
  <2> QED BY <2>2, <2>3, <2>4, <1>3 DEF Approved
<1>15. Sound(b)
  BY <1>14, <1>9, <1>10, <1>11, <1>12 DEF Sound, Enveloped
<1> QED BY <1>15 DEF b

LEMMA RecordIsSound ==
  ASSUME NEW a, Sound(a), NEW r, NEW s \in Subject, NEW d \in Document,
         NEW basis \in [Subject -> Pointer]
  PROVE  Sound(RecordVersion(a, r, s, d, basis))
<1>1. Bound(a, s, basis) /\ MayRecord(a, s) => Sound(Recorded(a, s, d, basis))
  BY RecordedIsSound DEF MayRecord
<1> DEFINE already == Bound(a, s, basis) /\ MayRecord(a, s) /\ a.pointer[s] = d
           allowed == /\ Bound(a, s, basis) /\ MayRecord(a, s)
                      /\ d.version > a.pointer[s].version
<1>2. already \in BOOLEAN /\ allowed \in BOOLEAN /\ d \in Pointer
  BY PointerTypes
<1>3. allowed => Sound(Recorded(a, s, d, basis))
  BY <1>1
<1>4. RecordVersion(a, r, s, d, basis)
        = Handle(a, r, d, already, allowed, Recorded(a, s, d, basis))
  BY DEF RecordVersion
<1> HIDE DEF already, allowed
<1> QED BY <1>2, <1>3, <1>4, HandleIsSound

\* An approval is added on top of the approvals above it; the last one makes
\* the envelope of exactly the approved versions.
LEMMA ApprovedIsSound ==
  ASSUME NEW a, Sound(a), NEW s \in Subject, NEW d \in Document, MayApprove(a, s, d)
  PROVE  Sound(Authorized(a, s, d))
<1> DEFINE b == Authorized(a, s, d)
<1>0. a.valid[s] /\ a.pointer[s] = d /\ \A u \in Upstream[s] : Approved(a, u)
  BY DEF MayApprove, UpstreamApproved
<1>1. /\ b.status = AfterApproval[s] /\ b.pointer = a.pointer /\ b.valid = a.valid
      /\ b.basis = a.basis /\ b.approval = [a.approval EXCEPT ![s] = d]
      /\ b.start = Start(a, s, d) /\ b.answers = a.answers
  BY DEF Authorized
<1>2. Start(a, s, d) \in [Subject -> Pointer]
  BY PointerTypes DEF Start, Sound, Aggregate
<1>3. b \in Aggregate
  <2>1. b.approval \in [Subject -> Pointer] /\ b.status \in Status
    BY <1>1, PointerTypes, StatusTypes DEF Sound, Aggregate
  <2>2. b = [status |-> b.status, pointer |-> b.pointer, valid |-> b.valid,
             basis |-> b.basis, approval |-> b.approval, start |-> b.start,
             answers |-> b.answers]
    BY DEF Authorized
  <2>3. b.start \in [Subject -> Pointer]
    BY <1>1, <1>2
  <2>4. /\ b.pointer \in [Subject -> Pointer] /\ b.valid \in [Subject -> BOOLEAN]
        /\ b.basis \in [Subject -> [Subject -> Pointer]]
        /\ b.answers \in [Request -> Answer]
    BY <1>1 DEF Sound, Aggregate
  <2> HIDE DEF b
  <2> QED BY <2>1, <2>2, <2>3, <2>4 DEF Aggregate
<1>4. \A t \in Subject : b.approval[t] = IF t = s THEN d ELSE a.approval[t]
  BY <1>1 DEF Sound, Aggregate
<1> HIDE DEF b
<1>5. Approved(b, s)
  BY <1>0, <1>1, <1>4, PointerTypes DEF Approved
<1>6. \A t \in Subject : t # s => (Approved(b, t) <=> Approved(a, t))
  BY <1>1, <1>4 DEF Approved
<1>7. Current(b)
  BY <1>4, <1>5, <1>6 DEF Sound, Current
<1>8. Grounded(b)
  <2> SUFFICES ASSUME NEW t \in Subject, NEW u \in Upstream[t]
               PROVE  /\ b.valid[t] => b.valid[u] /\ b.basis[t][u] = b.pointer[u]
                      /\ Approved(b, t) => Approved(b, u)
    BY DEF Grounded
  <2>1. u \in Subject
    BY StatusTypes
  <2>2. b.valid[t] => b.valid[u] /\ b.basis[t][u] = b.pointer[u]
    BY <1>1 DEF Sound, Grounded
  <2>3. Approved(b, t) => Approved(b, u)
    BY <1>0, <1>5, <1>6, <2>1 DEF Sound, Grounded
  <2> QED BY <2>2, <2>3
<1>9. Enveloped(b)
  <2>1. CASE s = "execution_plan"
    <3>1. b.start = a.pointer
      BY <2>1, <1>0, <1>1 DEF Start, Sound, Aggregate
    <3>2. \A t \in Subject : Approved(b, t)
      BY <2>1, <1>0, <1>5, <1>6 DEF Upstream
    <3>3. b.start # NoPointers
      BY <3>1, <1>0, PointerTypes DEF NoPointers
    <3> QED BY <3>1, <3>2, <3>3, <1>1 DEF Enveloped
  <2>2. CASE s # "execution_plan"
    <3>1. b.start = a.start /\ b.status # "ready_for_development"
      BY <2>2, <1>1 DEF Start, AfterApproval
    <3> QED BY <3>1, <1>1, <1>5, <1>6 DEF Sound, Enveloped
  <2> QED BY <2>1, <2>2
<1>10. Standing(b)
  BY <1>1, <1>5, <1>6, StatusTypes DEF Sound, Standing, UpstreamApproved
<1>11. Sound(b)
  BY <1>3, <1>7, <1>8, <1>9, <1>10 DEF Sound
<1> QED BY <1>11 DEF b

LEMMA ApproveIsSound ==
  ASSUME NEW a, Sound(a), NEW r, NEW s \in Subject, NEW d \in Document
  PROVE  Sound(Approve(a, r, s, d))
<1> DEFINE already == a.approval[s] = d
           allowed == MayApprove(a, s, d)
           after == Authorized(a, s, d)
<1>1. already \in BOOLEAN /\ allowed \in BOOLEAN /\ d \in Pointer
  BY PointerTypes DEF MayApprove
<1>2. allowed => Sound(after)
  BY ApprovedIsSound
<1>3. Approve(a, r, s, d) = Handle(a, r, d, already, allowed, after)
  BY DEF Approve
<1> HIDE DEF already, allowed, after
<1> QED BY <1>1, <1>2, <1>3, HandleIsSound

\* Every step of planning keeps the aggregate sound.
LEMMA NextIsSound == Sound(planning) /\ [Next]_planning => Sound(planning')
<1> SUFFICES ASSUME Sound(planning), [Next]_planning PROVE Sound(planning')
  OBVIOUS
<1>1. CASE BeginAnalysis
  BY <1>1, StatusIsSound DEF BeginAnalysis, Status
<1>2. CASE BeginProjectSpec
  BY <1>2, StatusIsSound DEF BeginProjectSpec, Status
<1>3. ASSUME NEW r, RejectProjectSpec(r) PROVE Sound(planning')
  BY <1>3, RejectIsSound DEF RejectProjectSpec
<1>4. ASSUME NEW r, NEW s \in Subject, ReturnToPlanningSubject(r, s)
      PROVE  Sound(planning')
  BY <1>4, ReturnIsSound DEF ReturnToPlanningSubject
<1>5. ASSUME NEW r, NEW s \in Subject, NEW d \in Document, RecordDocumentVersion(r, s, d)
      PROVE  Sound(planning')
  <2> PICK given \in [Upstream[s] -> Pointer] :
             planning' = RecordVersion(planning, r, s, d, Bindings(given))
    BY <1>5 DEF RecordDocumentVersion
  <2>1. Bindings(given) \in [Subject -> Pointer]
    BY PointerTypes DEF Bindings
  <2> QED BY <2>1, RecordIsSound
<1>6. ASSUME NEW r, NEW s \in Subject, NEW d \in Document, ApprovePlanningSubject(r, s, d)
      PROVE  Sound(planning')
  BY <1>6, ApproveIsSound DEF ApprovePlanningSubject
<1>7. CASE UNCHANGED planning
  BY <1>7
<1> QED BY <1>1, <1>2, <1>3, <1>4, <1>5, <1>6, <1>7 DEF Next

\* Whatever commands arrive in whatever order, the aggregate is well typed,
\* no approval outlives the version it was given for, no document has
\* authority without the ones it rests on, and development can start only
\* from the approved, current versions of all three.
THEOREM PlanningIsSound ==
  Spec => [](TypeOK /\ ApprovalsAreCurrent /\ AuthorityIsGrounded /\ EnvelopeIsApproved)
<1>1. Init => IInv
  BY NewIsSound DEF Init, IInv
<1>2. IInv /\ [Next]_planning => IInv'
  BY NextIsSound DEF IInv
<1>3. IInv => TypeOK /\ ApprovalsAreCurrent /\ AuthorityIsGrounded /\ EnvelopeIsApproved
  BY DEF IInv, Sound, TypeOK, ApprovalsAreCurrent, AuthorityIsGrounded, EnvelopeIsApproved
<1> QED BY <1>1, <1>2, <1>3, PTL DEF Spec
=============================================================================
