------------------------ MODULE PlanningDurableProofs ------------------------
(***************************************************************************)
(* What the stored planning checkpoint is worth, for any number of         *)
(* handlers, requests, versions and commits.  Whatever the store allows,   *)
(* every aggregate a handler loads, holds or writes is one that planning   *)
(* commands lead to, so what is stored never claims authority it lacks.    *)
(* Where reading and writing back are exclusive, the stored values are     *)
(* moreover a run of PlanningAggregate, and no event is lost.              *)
(***************************************************************************)
EXTENDS PlanningDurable, FiniteSetTheorems, WellFoundedInduction, TLAPS

PP == INSTANCE PlanningProofs WITH
        Text <- Handler, Unlogged <- NoRequest, planning <- store.value

-----------------------------------------------------------------------------
\* PlanningProofs and PlanningDurable instantiate the same aggregate.
LEMMA SameSets ==
  /\ P!Document = PP!Document /\ P!NoDocument = PP!NoDocument
  /\ P!Pointer = PP!Pointer /\ P!Subject = PP!Subject
  /\ P!Aggregate = PP!Aggregate /\ P!New = PP!New
  /\ P!Generating = PP!Generating /\ P!Awaiting = PP!Awaiting
  /\ P!Upstream = PP!Upstream
<1>1. /\ P!Document = PP!Document /\ P!NoDocument = PP!NoDocument
      /\ P!Subject = PP!Subject /\ P!Status = PP!Status
      /\ P!Generating = PP!Generating /\ P!Awaiting = PP!Awaiting
      /\ P!Upstream = PP!Upstream
  BY DEF P!Document, PP!Document, P!NoDocument, PP!NoDocument, P!Subject, PP!Subject,
         P!Status, PP!Status, P!Generating, PP!Generating, P!Awaiting, PP!Awaiting,
         P!Upstream, PP!Upstream
<1>2. P!Pointer = PP!Pointer
  BY <1>1 DEF P!Pointer, PP!Pointer
<1>3. P!Aggregate = PP!Aggregate
  BY <1>1, <1>2 DEF P!Aggregate, PP!Aggregate, P!Answer, PP!Answer
<1>4. P!New = PP!New
  BY <1>1 DEF P!New, PP!New, P!NoPointers, PP!NoPointers, P!NoAnswer, PP!NoAnswer
<1> QED BY <1>1, <1>2, <1>3, <1>4

LEMMA SameClaims ==
  ASSUME NEW a
  PROVE  /\ \A s : P!Approved(a, s) <=> PP!Approved(a, s)
         /\ \A s : P!UpstreamApproved(a, s) <=> PP!UpstreamApproved(a, s)
         /\ P!Current(a) <=> PP!Current(a)
         /\ P!Grounded(a) <=> PP!Grounded(a)
         /\ P!Enveloped(a) <=> PP!Enveloped(a)
<1>1. \A s : P!Approved(a, s) <=> PP!Approved(a, s)
  BY SameSets DEF P!Approved, PP!Approved
<1>2. \A s : P!UpstreamApproved(a, s) <=> PP!UpstreamApproved(a, s)
  BY <1>1, SameSets DEF P!UpstreamApproved, PP!UpstreamApproved
<1>3. P!Current(a) <=> PP!Current(a)
  BY <1>1, SameSets DEF P!Current, PP!Current
<1>4. P!Grounded(a) <=> PP!Grounded(a)
  BY <1>1, SameSets DEF P!Grounded, PP!Grounded
<1>5. P!Enveloped(a) <=> PP!Enveloped(a)
  BY <1>1, SameSets
  DEF P!Enveloped, PP!Enveloped, P!NoPointers, PP!NoPointers
<1> QED BY <1>1, <1>2, <1>3, <1>4, <1>5

LEMMA SameHandle ==
  \A a, r, d, already, allowed, onward :
    P!Handle(a, r, d, already, allowed, onward) = PP!Handle(a, r, d, already, allowed, onward)
  BY DEF P!Handle, PP!Handle, P!Known, PP!Known, P!Remember, PP!Remember

LEMMA SameCommands ==
  ASSUME NEW a, NEW r, NEW s, NEW d, NEW basis
  PROVE  /\ P!ReturnTo(a, r, s) = PP!ReturnTo(a, r, s)
         /\ P!Reject(a, r) = PP!Reject(a, r)
         /\ P!RecordVersion(a, r, s, d, basis) = PP!RecordVersion(a, r, s, d, basis)
         /\ P!Approve(a, r, s, d) = PP!Approve(a, r, s, d)
<1>1. P!ReturnTo(a, r, s) = PP!ReturnTo(a, r, s)
  BY SameSets, SameHandle DEF P!ReturnTo, PP!ReturnTo, P!Reopens, PP!Reopens
<1>2. P!Reject(a, r) = PP!Reject(a, r)
  BY SameHandle DEF P!Reject, PP!Reject
<1>3. /\ P!MayRecord(a, s) = PP!MayRecord(a, s)
      /\ P!Bound(a, s, basis) = PP!Bound(a, s, basis)
      /\ P!Recorded(a, s, d, basis) = PP!Recorded(a, s, d, basis)
  <2>1. P!MayRecord(a, s) = PP!MayRecord(a, s)
    BY SameSets, SameClaims DEF P!MayRecord, PP!MayRecord
  <2>2. P!Bound(a, s, basis) = PP!Bound(a, s, basis)
    BY SameSets DEF P!Bound, PP!Bound
  <2>3. P!Downstream = PP!Downstream
    BY SameSets DEF P!Downstream, PP!Downstream
  <2>4. P!Recorded(a, s, d, basis) = PP!Recorded(a, s, d, basis)
    BY <2>3, SameSets DEF P!Recorded, PP!Recorded, P!NoPointers, PP!NoPointers
  <2> QED BY <2>1, <2>2, <2>4
<1>4. P!RecordVersion(a, r, s, d, basis) = PP!RecordVersion(a, r, s, d, basis)
  BY <1>3, SameHandle DEF P!RecordVersion, PP!RecordVersion
<1>5. /\ P!MayApprove(a, s, d) = PP!MayApprove(a, s, d)
      /\ P!Authorized(a, s, d) = PP!Authorized(a, s, d)
  <2>1. P!MayApprove(a, s, d) = PP!MayApprove(a, s, d)
    BY SameSets, SameClaims DEF P!MayApprove, PP!MayApprove
  <2>2. P!Authorized(a, s, d) = PP!Authorized(a, s, d)
    BY DEF P!Authorized, PP!Authorized, P!Start, PP!Start, P!AfterApproval, PP!AfterApproval
  <2> QED BY <2>1, <2>2
<1>6. P!Approve(a, r, s, d) = PP!Approve(a, r, s, d)
  BY <1>5, SameHandle DEF P!Approve, PP!Approve
<1> QED BY <1>1, <1>2, <1>4, <1>6

-----------------------------------------------------------------------------
(* The values of the handlers.                                             *)

\* b is what one planning command makes of a.
Command(a, b) ==
  \/ a.status = "collecting_idea" /\ b = [a EXCEPT !.status = "analyzing_request"]
  \/ a.status = "analyzing_request" /\ b = [a EXCEPT !.status = "generating_product_spec"]
  \/ \E r \in Request \cup {NoRequest} :
       \/ b = P!Reject(a, r)
       \/ \E s \in Subject :
            \/ b = P!ReturnTo(a, r, s)
            \/ \E d \in P!Document :
                 \/ \E given \in [P!Upstream[s] -> P!Pointer] :
                      b = P!RecordVersion(a, r, s, d, P!Bindings(given))
                 \/ b = P!Approve(a, r, s, d)

LEMMA CommandIsAStep == Command(store.value, store'.value) => P!Next
  BY DEF Command, P!Next, P!BeginAnalysis, P!BeginProjectSpec, P!ReturnToPlanningSubject,
         P!RejectProjectSpec, P!RecordDocumentVersion, P!ApprovePlanningSubject, Subject

\* A document about to be generated has its upstream approved.
Proceeds(a) ==
  \A s \in Subject : a.status = P!Generating[s] => P!UpstreamApproved(a, s)

Lawful(a) == PP!Sound(a) /\ Proceeds(a)

LEMMA SoundValues ==
  ASSUME NEW a, PP!Sound(a)
  PROVE  /\ a \in P!Aggregate
         /\ \A s \in Subject : a.valid[s] =>
              a.pointer[s] \in P!Document /\ P!UpstreamApproved(a, s)
<1>1. a \in P!Aggregate /\ a.pointer \in [PP!Subject -> PP!Pointer]
  BY SameSets DEF PP!Sound, PP!Aggregate
<1>2. \A s \in PP!Subject : a.valid[s] =>
        a.pointer[s] # PP!NoDocument /\ PP!UpstreamApproved(a, s)
  BY DEF PP!Sound, PP!Standing
<1> QED BY <1>1, <1>2, SameSets, SameClaims DEF Subject, PP!Pointer

LEMMA ProceedsBySameValues ==
  ASSUME NEW a, NEW b, Proceeds(a), b.status = a.status, b.pointer = a.pointer,
         b.valid = a.valid, b.approval = a.approval
  PROVE  Proceeds(b)
  BY DEF Proceeds, P!UpstreamApproved, P!Approved

\* Remembering an answer changes nothing but the answers.
LEMMA RememberedProceeds ==
  ASSUME NEW a \in P!Aggregate, Proceeds(a), NEW r, NEW accepted, NEW d
  PROVE  Proceeds(P!Remember(a, r, accepted, d))
<1> DEFINE b == P!Remember(a, r, accepted, d)
<1>1. /\ b.status = a.status /\ b.pointer = a.pointer
      /\ b.valid = a.valid /\ b.approval = a.approval
  BY DEF P!Aggregate, P!Remember
<1> HIDE DEF b
<1>2. Proceeds(b)
  BY <1>1, ProceedsBySameValues
<1> QED BY <1>2 DEF b

LEMMA HandleProceeds ==
  ASSUME NEW a \in P!Aggregate, Proceeds(a), NEW r, NEW d, NEW already \in BOOLEAN,
         NEW allowed \in BOOLEAN, NEW onward,
         allowed => onward \in P!Aggregate /\ Proceeds(onward)
  PROVE  Proceeds(P!Handle(a, r, d, already, allowed, onward))
<1>1. CASE P!Known(a, r)
  BY <1>1 DEF P!Handle
<1>2. CASE ~P!Known(a, r) /\ already
  <2>1. P!Handle(a, r, d, already, allowed, onward) = P!Remember(a, r, TRUE, d)
    BY <1>2 DEF P!Handle
  <2> QED BY <2>1, RememberedProceeds
<1>3. CASE ~P!Known(a, r) /\ ~already /\ allowed
  <2>1. P!Handle(a, r, d, already, allowed, onward) = P!Remember(onward, r, TRUE, d)
    BY <1>3 DEF P!Handle
  <2> QED BY <1>3, <2>1, RememberedProceeds
<1>4. CASE ~P!Known(a, r) /\ ~already /\ ~allowed
  <2>1. P!Handle(a, r, d, already, allowed, onward) = P!Remember(a, r, FALSE, d)
    BY <1>4 DEF P!Handle
  <2> QED BY <2>1, RememberedProceeds
<1> QED BY <1>1, <1>2, <1>3, <1>4

LEMMA StatusProceeds ==
  ASSUME NEW a \in P!Aggregate, NEW status \in P!Status,
         \A s \in Subject : status = P!Generating[s] => P!UpstreamApproved(a, s)
  PROVE  LET b == [a EXCEPT !.status = status] IN b \in P!Aggregate /\ Proceeds(b)
<1> DEFINE b == [a EXCEPT !.status = status]
<1>1. /\ b \in P!Aggregate /\ b.status = status /\ b.pointer = a.pointer
      /\ b.valid = a.valid /\ b.approval = a.approval
  BY DEF P!Aggregate
<1> HIDE DEF b
<1>2. Proceeds(b)
  BY <1>1 DEF Proceeds, P!UpstreamApproved, P!Approved
<1> QED BY <1>1, <1>2 DEF b

LEMMA NewIsLawful == Lawful(P!New)
<1>1. PP!Sound(P!New)
  BY PP!NewIsSound, SameSets
<1>2. Proceeds(P!New)
  BY DEF Proceeds, P!New, P!Generating, Subject, P!Subject
<1> QED BY <1>1, <1>2 DEF Lawful

\* What a revision or a cancellation makes of the checkpoint it named a valid
\* document of.
LEMMA ReturnedIsLawful ==
  ASSUME NEW a, Lawful(a), NEW r \in Request, NEW s \in Subject, a.valid[s]
  PROVE  Lawful(P!ReturnTo(a, r, s)) /\ Command(a, P!ReturnTo(a, r, s))
<1>1. PP!Sound(P!ReturnTo(a, r, s))
  BY PP!ReturnIsSound, SameCommands, SameSets DEF Lawful, Subject
<1> DEFINE already == a.status = P!Generating[s]
           allowed == a.status \in P!Reopens[s]
           onward == [a EXCEPT !.status = P!Generating[s]]
<1>2. a \in P!Aggregate /\ P!UpstreamApproved(a, s)
  BY SoundValues DEF Lawful
<1>3. /\ P!Generating[s] \in P!Status
      /\ \A t \in Subject : P!Generating[s] = P!Generating[t] => s = t
  BY DEF P!Generating, P!Status, Subject, P!Subject
<1>4. onward \in P!Aggregate /\ Proceeds(onward)
  BY <1>2, <1>3, StatusProceeds
<1>5. P!ReturnTo(a, r, s) = P!Handle(a, r, a.pointer[s], already, allowed, onward)
  BY DEF P!ReturnTo
<1>6. already \in BOOLEAN /\ allowed \in BOOLEAN
  OBVIOUS
<1> HIDE DEF already, allowed, onward
<1>7. Proceeds(P!ReturnTo(a, r, s))
  BY <1>2, <1>4, <1>5, <1>6, HandleProceeds DEF Lawful
<1> QED BY <1>1, <1>7 DEF Lawful, Command

LEMMA RejectedIsLawful ==
  ASSUME NEW a, Lawful(a), NEW r \in Request
  PROVE  Lawful(P!Reject(a, r)) /\ Command(a, P!Reject(a, r))
<1>1. PP!Sound(P!Reject(a, r))
  BY PP!RejectIsSound, SameCommands DEF Lawful
<1> DEFINE allowed == a.status = "awaiting_product_spec_approval"
           onward == [a EXCEPT !.status = "cancelled"]
<1>2. a \in P!Aggregate
  BY SoundValues DEF Lawful
<1>3. onward \in P!Aggregate /\ Proceeds(onward)
  <2>1. "cancelled" \in P!Status /\ \A s \in Subject : "cancelled" # P!Generating[s]
    BY DEF P!Generating, P!Status, Subject, P!Subject
  <2> QED BY <1>2, <2>1, StatusProceeds
<1>4. P!Reject(a, r) = P!Handle(a, r, a.pointer["project_spec"], FALSE, allowed, onward)
  BY DEF P!Reject
<1>5. allowed \in BOOLEAN
  OBVIOUS
<1> HIDE DEF allowed, onward
<1>6. Proceeds(P!Reject(a, r))
  BY <1>2, <1>3, <1>4, <1>5, HandleProceeds DEF Lawful
<1> QED BY <1>1, <1>6 DEF Lawful, Command

LEMMA BegunIsLawful ==
  ASSUME NEW a, Lawful(a)
  PROVE  /\ a.status = "collecting_idea" =>
              LET b == [a EXCEPT !.status = "analyzing_request"]
              IN Lawful(b) /\ Command(a, b)
         /\ a.status = "analyzing_request" =>
              LET b == [a EXCEPT !.status = "generating_product_spec"]
              IN Lawful(b) /\ Command(a, b)
<1>1. a \in P!Aggregate
  BY SoundValues DEF Lawful
<1>2. Lawful([a EXCEPT !.status = "analyzing_request"])
  <2>1. "analyzing_request" \in PP!Status /\ "analyzing_request" \in P!Status
    BY DEF PP!Status, P!Status
  <2>2. PP!Sound([a EXCEPT !.status = "analyzing_request"])
    BY <2>1, PP!StatusIsSound DEF Lawful
  <2>3. \A s \in Subject : "analyzing_request" # P!Generating[s]
    BY DEF P!Generating, Subject, P!Subject
  <2> QED BY <1>1, <2>1, <2>2, <2>3, StatusProceeds DEF Lawful
<1>3. Lawful([a EXCEPT !.status = "generating_product_spec"])
  <2>1. "generating_product_spec" \in PP!Status /\ "generating_product_spec" \in P!Status
    BY DEF PP!Status, P!Status
  <2>2. PP!Sound([a EXCEPT !.status = "generating_product_spec"])
    BY <2>1, PP!StatusIsSound DEF Lawful
  <2>3. \A s \in Subject : "generating_product_spec" = P!Generating[s] =>
          P!UpstreamApproved(a, s)
    BY DEF P!Generating, Subject, P!Subject, P!UpstreamApproved, P!Upstream
  <2> QED BY <1>1, <2>1, <2>2, <2>3, StatusProceeds DEF Lawful
<1> QED BY <1>2, <1>3 DEF Command

LEMMA RecordedIsLawful ==
  ASSUME NEW a, Lawful(a), NEW s \in Subject, NEW d \in P!Document,
         NEW given \in [P!Upstream[s] -> P!Pointer]
  PROVE  LET b == P!RecordVersion(a, NoRequest, s, d, P!Bindings(given))
         IN Lawful(b) /\ Command(a, b)
<1> DEFINE basis == P!Bindings(given)
           b == P!RecordVersion(a, NoRequest, s, d, basis)
<1>1. basis \in [PP!Subject -> PP!Pointer]
  BY SameSets DEF P!Bindings, PP!Pointer
<1>2. a \in P!Aggregate
  BY SoundValues DEF Lawful
<1> DEFINE already == P!Bound(a, s, basis) /\ P!MayRecord(a, s) /\ a.pointer[s] = d
           allowed == /\ P!Bound(a, s, basis) /\ P!MayRecord(a, s)
                      /\ d.version > a.pointer[s].version
           onward == P!Recorded(a, s, d, basis)
<1>3. Command(a, b)
  BY DEF Command
<1> HIDE DEF basis
<1>4. PP!Sound(b)
  BY <1>1, PP!RecordIsSound, SameCommands, SameSets DEF Lawful, Subject
<1>5. allowed => onward \in P!Aggregate /\ Proceeds(onward)
  <2> SUFFICES ASSUME allowed PROVE onward \in P!Aggregate /\ Proceeds(onward)
    OBVIOUS
  <2>1. PP!Bound(a, s, basis) /\ PP!UpstreamApproved(a, s)
    BY SameSets, SameClaims DEF P!Bound, PP!Bound, P!MayRecord
  <2>2. PP!Sound(PP!Recorded(a, s, d, basis))
    BY <1>1, <2>1, PP!RecordedIsSound, SameSets DEF Lawful, Subject
  <2>3. P!Recorded(a, s, d, basis) = PP!Recorded(a, s, d, basis)
    BY SameSets DEF P!Recorded, PP!Recorded, P!NoPointers, PP!NoPointers, P!Downstream,
       PP!Downstream
  <2>4. onward.status = P!Awaiting[s] /\ \A t \in Subject : P!Awaiting[s] # P!Generating[t]
    BY DEF P!Recorded, P!Awaiting, P!Generating, Subject, P!Subject
  <2> QED BY <2>2, <2>3, <2>4, SoundValues DEF Proceeds
<1>6. already \in BOOLEAN /\ allowed \in BOOLEAN
  BY DEF P!Bound, P!MayRecord
<1>7. b = P!Handle(a, NoRequest, d, already, allowed, onward)
  BY DEF P!RecordVersion
<1> HIDE DEF already, allowed, onward, b
<1>8. Proceeds(b)
  BY <1>2, <1>5, <1>6, <1>7, HandleProceeds DEF Lawful
<1> QED BY <1>3, <1>4, <1>8 DEF Lawful, b, basis

LEMMA PassedIsLawful ==
  ASSUME NEW a, Lawful(a), NEW r \in Request \cup {NoRequest}, NEW s \in Subject,
         NEW d \in P!Document
  PROVE  Lawful(P!Approve(a, r, s, d)) /\ Command(a, P!Approve(a, r, s, d))
<1> DEFINE already == a.approval[s] = d
           allowed == P!MayApprove(a, s, d)
           onward == P!Authorized(a, s, d)
<1>1. PP!Sound(P!Approve(a, r, s, d))
  <2>1. PP!Sound(a) /\ s \in PP!Subject /\ d \in PP!Document
    BY SameSets DEF Lawful, Subject
  <2>2. PP!Sound(PP!Approve(a, r, s, d))
    BY <2>1, PP!ApproveIsSound
  <2>3. P!Approve(a, r, s, d) = PP!Approve(a, r, s, d)
    BY SameCommands
  <2> QED BY <2>2, <2>3
<1>2. a \in P!Aggregate
  BY SoundValues DEF Lawful
<1>3. allowed => onward \in P!Aggregate /\ Proceeds(onward)
  <2> SUFFICES ASSUME allowed PROVE onward \in P!Aggregate /\ Proceeds(onward)
    OBVIOUS
  <2>1. PP!MayApprove(a, s, d) /\ P!UpstreamApproved(a, s)
    BY SameSets, SameClaims DEF P!MayApprove, PP!MayApprove
  <2>2. PP!Sound(PP!Authorized(a, s, d))
    BY <2>1, PP!ApprovedIsSound, SameSets DEF Lawful, Subject
  <2>3. P!Authorized(a, s, d) = PP!Authorized(a, s, d)
    BY DEF P!Authorized, PP!Authorized, P!Start, PP!Start, P!AfterApproval, PP!AfterApproval
  <2>4. onward \in P!Aggregate
    BY <2>2, <2>3, SoundValues
  <2>5. /\ onward.status = P!AfterApproval[s] /\ onward.valid = a.valid
        /\ onward.pointer = a.pointer /\ onward.approval = [a.approval EXCEPT ![s] = d]
        /\ a.approval \in [Subject -> P!Pointer]
    BY <1>2 DEF P!Authorized, P!Aggregate, Subject
  <2>6. d # P!NoDocument /\ a.valid[s] /\ a.pointer[s] = d
    BY DEF P!Document, P!NoDocument, P!MayApprove
  <2>7. P!Approved(onward, s)
    BY <2>5, <2>6 DEF P!Approved
  <2>8. \A t \in Subject : P!Approved(a, t) => P!Approved(onward, t)
    BY <2>5, <2>7 DEF P!Approved
  <2>9. \A t \in Subject : P!AfterApproval[s] = P!Generating[t] =>
          \A u \in P!Upstream[t] : u \in Subject /\ (u = s \/ u \in P!Upstream[s])
    BY DEF P!AfterApproval, P!Generating, P!Upstream, Subject, P!Subject
  <2>10. Proceeds(onward)
    BY <2>1, <2>5, <2>7, <2>8, <2>9 DEF Proceeds, P!UpstreamApproved
  <2> QED BY <2>4, <2>10
<1>4. already \in BOOLEAN /\ allowed \in BOOLEAN
  BY DEF P!MayApprove
<1>5. P!Approve(a, r, s, d) = P!Handle(a, r, d, already, allowed, onward)
  BY DEF P!Approve
<1> HIDE DEF already, allowed, onward
<1>6. Proceeds(P!Approve(a, r, s, d))
  BY <1>2, <1>3, <1>4, <1>5, HandleProceeds DEF Lawful
<1> QED BY <1>1, <1>6 DEF Lawful, Command

-----------------------------------------------------------------------------
(* What holds of the store and of every handler, exclusive or not.         *)

LawfulRecord(record) ==
  record \in Record /\ Lawful(record.value) /\ IsFiniteSet(record.pending)

LawfulHandler(h) ==
  /\ Lawful(copy[h].value)
  /\ LawfulRecord(page[h])
  /\ IsFiniteSet(todo[h])
  /\ after[h] \in {"idle", "load", "loop"}
  /\ pc[h] \in {"publish", "marking"} => todo[h] # {}

Founded == TypeOK /\ LawfulRecord(store) /\ \A h \in Handler : LawfulHandler(h)

LEMMA NatMinimum ==
  ASSUME NEW S, S \subseteq Nat, S # {}
  PROVE  \E n \in S : \A m \in S : n <= m
<1> DEFINE R == {ss \in Nat \X Nat : ss[1] < ss[2]}
<1>1. IsWellFoundedOn(R, Nat)
  BY NatLessThanWellFounded DEF OpToRel
<1>2. PICK n \in S : \A m \in S : ~(<<m, n>> \in R)
  <2> HIDE DEF R
  <2> QED BY <1>1, WFMin
<1>3. ASSUME NEW m \in S PROVE n <= m
  <2>1. <<m, n>> \in R <=> m < n
    OBVIOUS
  <2> QED BY <1>2, <2>1
<1> QED BY <1>3

\* The event a handler publishes next is one of those it has to publish.
LEMMA MinIsMember ==
  ASSUME NEW S, S \subseteq Nat, S # {}
  PROVE  Min(S) \in S
<1>1. \E n \in S : \A m \in S : n <= m
  BY NatMinimum
<1> QED BY <1>1, Zenon DEF Min

\* After the last event nothing is left, before it something is.
LEMMA MarkedEvents ==
  ASSUME NEW S, S \subseteq Nat, S # {}, IsFiniteSet(S)
  PROVE  /\ IsFiniteSet(S \ {Min(S)}) /\ S \ {Min(S)} \subseteq Nat
         /\ Cardinality(S) > 1 => S \ {Min(S)} # {}
<1>1. Min(S) \in S
  BY MinIsMember
<1>2. IsFiniteSet(S \ {Min(S)}) /\ Cardinality(S \ {Min(S)}) = Cardinality(S) - 1
  BY <1>1, FS_RemoveElement
<1>3. Cardinality(S) \in Nat
  BY FS_CardinalityType
<1>4. S \ {Min(S)} = {} => Cardinality(S \ {Min(S)}) = 0
  BY FS_EmptySet
<1>5. Cardinality(S) > 1 => S \ {Min(S)} # {}
  BY <1>2, <1>3, <1>4
<1>6. S \ {Min(S)} \subseteq Nat
  OBVIOUS
<1> QED BY <1>2, <1>5, <1>6

LEMMA MissingIsLawful == LawfulRecord(Missing)
<1>1. Lawful(P!New) /\ IsFiniteSet({})
  BY NewIsLawful, FS_EmptySet
<1>2. P!New \in P!Aggregate
  BY <1>1, SoundValues DEF Lawful
<1> QED BY <1>1, <1>2 DEF LawfulRecord, Missing, Record

LEMMA InitIsFounded == Init => Founded
<1> SUFFICES ASSUME Init PROVE Founded
  OBVIOUS
<1>1. Lawful(P!New) /\ P!New \in P!Aggregate
  BY NewIsLawful, SoundValues DEF Lawful
<1>2. LawfulRecord(Missing)
  BY MissingIsLawful
<1>3. P!NoDocument \in P!Pointer
  BY DEF P!Pointer
<1>4. TypeOK
  BY <1>1, <1>2, <1>3 DEF Init, TypeOK, LawfulRecord, Place
<1>5. ASSUME NEW h \in Handler PROVE LawfulHandler(h)
  BY <1>1, <1>2, FS_EmptySet DEF Init, LawfulHandler
<1> QED BY <1>2, <1>4, <1>5 DEF Init, Founded

\* A handler that returns or fails forgets what it held.
LEMMA FinishIsFounded ==
  ASSUME Founded, NEW h \in Handler, Finish(h)
  PROVE  Founded'
<1>1. Lawful(P!New) /\ P!New \in P!Aggregate /\ LawfulRecord(Missing)
  BY NewIsLawful, SoundValues, MissingIsLawful DEF Lawful
<1>2. TypeOK'
  BY <1>1 DEF Founded, TypeOK, Finish, Place, LawfulRecord
<1>3. ASSUME NEW g \in Handler PROVE LawfulHandler(g)'
  BY <1>1, FS_EmptySet DEF Founded, TypeOK, Finish, LawfulHandler
<1> QED BY <1>2, <1>3 DEF Founded, Finish

\* A step that moves a handler without touching the store or an aggregate.
LEMMA MoveIsFounded ==
  ASSUME Founded, NEW h \in Handler,
         \/ StartRun(h) \/ \E r \in Request : Submit(h, r)
         \/ CheckApproval(h) \/ CheckKnownRevision(h)
         \/ Publish(h) \/ ReadToCommit(h)
  PROVE  Founded'
<1>1. CASE StartRun(h)
  BY <1>1 DEF Founded, TypeOK, StartRun, Goto, Place, LawfulHandler
<1>2. ASSUME NEW r \in Request, Submit(h, r) PROVE Founded'
  <2>1. store.value.pointer \in [Subject -> P!Pointer] /\ SubjectOf[r] \in Subject
    BY RequestAssumption DEF Founded, LawfulRecord, Record, P!Aggregate, Subject
  <2>2. TypeOK'
    BY <1>2, <2>1 DEF Founded, TypeOK, Submit, Goto, Place
  <2>3. ASSUME NEW g \in Handler PROVE LawfulHandler(g)'
    BY <1>2 DEF Founded, TypeOK, Submit, Goto, LawfulHandler
  <2> QED BY <1>2, <2>2, <2>3 DEF Founded, Submit
<1>3. CASE CheckApproval(h)
  <2>1. store.value.status \in GateStatus
    BY <1>3, RequestAssumption DEF CheckApproval, GateStatus, Request
  <2>2. TypeOK'
    BY <1>3, <2>1 DEF Founded, TypeOK, CheckApproval, Goto, Place
  <2>3. ASSUME NEW g \in Handler PROVE LawfulHandler(g)'
    BY <1>3 DEF Founded, TypeOK, CheckApproval, Goto, LawfulHandler
  <2> QED BY <1>3, <2>2, <2>3 DEF Founded, CheckApproval
<1>4. CASE CheckKnownRevision(h)
  BY <1>4 DEF Founded, TypeOK, CheckKnownRevision, Goto, Place, LawfulHandler
<1>5. CASE Publish(h)
  <2>1. todo[h] # {} /\ Min(todo[h]) \in Nat
    BY <1>5, MinIsMember DEF Founded, TypeOK, LawfulHandler, Publish
  <2>2. TypeOK'
    BY <1>5, <2>1 DEF Founded, TypeOK, Publish, Goto, Place
  <2>3. ASSUME NEW g \in Handler PROVE LawfulHandler(g)'
    BY <1>5, <2>1 DEF Founded, TypeOK, Publish, Goto, LawfulHandler
  <2> QED BY <1>5, <2>2, <2>3 DEF Founded, Publish
<1>6. CASE ReadToCommit(h)
  <2>1. TypeOK'
    BY <1>6 DEF Founded, TypeOK, ReadToCommit, Goto, Place
  <2>2. ASSUME NEW g \in Handler PROVE LawfulHandler(g)'
    BY <1>6 DEF Founded, TypeOK, ReadToCommit, Goto, LawfulHandler
  <2> QED BY <1>6, <2>1, <2>2 DEF Founded, ReadToCommit
<1> QED BY <1>1, <1>2, <1>3, <1>4, <1>5, <1>6

LEMMA LoadIsFounded ==
  ASSUME Founded, NEW h \in Handler, Load(h)
  PROVE  Founded'
<1>1. TypeOK'
  BY DEF Founded, TypeOK, Load, Goto, Place, Record
<1>2. ASSUME NEW g \in Handler PROVE LawfulHandler(g)'
  BY DEF Founded, TypeOK, Load, Goto, LawfulHandler, LawfulRecord
<1> QED BY <1>1, <1>2 DEF Founded, Load

LEMMA MutationIsLawful ==
  ASSUME Founded, NEW h \in Handler, CheckMutation(h)
  PROVE  Lawful(Mutated(job[h])) /\ Command(store.value, Mutated(job[h]))
<1>1. job[h] \in Request /\ SubjectOf[job[h]] \in Subject /\ Lawful(store.value)
  BY RequestAssumption DEF Founded, LawfulRecord, CheckMutation, Request
<1>2. store.value.valid[SubjectOf[job[h]]]
  BY DEF CheckMutation, StillNamed
<1> QED BY <1>1, <1>2, ReturnedIsLawful, RejectedIsLawful DEF Mutated

LEMMA CheckMutationIsFounded ==
  ASSUME Founded, NEW h \in Handler, CheckMutation(h)
  PROVE  Founded'
<1>1. Lawful(Mutated(job[h])) /\ Mutated(job[h]) \in P!Aggregate
  BY MutationIsLawful, SoundValues DEF Lawful
<1>2. TypeOK'
  BY <1>1 DEF Founded, TypeOK, CheckMutation, Goto, Place, Record
<1>3. ASSUME NEW g \in Handler PROVE LawfulHandler(g)'
  BY <1>1 DEF Founded, TypeOK, CheckMutation, Goto, LawfulHandler
<1> QED BY <1>2, <1>3 DEF Founded, CheckMutation

\* Marking an event takes at most that event from the record as it was read.
LEMMA WriteMarkIsFounded ==
  ASSUME Founded, NEW h \in Handler, WriteMark(h)
  PROVE  Founded'
<1>1. todo[h] \subseteq Nat /\ todo[h] # {} /\ IsFiniteSet(todo[h])
  BY DEF Founded, TypeOK, LawfulHandler, WriteMark
<1>2. /\ IsFiniteSet(todo[h] \ {Min(todo[h])}) /\ todo[h] \ {Min(todo[h])} \subseteq Nat
      /\ Cardinality(todo[h]) > 1 => todo[h] \ {Min(todo[h])} # {}
  BY <1>1, MarkedEvents
<1>3. LawfulRecord(store')
  <2>1. LawfulRecord(page[h])
    BY DEF Founded, LawfulHandler
  <2>2. IsFiniteSet(page[h].pending \ {Min(todo[h])})
    BY <2>1, FS_Subset DEF LawfulRecord
  <2> QED BY <2>1, <2>2 DEF WriteMark, Marked, LawfulRecord, Record
<1>4. LawfulRecord(Missing)
  BY MissingIsLawful
<1>5. after[h] \in {"idle", "load", "loop"}
  BY DEF Founded, LawfulHandler
<1>6. TypeOK'
  BY <1>2, <1>3, <1>4, <1>5 DEF Founded, TypeOK, WriteMark, MarkDone, Goto, Place, LawfulRecord
<1>7. ASSUME NEW g \in Handler PROVE LawfulHandler(g)'
  <2>1. CASE g = h
    BY <2>1, <1>2, <1>4, <1>5 DEF Founded, TypeOK, WriteMark, MarkDone, Goto, LawfulHandler
  <2>2. CASE g # h
    BY <2>2 DEF Founded, TypeOK, WriteMark, MarkDone, Goto, LawfulHandler
  <2> QED BY <2>1, <2>2
<1> QED BY <1>3, <1>6, <1>7 DEF Founded

LEMMA TurnIsFounded ==
  ASSUME Founded, NEW h \in Handler, NEW value, Turn(h, value), Lawful(value)
  PROVE  Founded'
<1>1. value \in P!Aggregate
  BY SoundValues DEF Lawful
<1>2. TypeOK'
  BY <1>1 DEF Founded, TypeOK, Turn, Goto, Place
<1>3. ASSUME NEW g \in Handler PROVE LawfulHandler(g)'
  BY DEF Founded, TypeOK, Turn, Goto, LawfulHandler
<1> QED BY <1>2, <1>3 DEF Founded, Turn

\* Each turn of the loop applies one planning command to the handler's copy.
LEMMA TurnIsLawful ==
  ASSUME Founded, NEW h \in Handler,
         \/ Collected(h) \/ Analyzed(h)
         \/ \E s \in Subject : Generate(h, s) \/ PassGate(h, s)
  PROVE  \E value : Turn(h, value) /\ Lawful(value) /\ Command(copy[h].value, value)
<1> DEFINE a == copy[h].value
<1>1. Lawful(a) /\ job[h] \in Request \cup {NoRequest}
  BY DEF Founded, TypeOK, LawfulHandler
<1>2. CASE Collected(h)
  <2> DEFINE b == [a EXCEPT !.status = "analyzing_request"]
  <2>1. Turn(h, b) /\ a.status = "collecting_idea"
    BY <1>2 DEF Collected
  <2>2. Lawful(b) /\ Command(a, b)
    BY <1>1, <2>1, BegunIsLawful
  <2> QED BY <2>1, <2>2
<1>3. CASE Analyzed(h)
  <2> DEFINE b == [a EXCEPT !.status = "generating_product_spec"]
  <2>1. Turn(h, b) /\ a.status = "analyzing_request"
    BY <1>3 DEF Analyzed
  <2>2. Lawful(b) /\ Command(a, b)
    BY <1>1, <2>1, BegunIsLawful
  <2> QED BY <2>1, <2>2
<1>4. ASSUME NEW s \in Subject, Generate(h, s)
      PROVE  \E value : Turn(h, value) /\ Lawful(value) /\ Command(a, value)
  <2> DEFINE given == [u \in P!Upstream[s] |-> a.pointer[u]]
             d == NextDocument(h, s)
  <2>1. a \in P!Aggregate /\ a.pointer \in [Subject -> P!Pointer]
    BY <1>1, SoundValues DEF Lawful, P!Aggregate, Subject
  <2>2. P!Upstream[s] \subseteq Subject
    BY DEF P!Upstream, Subject, P!Subject
  <2>3. given \in [P!Upstream[s] -> P!Pointer]
    BY <2>1, <2>2
  <2>4. d \in P!Document
    <3>1. a.pointer[s] \in P!Pointer
      BY <2>1
    <3>2. a.pointer[s].version \in Nat
      BY <3>1, RequestAssumption DEF P!Pointer, P!Document, P!NoDocument
    <3>3. a.pointer[s].version < MaxVersion
      BY <1>4 DEF Generate, MayGenerate
    <3> QED BY <3>2, <3>3, RequestAssumption DEF NextDocument, P!Document
  <2>5. Generated(h, s) = P!RecordVersion(a, NoRequest, s, d, P!Bindings(given))
    BY DEF Generated, Given
  <2> HIDE DEF given, d
  <2>6. Lawful(Generated(h, s)) /\ Command(a, Generated(h, s))
    BY <1>1, <2>3, <2>4, <2>5, RecordedIsLawful
  <2> QED BY <1>4, <2>6 DEF Generate
<1>5. ASSUME NEW s \in Subject, PassGate(h, s)
      PROVE  \E value : Turn(h, value) /\ Lawful(value) /\ Command(a, value)
  <2>1. a.pointer[s] \in P!Document
    BY <1>1, <1>5, SoundValues DEF Lawful, PassGate, MayPass
  <2>2. Lawful(Passed(h, s)) /\ Command(a, Passed(h, s))
    BY <1>1, <2>1, PassedIsLawful DEF Passed
  <2> QED BY <1>5, <2>2 DEF PassGate
<1> QED BY <1>2, <1>3, <1>4, <1>5

LEMMA WriteCommitIsFounded ==
  ASSUME Founded, NEW h \in Handler, WriteCommit(h)
  PROVE  Founded'
<1> DEFINE e == page[h].revision + 1
<1>1. e \in Nat /\ LawfulRecord(page[h]) /\ Lawful(copy[h].value)
      /\ copy[h].value \in P!Aggregate
  BY DEF Founded, TypeOK, LawfulHandler, LawfulRecord, Record
<1>2. IsFiniteSet(page[h].pending \cup {e}) /\ IsFiniteSet({e})
  BY <1>1, FS_AddElement, FS_Singleton DEF LawfulRecord
<1>3. LawfulRecord(store')
  BY <1>1, <1>2 DEF WriteCommit, Committed, LawfulRecord, Record
<1>4. LawfulRecord(Missing)
  BY MissingIsLawful
<1> HIDE DEF e
<1>5. /\ copy' = [copy EXCEPT ![h].revision = e] /\ todo' = [todo EXCEPT ![h] = {e}]
      /\ pc' = [pc EXCEPT ![h] = "publish"] /\ page' = [page EXCEPT ![h] = Missing]
      /\ UNCHANGED <<delivered, asked, job, gate, after>>
  BY DEF WriteCommit, AfterCommit, Goto, e
<1>6. TypeOK'
  BY <1>1, <1>3, <1>4, <1>5 DEF Founded, TypeOK, Place, LawfulRecord
<1>7. ASSUME NEW g \in Handler PROVE LawfulHandler(g)'
  BY <1>1, <1>2, <1>4, <1>5 DEF Founded, TypeOK, LawfulHandler
<1> QED BY <1>3, <1>6, <1>7 DEF Founded

LEMMA NextIsFounded == Founded /\ [Next]_vars => Founded'
<1> SUFFICES ASSUME Founded, [Next]_vars PROVE Founded'
  OBVIOUS
<1>1. ASSUME NEW h \in Handler,
             \/ StartRun(h) \/ \E r \in Request : Submit(h, r)
             \/ CheckApproval(h) \/ CheckKnownRevision(h)
             \/ Publish(h) \/ ReadToCommit(h)
      PROVE  Founded'
  BY <1>1, MoveIsFounded
<1>2. ASSUME NEW h \in Handler,
             CheckFails(h) \/ Stop(h) \/ Fail(h) \/ Conflict(h)
      PROVE  Founded'
  BY <1>2, FinishIsFounded DEF CheckFails, Stop, Fail, Conflict
<1>3. ASSUME NEW h \in Handler, Load(h) PROVE Founded'
  BY <1>3, LoadIsFounded
<1>4. ASSUME NEW h \in Handler, CheckMutation(h) PROVE Founded'
  BY <1>4, CheckMutationIsFounded
<1>5. ASSUME NEW h \in Handler, WriteMark(h) PROVE Founded'
  BY <1>5, WriteMarkIsFounded
<1>6. ASSUME NEW h \in Handler,
             \/ Collected(h) \/ Analyzed(h)
             \/ \E s \in Subject : Generate(h, s) \/ PassGate(h, s)
      PROVE  Founded'
  BY <1>6, TurnIsLawful, TurnIsFounded
<1>7. ASSUME NEW h \in Handler, WriteCommit(h) PROVE Founded'
  BY <1>7, WriteCommitIsFounded
<1>8. CASE UNCHANGED vars
  BY <1>8 DEF vars, mine, Founded, TypeOK, LawfulHandler
<1> QED BY <1>1, <1>2, <1>3, <1>4, <1>5, <1>6, <1>7, <1>8 DEF Next, Serve

\* Whatever requests arrive, however handlers interleave, fail or overwrite
\* each other's records, the state stays well typed.
THEOREM TypeCorrect == Spec => []TypeOK
<1>1. Founded => TypeOK
  BY DEF Founded
<1> QED BY <1>1, InitIsFounded, NextIsFounded, PTL DEF Spec

\* The stored checkpoint claims no authority it lacks, with or without
\* exclusive file operations: a lost commit loses work, never the grounds of
\* an approval.
THEOREM StoreClaimsNoMore == Spec => []StoredAuthority
<1>1. Founded => StoredAuthority
  BY SameClaims DEF Founded, LawfulRecord, Lawful, PP!Sound, StoredAuthority,
     P!ApprovalsAreCurrent, P!AuthorityIsGrounded, P!EnvelopeIsApproved
<1> QED BY <1>1, InitIsFounded, NextIsFounded, PTL DEF Spec

\* A stored checkpoint that is about to generate a document has everything
\* above it approved, because a document was named valid when it was sent back.
THEOREM GenerationNeverWaits == Spec => []GenerationCanProceed
<1>1. Founded => GenerationCanProceed
  BY DEF Founded, LawfulRecord, Lawful, Proceeds, GenerationCanProceed
<1> QED BY <1>1, InitIsFounded, NextIsFounded, PTL DEF Spec

-----------------------------------------------------------------------------
(* What exclusive file operations add: nothing comes between reading the   *)
(* record and writing it back, so a handler whose revision is the store's  *)
(* works on what is stored.                                                *)

Writing == {"marking", "write"}

InStep(h) ==
  /\ pc[h] \in Writing => page[h] = store
  /\ copy[h].revision <= store.revision
  /\ pc[h] = "write" => copy[h].revision = store.revision
  /\ pc[h] \in {"publish", "marking", "loop"} /\ copy[h].revision = store.revision
       => copy[h].value = store.value
  /\ pc[h] \in {"commit", "write"} /\ copy[h].revision = store.revision
       => copy[h].value = store.value \/ Command(store.value, copy[h].value)
  /\ pc[h] = "marking" => Min(todo[h]) \in delivered

OneWriter == \A g, h \in Handler : pc[g] \in Writing /\ pc[h] \in Writing => g = h

Ordered == OneWriter /\ EventsKept /\ \A h \in Handler : InStep(h)

LEMMA InitIsOrdered == Init => Ordered
<1> SUFFICES ASSUME Init PROVE Ordered
  OBVIOUS
<1>1. store.revision = 0 /\ \A h \in Handler : pc[h] = "idle" /\ copy[h].revision = 0
  BY DEF Init, Missing
<1>2. OneWriter
  BY <1>1 DEF OneWriter, Writing
<1>3. EventsKept
  BY <1>1 DEF EventsKept
<1>4. ASSUME NEW h \in Handler PROVE InStep(h)
  BY <1>1 DEF InStep, Writing
<1> QED BY <1>2, <1>3, <1>4 DEF Ordered

\* A handler that leaves, or moves elsewhere than into an operation on the
\* file, leaves the others in step.
LEMMA FinishIsOrdered ==
  ASSUME Founded, Ordered, NEW h \in Handler, Finish(h)
  PROVE  Ordered'
<1>1. \A g \in Handler : pc'[g] \in Writing => g # h /\ pc[g] \in Writing
  BY DEF Founded, TypeOK, Finish, Writing
<1>2. OneWriter'
  BY <1>1 DEF Ordered, OneWriter
<1>3. EventsKept'
  BY DEF Ordered, EventsKept, Finish
<1>4. ASSUME NEW g \in Handler PROVE InStep(g)'
  <2>1. CASE g = h
    BY <2>1 DEF Founded, TypeOK, Finish, InStep, Writing, LawfulRecord, Record
  <2>2. CASE g # h
    BY <2>2 DEF Founded, TypeOK, Finish, InStep, Ordered
  <2> QED BY <2>1, <2>2
<1> QED BY <1>2, <1>3, <1>4 DEF Ordered

LEMMA RequestIsOrdered ==
  ASSUME Founded, Ordered, NEW h \in Handler,
         \/ StartRun(h) \/ \E r \in Request : Submit(h, r)
         \/ CheckApproval(h) \/ CheckKnownRevision(h)
  PROVE  Ordered'
<1>1. /\ UNCHANGED <<store, delivered, copy, todo, page>>
      /\ \/ pc' = [pc EXCEPT ![h] = "check"]
         \/ pc' = [pc EXCEPT ![h] = "load"]
  BY DEF StartRun, Submit, CheckApproval, CheckKnownRevision, Goto
<1>2. \A g \in Handler : pc'[g] \in Writing => g # h /\ pc[g] \in Writing
  BY <1>1 DEF Founded, TypeOK, Writing
<1>3. OneWriter' /\ EventsKept'
  BY <1>1, <1>2 DEF Ordered, OneWriter, EventsKept
<1>4. ASSUME NEW g \in Handler PROVE InStep(g)'
  <2>1. CASE g = h
    BY <1>1, <2>1 DEF Founded, TypeOK, InStep, Writing, Ordered
  <2>2. CASE g # h
    BY <1>1, <2>2 DEF Founded, TypeOK, InStep, Ordered
  <2> QED BY <2>1, <2>2
<1> QED BY <1>3, <1>4 DEF Ordered

LEMMA LoadIsOrdered ==
  ASSUME Founded, Ordered, NEW h \in Handler, Load(h)
  PROVE  Ordered'
<1>1. \A g \in Handler : pc'[g] \in Writing => g # h /\ pc[g] \in Writing
  BY DEF Founded, TypeOK, Load, Goto, Writing
<1>2. OneWriter' /\ EventsKept'
  BY <1>1 DEF Ordered, OneWriter, EventsKept, Load
<1>3. ASSUME NEW g \in Handler PROVE InStep(g)'
  <2>1. CASE g = h
    BY <2>1 DEF Founded, TypeOK, Load, Goto, InStep, Writing, LawfulRecord, Record
  <2>2. CASE g # h
    BY <2>2 DEF Founded, TypeOK, Load, Goto, InStep, Ordered
  <2> QED BY <2>1, <2>2
<1> QED BY <1>2, <1>3 DEF Ordered

LEMMA CheckMutationIsOrdered ==
  ASSUME Founded, Ordered, NEW h \in Handler, CheckMutation(h)
  PROVE  Ordered'
<1>1. \A g \in Handler : pc'[g] \in Writing => g # h /\ pc[g] \in Writing
  BY DEF Founded, TypeOK, CheckMutation, Goto, Writing
<1>2. OneWriter' /\ EventsKept'
  BY <1>1 DEF Ordered, OneWriter, EventsKept, CheckMutation
<1>3. Command(store.value, Mutated(job[h]))
  BY MutationIsLawful
<1>4. ASSUME NEW g \in Handler PROVE InStep(g)'
  <2>1. CASE g = h
    <3>1. /\ pc'[h] = "commit" /\ copy'[h].revision = store.revision
          /\ copy'[h].value = Mutated(job[h]) /\ store' = store
      BY DEF Founded, TypeOK, CheckMutation, Goto
    <3>2. store.revision \in Nat
      BY DEF Founded, LawfulRecord, Record
    <3> QED BY <1>3, <2>1, <3>1, <3>2 DEF InStep, Writing
  <2>2. CASE g # h
    BY <2>2 DEF Founded, TypeOK, CheckMutation, Goto, InStep, Ordered
  <2> QED BY <2>1, <2>2
<1> QED BY <1>2, <1>4 DEF Ordered

LEMMA TurnIsOrdered ==
  ASSUME Founded, Ordered, NEW h \in Handler, NEW value, Turn(h, value),
         Command(copy[h].value, value)
  PROVE  Ordered'
<1>1. \A g \in Handler : pc'[g] \in Writing => g # h /\ pc[g] \in Writing
  BY DEF Founded, TypeOK, Turn, Goto, Writing
<1>2. OneWriter' /\ EventsKept'
  BY <1>1 DEF Ordered, OneWriter, EventsKept, Turn
<1>3. ASSUME NEW g \in Handler PROVE InStep(g)'
  <2>1. CASE g = h
    <3>1. /\ pc'[h] = "commit" /\ copy'[h].revision = copy[h].revision
          /\ copy'[h].value = value /\ store' = store /\ pc[h] = "loop"
      BY DEF Founded, TypeOK, Turn, Goto
    <3>2. /\ copy[h].revision <= store.revision
          /\ copy[h].revision = store.revision => copy[h].value = store.value
      BY <3>1 DEF Ordered, InStep
    <3> QED BY <2>1, <3>1, <3>2 DEF InStep, Writing
  <2>2. CASE g # h
    BY <2>2 DEF Founded, TypeOK, Turn, Goto, InStep, Ordered
  <2> QED BY <2>1, <2>2
<1> QED BY <1>2, <1>3 DEF Ordered

\* Publishing and committing begin with a read of the record, which nobody
\* else is about to replace.
LEMMA ReadIsOrdered ==
  ASSUME Founded, Ordered, Exclusive, NEW h \in Handler, Publish(h) \/ ReadToCommit(h)
  PROVE  Ordered'
<1>1. /\ page' = [page EXCEPT ![h] = store] /\ UNCHANGED <<store, copy, todo>>
      /\ delivered \subseteq delivered'
      /\ \/ /\ pc[h] = "publish" /\ pc' = [pc EXCEPT ![h] = "marking"]
            /\ Min(todo[h]) \in delivered'
         \/ /\ pc[h] = "commit" /\ pc' = [pc EXCEPT ![h] = "write"]
            /\ store.revision = copy[h].revision
  BY DEF Publish, ReadToCommit, Goto, IsCurrent
<1>2. \A g \in Handler : pc'[g] \in Writing => g = h
  BY <1>1 DEF Founded, TypeOK, Publish, ReadToCommit, Free, Writing
<1>3. OneWriter'
  BY <1>2 DEF OneWriter
<1>4. EventsKept'
  BY <1>1 DEF Ordered, EventsKept
<1>5. ASSUME NEW g \in Handler PROVE InStep(g)'
  <2>1. CASE g = h
    BY <1>1, <2>1 DEF Founded, TypeOK, InStep, Writing, Ordered
  <2>2. CASE g # h
    BY <1>1, <2>2 DEF Founded, TypeOK, InStep, Ordered
  <2> QED BY <2>1, <2>2
<1> QED BY <1>3, <1>4, <1>5 DEF Ordered

LEMMA WriteMarkIsOrdered ==
  ASSUME Founded, Ordered, NEW h \in Handler, WriteMark(h)
  PROVE  Ordered' /\ store'.value = store.value
<1> DEFINE e == Min(todo[h])
<1>1. page[h] = store /\ e \in delivered /\ \A g \in Handler \ {h} : pc[g] \notin Writing
  BY DEF Ordered, OneWriter, InStep, WriteMark, Writing
<1>2. /\ store'.revision = store.revision /\ store'.value = store.value
      /\ store'.pending = store.pending \ {e}
  BY <1>1 DEF WriteMark, Marked, Founded, LawfulRecord, Record
<1> HIDE DEF e
<1>3. /\ pc'[h] \in {"publish", "idle", "load", "loop"}
      /\ \A g \in Handler \ {h} : pc'[g] = pc[g]
  BY DEF Founded, TypeOK, LawfulHandler, WriteMark, MarkDone, Goto
<1>4. OneWriter'
  BY <1>1, <1>3 DEF OneWriter, Writing
<1>5. EventsKept'
  BY <1>1, <1>2 DEF Ordered, EventsKept, WriteMark
<1>6. ASSUME NEW g \in Handler PROVE InStep(g)'
  <2>1. copy' = copy /\ delivered' = delivered /\ pc[h] = "marking"
    BY DEF WriteMark
  <2>2. CASE g = h
    BY <1>2, <1>3, <2>1, <2>2 DEF InStep, Writing, Ordered
  <2>3. CASE g # h
    BY <1>1, <1>2, <1>3, <2>1, <2>3 DEF InStep, Writing, Ordered
  <2> QED BY <2>2, <2>3
<1> QED BY <1>2, <1>4, <1>5, <1>6 DEF Ordered

LEMMA WriteCommitIsOrdered ==
  ASSUME Founded, Ordered, NEW h \in Handler, WriteCommit(h)
  PROVE  /\ Ordered'
         /\ store'.value = store.value \/ Command(store.value, store'.value)
<1>1. /\ page[h] = store /\ copy[h].revision = store.revision
      /\ copy[h].value = store.value \/ Command(store.value, copy[h].value)
      /\ \A g \in Handler \ {h} : pc[g] \notin Writing
  BY DEF Ordered, OneWriter, InStep, WriteCommit, Writing
<1>2. store.revision \in Nat /\ \A g \in Handler : copy[g].revision \in Nat
  BY DEF Founded, TypeOK, LawfulRecord, Record
<1>3. /\ store'.revision = store.revision + 1 /\ store'.value = copy[h].value
      /\ store'.pending = store.pending \cup {store.revision + 1}
  BY <1>1 DEF WriteCommit, Committed
<1>4. /\ pc' = [pc EXCEPT ![h] = "publish"] /\ delivered' = delivered
      /\ copy' = [copy EXCEPT ![h].revision = store.revision + 1]
  BY <1>1 DEF WriteCommit, AfterCommit, Goto
<1>5. /\ pc'[h] = "publish" /\ copy'[h].revision = store'.revision
      /\ copy'[h].value = copy[h].value
      /\ \A g \in Handler \ {h} : pc'[g] = pc[g] /\ copy'[g] = copy[g]
  BY <1>3, <1>4 DEF Founded, TypeOK
<1>6. OneWriter'
  BY <1>1, <1>5 DEF OneWriter, Writing
<1>7. EventsKept'
  <2> SUFFICES ASSUME NEW n \in 1..(store.revision + 1)
               PROVE  n \in store.pending \cup {store.revision + 1} \cup delivered
    BY <1>3, <1>4 DEF EventsKept
  <2>1. n = store.revision + 1 \/ n \in 1..store.revision
    BY <1>2
  <2> QED BY <2>1 DEF Ordered, EventsKept
<1>8. ASSUME NEW g \in Handler PROVE InStep(g)'
  <2>1. CASE g = h
    BY <1>2, <1>3, <1>5, <2>1 DEF InStep, Writing
  <2>2. CASE g # h
    <3>1. copy'[g].revision <= store.revision /\ pc'[g] \notin Writing
      BY <1>1, <1>5, <2>2 DEF Ordered, InStep
    <3>2. copy'[g].revision \in Nat
      BY <1>2, <1>5, <2>2
    <3>3. copy'[g].revision <= store'.revision /\ copy'[g].revision # store'.revision
      BY <1>2, <1>3, <3>1, <3>2
    <3> QED BY <3>1, <3>3 DEF InStep, Writing
  <2> QED BY <2>1, <2>2
<1> QED BY <1>1, <1>3, <1>6, <1>7, <1>8 DEF Ordered

\* With exclusive file operations every step keeps the handlers in step, and
\* changes the stored value by one planning command or not at all.
LEMMA NextIsOrdered ==
  ASSUME Exclusive, Founded, Ordered, [Next]_vars
  PROVE  /\ Ordered'
         /\ store'.value = store.value \/ Command(store.value, store'.value)
<1> DEFINE Good == Ordered' /\ (store'.value = store.value \/ Command(store.value, store'.value))
<1>1. ASSUME NEW h \in Handler,
             \/ StartRun(h) \/ \E r \in Request : Submit(h, r)
             \/ CheckApproval(h) \/ CheckKnownRevision(h)
      PROVE  Good
  BY <1>1, RequestIsOrdered DEF StartRun, Submit, CheckApproval, CheckKnownRevision
<1>2. ASSUME NEW h \in Handler,
             CheckFails(h) \/ Stop(h) \/ Fail(h) \/ Conflict(h)
      PROVE  Good
  BY <1>2, FinishIsOrdered DEF CheckFails, Stop, Fail, Conflict, Finish
<1>3. ASSUME NEW h \in Handler, Load(h) PROVE Good
  BY <1>3, LoadIsOrdered DEF Load
<1>4. ASSUME NEW h \in Handler, CheckMutation(h) PROVE Good
  BY <1>4, CheckMutationIsOrdered DEF CheckMutation
<1>5. ASSUME NEW h \in Handler,
             \/ Collected(h) \/ Analyzed(h)
             \/ \E s \in Subject : Generate(h, s) \/ PassGate(h, s)
      PROVE  Good
  <2>1. PICK value : Turn(h, value) /\ Command(copy[h].value, value)
    BY <1>5, TurnIsLawful
  <2>2. store' = store
    BY <2>1 DEF Turn
  <2> QED BY <2>1, <2>2, TurnIsOrdered
<1>6. ASSUME NEW h \in Handler, Publish(h) \/ ReadToCommit(h) PROVE Good
  BY <1>6, ReadIsOrdered DEF Publish, ReadToCommit
<1>7. ASSUME NEW h \in Handler, WriteMark(h) PROVE Good
  BY <1>7, WriteMarkIsOrdered
<1>8. ASSUME NEW h \in Handler, WriteCommit(h) PROVE Good
  BY <1>8, WriteCommitIsOrdered
<1>9. CASE UNCHANGED vars
  BY <1>9 DEF vars, mine, Ordered, OneWriter, EventsKept, InStep
<1> HIDE DEF Good
<1>10. ASSUME NEW h \in Handler, Serve(h) PROVE Good
  BY <1>10, <1>1, <1>2, <1>3, <1>4, <1>5, <1>6, <1>7, <1>8 DEF Serve
<1>11. Next => Good
  BY <1>1, <1>2, <1>10 DEF Next
<1> QED BY <1>9, <1>11 DEF Good

\* With exclusive file operations no committed status event is ever lost: it
\* has been published or the outbox still holds it.
THEOREM EventsAreKept == ASSUME Exclusive PROVE Spec => []EventsKept
<1>1. Init => Founded /\ Ordered
  BY InitIsFounded, InitIsOrdered
<1>2. Founded /\ Ordered /\ [Next]_vars => (Founded /\ Ordered)'
  BY NextIsFounded, NextIsOrdered
<1>3. Ordered => EventsKept
  BY DEF Ordered
<1> QED BY <1>1, <1>2, <1>3, PTL DEF Spec

\* With exclusive file operations the stored checkpoint is a run of the
\* planning aggregate: each change is one command applied to what was stored,
\* so no handler replaces what another committed.
THEOREM StoreRunsPlanning == ASSUME Exclusive PROVE Spec => ImplementsPlanning
<1>1. Init => Founded /\ Ordered /\ P!Init
  BY InitIsFounded, InitIsOrdered DEF Init, Missing, P!Init
<1>2. Founded /\ Ordered /\ [Next]_vars => (Founded /\ Ordered)'
  BY NextIsFounded, NextIsOrdered
<1>3. Founded /\ Ordered /\ [Next]_vars
        => [store'.value # store.value /\ P!Next]_(store.value)
  BY NextIsOrdered, CommandIsAStep
<1> QED BY <1>1, <1>2, <1>3, PTL DEF Spec, ImplementsPlanning

-----------------------------------------------------------------------------
(* Answers.                                                                *)

\* An aggregate with answers a, as the commands build them.
Answering(b, a) ==
  /\ "answers" \in DOMAIN b /\ b.answers = a.answers
  /\ a.answers \in [Request -> P!Answer]

LEMMA HandleKeeps ==
  ASSUME NEW a \in P!Aggregate, NEW q \in Request, P!Known(a, q), NEW r, NEW d,
         NEW already \in BOOLEAN, NEW allowed \in BOOLEAN, NEW onward,
         allowed => Answering(onward, a)
  PROVE  P!Handle(a, r, d, already, allowed, onward).answers[q] = a.answers[q]
<1>0. Answering(a, a)
  BY DEF P!Aggregate, Answering
<1>1. CASE P!Known(a, r)
  BY <1>1 DEF P!Handle
<1>2. CASE ~P!Known(a, r)
  <2>1. q # r
    BY <1>2
  <2>2. CASE already
    <3>1. P!Handle(a, r, d, already, allowed, onward) = P!Remember(a, r, TRUE, d)
      BY <1>2, <2>2 DEF P!Handle
    <3>2. P!Remember(a, r, TRUE, d).answers[q] = a.answers[q]
      BY <1>0, <2>1, <2>2 DEF P!Remember, Answering
    <3> QED BY <2>2, <3>1, <3>2
  <2>3. CASE ~already /\ allowed
    <3>1. P!Handle(a, r, d, already, allowed, onward) = P!Remember(onward, r, TRUE, d)
      BY <1>2, <2>3 DEF P!Handle
    <3>2. P!Remember(onward, r, TRUE, d).answers[q] = a.answers[q]
      BY <1>0, <2>1, <2>3 DEF P!Remember, Answering
    <3> QED BY <2>3, <3>1, <3>2
  <2>4. CASE ~already /\ ~allowed
    <3>1. P!Handle(a, r, d, already, allowed, onward) = P!Remember(a, r, FALSE, d)
      BY <1>2, <2>4 DEF P!Handle
    <3>2. P!Remember(a, r, FALSE, d).answers[q] = a.answers[q]
      BY <1>0, <2>1, <2>4 DEF P!Remember, Answering
    <3> QED BY <2>4, <3>1, <3>2
  <2> QED BY <2>2, <2>3, <2>4
<1> QED BY <1>1, <1>2

LEMMA CommandKeepsAnswers ==
  ASSUME NEW a \in P!Aggregate, NEW b, Command(a, b), NEW q \in Request, P!Known(a, q)
  PROVE  b.answers[q] = a.answers[q]
<1>1. \A status : Answering([a EXCEPT !.status = status], a)
  BY DEF P!Aggregate, Answering
<1>2. CASE \/ b = [a EXCEPT !.status = "analyzing_request"]
           \/ b = [a EXCEPT !.status = "generating_product_spec"]
  BY <1>1, <1>2 DEF Answering
<1>3. ASSUME NEW r, b = P!Reject(a, r) PROVE b.answers[q] = a.answers[q]
  <2> DEFINE onward == [a EXCEPT !.status = "cancelled"]
             already == FALSE
             allowed == a.status = "awaiting_product_spec_approval"
  <2>1. Answering(onward, a)
    BY <1>1
  <2>2. already \in BOOLEAN /\ allowed \in BOOLEAN
    OBVIOUS
  <2>3. b = P!Handle(a, r, a.pointer["project_spec"], already, allowed, onward)
    BY <1>3 DEF P!Reject
  <2> HIDE DEF onward, already, allowed
  <2> QED BY <2>1, <2>2, <2>3, HandleKeeps
<1>4. ASSUME NEW r, NEW s \in Subject, b = P!ReturnTo(a, r, s)
      PROVE  b.answers[q] = a.answers[q]
  <2> DEFINE onward == [a EXCEPT !.status = P!Generating[s]]
             already == a.status = P!Generating[s]
             allowed == a.status \in P!Reopens[s]
  <2>1. Answering(onward, a)
    BY <1>1
  <2>2. already \in BOOLEAN /\ allowed \in BOOLEAN
    OBVIOUS
  <2>3. b = P!Handle(a, r, a.pointer[s], already, allowed, onward)
    BY <1>4 DEF P!ReturnTo
  <2> HIDE DEF onward, already, allowed
  <2> QED BY <2>1, <2>2, <2>3, HandleKeeps
<1>5. ASSUME NEW r, NEW s \in Subject, NEW d, NEW basis,
             b = P!RecordVersion(a, r, s, d, basis)
      PROVE  b.answers[q] = a.answers[q]
  <2> DEFINE onward == P!Recorded(a, s, d, basis)
             already == P!Bound(a, s, basis) /\ P!MayRecord(a, s) /\ a.pointer[s] = d
             allowed == /\ P!Bound(a, s, basis) /\ P!MayRecord(a, s)
                        /\ d.version > a.pointer[s].version
  <2>1. Answering(onward, a)
    BY DEF P!Recorded, P!Aggregate, Answering
  <2>2. already \in BOOLEAN /\ allowed \in BOOLEAN
    OBVIOUS
  <2>3. b = P!Handle(a, r, d, already, allowed, onward)
    BY <1>5 DEF P!RecordVersion
  <2> HIDE DEF onward, already, allowed
  <2> QED BY <2>1, <2>2, <2>3, HandleKeeps
<1>6. ASSUME NEW r, NEW s \in Subject, NEW d, b = P!Approve(a, r, s, d)
      PROVE  b.answers[q] = a.answers[q]
  <2> DEFINE onward == P!Authorized(a, s, d)
             already == a.approval[s] = d
             allowed == P!MayApprove(a, s, d)
  <2>1. Answering(onward, a)
    BY DEF P!Authorized, P!Aggregate, Answering
  <2>2. already \in BOOLEAN /\ allowed \in BOOLEAN
    BY DEF P!MayApprove
  <2>3. b = P!Handle(a, r, d, already, allowed, onward)
    BY <1>6 DEF P!Approve
  <2> HIDE DEF onward, already, allowed
  <2> QED BY <2>1, <2>2, <2>3, HandleKeeps
<1> QED BY <1>2, <1>3, <1>4, <1>5, <1>6 DEF Command

\* With exclusive file operations a request the store has answered keeps its
\* answer, whatever the other handlers commit: what fails when a commit can be
\* lost (the run planning_lost).
THEOREM AnswersAreKept == ASSUME Exclusive PROVE Spec => AnswersStay
<1> DEFINE Keep == \A r \in Request : P!Known(store.value, r)
                     => store'.value.answers[r] = store.value.answers[r]
<1>1. Init => Founded /\ Ordered
  BY InitIsFounded, InitIsOrdered
<1>2. Founded /\ Ordered /\ [Next]_vars => (Founded /\ Ordered)'
  BY NextIsFounded, NextIsOrdered
<1>3. Founded /\ Ordered /\ [Next]_vars => Keep
  BY NextIsOrdered, CommandKeepsAnswers DEF Founded, LawfulRecord, Record
<1>4. Founded /\ Ordered /\ [Next]_vars => [Keep]_store
  BY <1>3
<1> QED BY <1>1, <1>2, <1>4, PTL DEF Spec, AnswersStay
=============================================================================
