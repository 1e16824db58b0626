------------------------ MODULE CheckpointStoreProofs ------------------------
(***************************************************************************)
(* The file store implements the in-memory store, for any number of        *)
(* writers, publishers, requests and crashes.                              *)
(*                                                                         *)
(* The invariant says what each process knows.  A writer whose copy has the*)
(* revision of the file has its log; a publisher's pending events are      *)
(* preceded by pending or published ones only; and what the lock holder has*)
(* written to its temporary file is the successor of the file, because     *)
(* nobody else can rename.  With it a rename is an abstract commit or mark,*)
(* a first delivery is the next one, and every other step stutters.        *)
(***************************************************************************)
EXTENDS CheckpointStore, TLAPS

USE DEF faults

WriterOk(w) ==
  /\ pc[w] \in {"locking", "locked"} =>
       /\ request[w] \in Request \ Receipts(copy[w])
       /\ expected[w] <= copy[w].revision
       /\ copy[w].revision <= file.revision
       /\ copy[w].revision = file.revision => copy[w].log = file.log
  /\ pc[w] = "writing" =>
       /\ request[w] \in Request \ Receipts(file)
       /\ next[w] = Store!Committed(file, request[w])

PublisherOk(p) ==
  /\ pc[p] \in {"publishing", "locking"} \cup Holding =>
       /\ pending[p] \subseteq DOMAIN file.log
       /\ \A i \in pending[p] : \A j \in 1..i : j \in pending[p] \/ j \in file.published
  /\ pc[p] \in {"publishing", "locking", "locked"} =>
       (expected[p] = file.revision => pending[p] \cap file.published = {})
  /\ pc[p] \in {"locking", "locked", "writing"} =>
       IsFirstPending(p, marking[p]) /\ marking[p] \in DOMAIN delivered
  /\ pc[p] = "writing" =>
       /\ pending[p] \cap file.published = {}
       /\ next[p] = Store!Marked(file, marking[p])
  /\ pc[p] = "saved" =>
       /\ marking[p] \in file.published
       /\ pending[p] \cap file.published \subseteq {marking[p]}
       /\ next[p] = file

ProcessOk(p) ==
  /\ expected[p] <= file.revision
  /\ p \in Writer => WriterOk(p)
  /\ p \in Publisher => PublisherOk(p)

Inv ==
  /\ TypeOK
  /\ LockIsExclusive
  /\ file.revision = 0 => file.log = <<>>
  /\ \A p \in Process : ProcessOk(p)
  /\ OutboxInOrder
  /\ Len(delivered) <= Len(file.log)
  /\ AppliedOnce

-----------------------------------------------------------------------------
(* Records.                                                                 *)

LEMMA MissingIsRecord == Missing \in Record
BY DEF Missing, Record, Store!Missing, Store!Record

(* A commit adds one request to the log, a mark adds one published event.   *)
LEMMA CommittedRecord ==
  ASSUME NEW f \in Record, NEW r \in Request
  PROVE  /\ Store!Committed(f, r) \in Record
         /\ Store!Committed(f, r).revision = f.revision + 1
         /\ Store!Committed(f, r).published = f.published
         /\ Len(Store!Committed(f, r).log) = Len(f.log) + 1
         /\ \A i \in DOMAIN f.log : Store!Committed(f, r).log[i] = f.log[i]
         /\ Store!Committed(f, r).log[Len(f.log) + 1] = r
         /\ DOMAIN f.log = 1..Len(f.log)
         /\ DOMAIN Store!Committed(f, r).log = 1..(Len(f.log) + 1)
BY DEF Record, Store!Record, Store!Committed

LEMMA MarkedRecord ==
  ASSUME NEW f \in Record, NEW i \in Nat
  PROVE  /\ Store!Marked(f, i) \in Record
         /\ Store!Marked(f, i).revision = f.revision + 1
         /\ Store!Marked(f, i).published = f.published \cup {i}
         /\ Store!Marked(f, i).log = f.log
BY DEF Record, Store!Record, Store!Marked

LEMMA RecordFields ==
  ASSUME NEW f \in Record
  PROVE  /\ f.revision \in Nat /\ f.published \subseteq Nat
         /\ Len(f.log) \in Nat /\ DOMAIN f.log = 1..Len(f.log)
BY DEF Record, Store!Record

-----------------------------------------------------------------------------
(* Bystanders: what a process knows survives the steps of the others.       *)

Keeps(r) ==
  /\ pc'[r] = pc[r] /\ expected'[r] = expected[r] /\ next'[r] = next[r]
  /\ r \in Writer => copy'[r] = copy[r] /\ request'[r] = request[r]
  /\ r \in Publisher => pending'[r] = pending[r] /\ marking'[r] = marking[r]

LEMMA QuietBystander ==
  ASSUME NEW r \in Process, ProcessOk(r), Keeps(r),
         file' = file, DOMAIN delivered \subseteq DOMAIN delivered'
  PROVE  ProcessOk(r)'
<1>1. (expected[r] <= file.revision)'
  BY DEF ProcessOk, Keeps
<1>2. ASSUME r \in Writer PROVE WriterOk(r)'
  BY <1>2 DEF ProcessOk, WriterOk, Keeps, Receipts
<1>3. ASSUME r \in Publisher PROVE PublisherOk(r)'
  BY <1>3 DEF ProcessOk, PublisherOk, Keeps, IsFirstPending
<1> QED BY <1>1, <1>2, <1>3 DEF ProcessOk

(* A rename moves the file to its successor, which every copy of an older   *)
(* revision is told apart from by its revision.                             *)
LEMMA RenamedFile ==
  ASSUME Inv, NEW p \in Process, Rename(p)
  PROVE  /\ file' \in Record
         /\ file'.revision = file.revision + 1
         /\ file.published \subseteq file'.published
         /\ DOMAIN file.log \subseteq DOMAIN file'.log
         /\ lock = p
         /\ file' = next[p]
         /\ p \in Writer => file' = Store!Committed(file, request[p])
         /\ p \in Publisher => file' = Store!Marked(file, marking[p])
         /\ p \in Publisher => marking[p] \in Nat
<1>1. pc[p] = "writing" /\ file' = next[p] /\ file \in Record
  BY DEF Rename, Inv, TypeOK
<1>2. lock = p
  BY <1>1 DEF Inv, LockIsExclusive, Holding
<1>3. CASE p \in Writer
  <2>1. request[p] \in Request /\ next[p] = Store!Committed(file, request[p])
    BY <1>1, <1>3 DEF Inv, ProcessOk, WriterOk
  <2>2. p \notin Publisher
    BY <1>3, ProcessAssumption
  <2> QED BY <1>1, <1>2, <2>1, <2>2, CommittedRecord
<1>4. CASE p \in Publisher
  <2>1. marking[p] \in Nat /\ next[p] = Store!Marked(file, marking[p])
    BY <1>1, <1>4 DEF Inv, TypeOK, ProcessOk, PublisherOk
  <2>2. p \notin Writer
    BY <1>4, ProcessAssumption
  <2> QED BY <1>1, <1>2, <2>1, <2>2, MarkedRecord
<1> QED BY <1>3, <1>4 DEF Process

LEMMA RenameBystander ==
  ASSUME Inv, NEW p \in Process, Rename(p), NEW r \in Process, r # p
  PROVE  ProcessOk(r)'
<1>1. /\ pc'[r] = pc[r] /\ expected' = expected /\ copy' = copy /\ request' = request
      /\ pending' = pending /\ marking' = marking /\ next' = next
      /\ delivered' = delivered /\ pc \in [Process -> Counter]
  BY DEF Rename, locals, Goto, Inv, TypeOK
<1>2. /\ file'.revision = file.revision + 1 /\ file.published \subseteq file'.published
      /\ DOMAIN file.log \subseteq DOMAIN file'.log /\ lock = p
  BY RenamedFile
<1>3. pc[r] \notin Holding
  BY <1>2 DEF Inv, LockIsExclusive
<1>4. ProcessOk(r) /\ expected[r] \in Nat /\ file.revision \in Nat
  BY RecordFields DEF Inv, TypeOK
<1>5. (expected[r] <= file.revision)'
  BY <1>1, <1>2, <1>4 DEF ProcessOk
<1>6. ASSUME r \in Writer PROVE WriterOk(r)'
  <2>1. copy[r].revision \in Nat
    BY <1>6, RecordFields DEF Inv, TypeOK
  <2> QED BY <1>1, <1>2, <1>3, <1>4, <1>6, <2>1 DEF ProcessOk, WriterOk, Holding, Receipts
<1>7. ASSUME r \in Publisher PROVE PublisherOk(r)'
  BY <1>1, <1>2, <1>3, <1>4, <1>7 DEF ProcessOk, PublisherOk, Holding, IsFirstPending
<1> QED BY <1>5, <1>6, <1>7 DEF ProcessOk

-----------------------------------------------------------------------------
(* Steps that leave the file alone: they deliver the next event or nothing. *)

LEMMA Delivery ==
  ASSUME Inv, file' = file, delivered' = delivered \/ Store!Deliver
  PROVE  /\ delivered' \in Seq(Nat)
         /\ DOMAIN delivered \subseteq DOMAIN delivered'
         /\ OutboxInOrder'
         /\ Len(delivered') <= Len(file.log)
<1>1. /\ delivered \in Seq(Nat) /\ OutboxInOrder /\ Len(delivered) <= Len(file.log)
      /\ Len(file.log) \in Nat /\ Len(delivered) \in Nat
  BY RecordFields DEF Inv, TypeOK
<1>2. CASE delivered' = delivered
  BY <1>1, <1>2 DEF OutboxInOrder
<1>3. CASE Store!Deliver
  <2>1. delivered' = Append(delivered, Len(delivered) + 1) /\ Len(delivered) < Len(file.log)
    BY <1>3 DEF Store!Deliver
  <2>2. /\ delivered' \in Seq(Nat) /\ Len(delivered') = Len(delivered) + 1
        /\ DOMAIN delivered = 1..Len(delivered)
        /\ DOMAIN delivered' = 1..(Len(delivered) + 1)
        /\ \A i \in 1..Len(delivered) : delivered'[i] = delivered[i]
        /\ delivered'[Len(delivered) + 1] = Len(delivered) + 1
    BY <1>1, <2>1
  <2>3. \A i \in DOMAIN delivered' : delivered'[i] = i
    BY <1>1, <2>2 DEF OutboxInOrder
  <2>4. DOMAIN delivered \subseteq DOMAIN delivered'
    BY <2>2
  <2>5. OutboxInOrder'
    BY <1>1, <2>3, <2>4 DEF OutboxInOrder
  <2>6. Len(delivered') <= Len(file.log)
    <3>1. Len(delivered) + 1 <= Len(file.log)
      BY <1>1, <2>1
    <3> QED BY <2>2, <3>1
  <2> QED BY <2>2, <2>4, <2>5, <2>6
<1> QED BY <1>2, <1>3

LEMMA LockKept ==
  ASSUME Inv, NEW p \in Process,
         \A r \in Process \ {p} : pc'[r] = pc[r],
         \/ lock' = lock
         \/ lock = NoOne
         \/ lock = p,
         pc'[p] \in Holding => lock' = p
  PROVE  LockIsExclusive'
<1>1. ASSUME NEW r \in Process, pc'[r] \in Holding, r # p PROVE lock' = r
  <2>1. lock = r
    BY <1>1 DEF Inv, LockIsExclusive
  <2> QED BY <2>1, <1>1, ProcessAssumption
<1> QED BY <1>1 DEF LockIsExclusive

LEMMA QuietStep ==
  ASSUME Inv, NEW p \in Process, file' = file, delivered' = delivered \/ Store!Deliver,
         TypeOK', LockIsExclusive', ProcessOk(p)', \A r \in Process \ {p} : Keeps(r)
  PROVE  Inv'
<1>1. ASSUME NEW r \in Process PROVE ProcessOk(r)'
  BY QuietBystander, Delivery, <1>1 DEF Inv
<1>2. OutboxInOrder' /\ AppliedOnce' /\ (Len(delivered) <= Len(file.log))'
      /\ (file.revision = 0 => file.log = <<>>)'
  BY Delivery DEF Inv, AppliedOnce
<1> QED BY <1>1, <1>2 DEF Inv

LEMMA ReturnStep ==
  ASSUME Inv, NEW p \in Process, Return(p), file' = file,
         delivered' = delivered \/ Store!Deliver,
         \/ lock' = lock
         \/ lock = p /\ lock' = NoOne,
         crashes' \in Nat /\ orphaned' \in BOOLEAN
  PROVE  Inv'
<1>1. TypeOK'
  <2>1. /\ pc' \in [Process -> Counter] /\ expected' \in [Process -> Nat]
        /\ next' \in [Process -> Record]
    BY MissingIsRecord DEF Inv, TypeOK, Return, Goto, Counter
  <2>2. copy' \in [Writer -> Record] /\ request' \in [Writer -> Request \cup {NoRequest}]
    BY MissingIsRecord DEF Inv, TypeOK, Return
  <2>3. pending' \in [Publisher -> SUBSET Nat] /\ marking' \in [Publisher -> Nat]
    BY DEF Inv, TypeOK, Return
  <2>4. lock' \in Process \cup {NoOne}
    BY DEF Inv, TypeOK
  <2> QED BY <2>1, <2>2, <2>3, <2>4, Delivery DEF Inv, TypeOK
<1>2. pc'[p] = "idle" /\ expected'[p] = 0
  BY DEF Inv, TypeOK, Return, Goto
<1>3. ASSUME NEW r \in Process \ {p} PROVE Keeps(r)
  BY <1>3 DEF Inv, TypeOK, Return, Goto, Keeps, Process
<1>4. ProcessOk(p)'
  <2>1. file.revision \in Nat
    BY RecordFields DEF Inv, TypeOK
  <2> QED BY <1>2, <2>1 DEF ProcessOk, WriterOk, PublisherOk, Holding
<1>5. LockIsExclusive'
  BY <1>2, <1>3, LockKept DEF Keeps, Holding
<1> QED BY <1>1, <1>3, <1>4, <1>5, QuietStep

LEMMA BindStep == ASSUME Inv, NEW w \in Writer, Bind(w) PROVE Inv'
<1>w. w \in Process /\ w \notin Publisher
  BY ProcessAssumption DEF Process
<1>r. file.revision \in Nat
  BY RecordFields DEF Inv, TypeOK
<1>1. TypeOK'
  BY <1>w, <1>r DEF Inv, TypeOK, Bind, Goto, Counter
<1>2. pc'[w] = "bound" /\ expected'[w] = file.revision
  BY <1>w DEF Inv, TypeOK, Bind, Goto
<1>3. ASSUME NEW r \in Process \ {w} PROVE Keeps(r)
  BY <1>w DEF Inv, TypeOK, Bind, Goto, Keeps
<1>4. ProcessOk(w)'
  BY <1>w, <1>r, <1>2 DEF ProcessOk, WriterOk, Bind, Holding
<1>5. LockIsExclusive'
  BY <1>w, <1>2, <1>3, LockKept DEF Keeps, Holding, Bind
<1> QED BY <1>w, <1>1, <1>3, <1>4, <1>5, QuietStep DEF Bind

LEMMA MutateStep == ASSUME Inv, NEW w \in Writer, NEW r \in Request, Mutate(w, r) PROVE Inv'
<1>w. w \in Process /\ w \notin Publisher
  BY ProcessAssumption DEF Process
<1>b. Base(w) \in Record /\ Base(w).revision <= file.revision
      /\ expected[w] <= Base(w).revision
      /\ (Base(w).revision = file.revision => Base(w).log = file.log)
  <2>1. file \in Record /\ expected[w] <= file.revision /\ file.revision \in Nat
    BY <1>w, RecordFields DEF Inv, TypeOK, ProcessOk
  <2>2. Missing.revision = 0 /\ Missing.log = <<>>
    BY DEF Missing, Store!Missing
  <2> QED BY <2>1, <2>2, MissingIsRecord DEF Base, Inv
<1>1. TypeOK'
  BY <1>w, <1>b DEF Inv, TypeOK, Mutate, Goto, Counter
<1>2. pc'[w] = "locking" /\ expected' = expected /\ copy'[w] = Base(w) /\ request'[w] = r
  BY <1>w DEF Inv, TypeOK, Mutate, Goto
<1>3. ASSUME NEW q \in Process \ {w} PROVE Keeps(q)
  BY <1>w DEF Inv, TypeOK, Mutate, Goto, Keeps
<1>4. ProcessOk(w)'
  <2>1. r \notin Receipts(Base(w)) /\ file' = file /\ expected[w] <= file.revision
    BY <1>w DEF Mutate, Inv, ProcessOk
  <2> QED BY <1>w, <1>b, <1>2, <2>1 DEF ProcessOk, WriterOk, Receipts
<1>5. LockIsExclusive'
  BY <1>w, <1>2, <1>3, LockKept DEF Keeps, Holding, Mutate
<1> QED BY <1>w, <1>1, <1>3, <1>4, <1>5, QuietStep DEF Mutate

LEMMA ReadRevisionStep == ASSUME Inv, NEW p \in Publisher, ReadRevision(p) PROVE Inv'
<1>p. p \in Process /\ p \notin Writer
  BY ProcessAssumption DEF Process
<1>r. file.revision \in Nat
  BY RecordFields DEF Inv, TypeOK
<1>1. TypeOK'
  BY <1>p, <1>r DEF Inv, TypeOK, ReadRevision, Goto, Counter
<1>2. pc'[p] = "bound" /\ expected'[p] = file.revision
  BY <1>p DEF Inv, TypeOK, ReadRevision, Goto
<1>3. ASSUME NEW r \in Process \ {p} PROVE Keeps(r)
  BY <1>p DEF Inv, TypeOK, ReadRevision, Goto, Keeps
<1>4. ProcessOk(p)'
  BY <1>p, <1>r, <1>2 DEF ProcessOk, PublisherOk, ReadRevision, Holding
<1>5. LockIsExclusive'
  BY <1>p, <1>2, <1>3, LockKept DEF Keeps, Holding, ReadRevision
<1> QED BY <1>p, <1>1, <1>3, <1>4, <1>5, QuietStep DEF ReadRevision

LEMMA ReadOutboxStep == ASSUME Inv, NEW p \in Publisher, ReadOutbox(p) PROVE Inv'
<1>p. p \in Process /\ p \notin Writer
  BY ProcessAssumption DEF Process
<1>r. DOMAIN file.log = 1..Len(file.log) /\ Len(file.log) \in Nat
  BY RecordFields DEF Inv, TypeOK
<1>1. TypeOK'
  BY <1>p, <1>r DEF Inv, TypeOK, ReadOutbox, Goto, Counter
<1>2. /\ pc'[p] = "publishing" /\ expected' = expected /\ file' = file
      /\ pending'[p] = DOMAIN file.log \ file.published
  BY <1>p DEF Inv, TypeOK, ReadOutbox, Goto
<1>3. ASSUME NEW r \in Process \ {p} PROVE Keeps(r)
  BY <1>p DEF Inv, TypeOK, ReadOutbox, Goto, Keeps
<1>4. ProcessOk(p)'
  <2>1. expected[p] <= file.revision
    BY <1>p DEF Inv, ProcessOk
  <2>2. \A i \in pending'[p] : \A j \in 1..i : j \in pending'[p] \/ j \in file'.published
    BY <1>r, <1>2
  <2> QED BY <1>p, <1>2, <2>1, <2>2 DEF ProcessOk, PublisherOk, Holding
<1>5. LockIsExclusive'
  BY <1>p, <1>2, <1>3, LockKept DEF Keeps, Holding, ReadOutbox
<1> QED BY <1>p, <1>1, <1>3, <1>4, <1>5, QuietStep DEF ReadOutbox

LEMMA LockStep == ASSUME Inv, NEW p \in Process, Lock(p) PROVE Inv'
<1>1. TypeOK'
  BY DEF Inv, TypeOK, Lock, locals, Goto, Counter, Holding
<1>2. pc[p] = "locking" /\ pc'[p] = "locked" /\ file' = file
  BY DEF Inv, TypeOK, Lock, Goto
<1>3. ASSUME NEW r \in Process \ {p} PROVE Keeps(r)
  BY DEF Inv, TypeOK, Lock, locals, Goto, Keeps
<1>4. ProcessOk(p)'
  <2>1. ProcessOk(p) /\ expected' = expected /\ next' = next /\ copy' = copy
        /\ request' = request /\ pending' = pending /\ marking' = marking
        /\ delivered' = delivered
    BY DEF Inv, Lock, locals
  <2> QED BY <1>2, <2>1 DEF ProcessOk, WriterOk, PublisherOk, Holding, IsFirstPending, Receipts
<1>5. LockIsExclusive'
  BY <1>2, <1>3, LockKept DEF Keeps, Lock
<1> QED BY <1>1, <1>3, <1>4, <1>5, QuietStep DEF Lock

LEMMA WriteTemporaryStep == ASSUME Inv, NEW p \in Process, WriteTemporary(p) PROVE Inv'
<1>0. /\ pc[p] = "locked" /\ file.revision = expected[p] /\ ProcessOk(p) /\ lock = p
      /\ file \in Record /\ pc'[p] = "writing" /\ next'[p] = Replacement(p)
      /\ \A r \in Process \ {p} : pc'[r] = pc[r] /\ next'[r] = next[r]
      /\ file' = file /\ lock' = lock /\ expected' = expected /\ copy' = copy
      /\ request' = request /\ pending' = pending /\ marking' = marking
      /\ delivered' = delivered /\ crashes' = crashes
  BY DEF Inv, TypeOK, LockIsExclusive, Holding, WriteTemporary, Current, Goto
<1>1. ASSUME p \in Writer
      PROVE  request[p] \in Request \ Receipts(file)
             /\ Replacement(p) = Store!Committed(file, request[p])
  <2>1. /\ copy[p].revision = file.revision /\ copy[p].log = file.log
        /\ request[p] \in Request \ Receipts(copy[p])
    <3>1. /\ expected[p] <= copy[p].revision /\ copy[p].revision <= file.revision
          /\ copy[p].revision = file.revision => copy[p].log = file.log
          /\ request[p] \in Request \ Receipts(copy[p])
      BY <1>0, <1>1 DEF ProcessOk, WriterOk
    <3>2. copy[p].revision \in Nat /\ file.revision \in Nat
      BY <1>1, RecordFields DEF Inv, TypeOK
    <3> QED BY <1>0, <3>1, <3>2
  <2>2. request[p] \notin Receipts(file)
    BY <2>1 DEF Receipts, Store!Receipts
  <2> QED BY <1>1, <2>1, <2>2 DEF Replacement, Store!Committed
<1>2. ASSUME p \in Publisher
      PROVE  Replacement(p) = Store!Marked(file, marking[p]) /\ marking[p] \in Nat
  BY <1>2, ProcessAssumption DEF Replacement, Inv, TypeOK
<1>3. TypeOK'
  <2>1. Replacement(p) \in Record
    BY <1>0, <1>1, <1>2, CommittedRecord, MarkedRecord DEF Process
  <2> QED BY <2>1 DEF Inv, TypeOK, WriteTemporary, Goto, Counter, Holding
<1>4. ASSUME NEW r \in Process \ {p} PROVE Keeps(r)
  BY <1>0 DEF Keeps
<1>5. ProcessOk(p)'
  <2>1. ASSUME p \in Writer PROVE WriterOk(p)'
    BY <1>0, <1>1, <2>1 DEF WriterOk, Receipts, Store!Receipts, Store!Committed
  <2>2. ASSUME p \in Publisher PROVE PublisherOk(p)'
    BY <1>0, <1>2, <2>2 DEF ProcessOk, PublisherOk, Holding, IsFirstPending, Store!Marked
  <2>3. (expected[p] <= file.revision)'
    BY <1>0 DEF ProcessOk
  <2> QED BY <2>1, <2>2, <2>3 DEF ProcessOk
<1>6. LockIsExclusive'
  BY <1>0, LockKept
<1> QED BY <1>0, <1>3, <1>4, <1>5, <1>6, QuietStep

(* A conflict or a failed write leaves the lock holder with nothing to write.*)
LEMMA FailedStep ==
  ASSUME Inv, NEW p \in Process, Conflict(p) \/ WriteFails(p)
  PROVE  Inv'
<1>0. /\ pc[p] \in {"locked", "writing"} /\ ProcessOk(p) /\ lock = p /\ pc'[p] = "failed"
      /\ \A r \in Process \ {p} : pc'[r] = pc[r]
      /\ file' = file /\ lock' = lock /\ expected' = expected /\ copy' = copy
      /\ request' = request /\ pending' = pending /\ marking' = marking
      /\ next' = next /\ delivered' = delivered
  BY DEF Inv, TypeOK, LockIsExclusive, Holding, Conflict, WriteFails, Goto, locals
<1>1. TypeOK'
  BY DEF Inv, TypeOK, Conflict, WriteFails, locals, Goto, Counter, Holding
<1>2. ASSUME NEW r \in Process \ {p} PROVE Keeps(r)
  BY <1>0 DEF Keeps
<1>3. ProcessOk(p)'
  BY <1>0 DEF ProcessOk, WriterOk, PublisherOk, Holding
<1>4. LockIsExclusive'
  BY <1>0, LockKept
<1> QED BY <1>0, <1>1, <1>2, <1>3, <1>4, QuietStep

LEMMA UnlockAfterMarkStep ==
  ASSUME Inv, NEW p \in Process, UnlockAfterMark(p)
  PROVE  Inv'
<1>p. p \in Publisher /\ p \notin Writer
  BY ProcessAssumption DEF UnlockAfterMark
<1>0. /\ pc[p] = "saved" /\ PublisherOk(p) /\ lock = p /\ file \in Record
      /\ pc'[p] = "publishing" /\ file' = file /\ delivered' = delivered
      /\ expected'[p] = next[p].revision /\ pending'[p] = pending[p] \ {marking[p]}
  BY <1>p DEF Inv, TypeOK, LockIsExclusive, Holding, UnlockAfterMark, Goto, ProcessOk
<1>1. next[p] = file /\ file.revision \in Nat
  BY <1>0, RecordFields DEF PublisherOk
<1>2. TypeOK'
  BY <1>p, <1>1, MissingIsRecord
     DEF Inv, TypeOK, UnlockAfterMark, RemoveLock, LeaveLock, Goto, Counter
<1>3. ASSUME NEW r \in Process \ {p} PROVE Keeps(r)
  BY <1>p DEF Inv, TypeOK, UnlockAfterMark, Goto, Keeps
<1>4. ProcessOk(p)'
  <2>1. PublisherOk(p)'
    BY <1>0, <1>1 DEF PublisherOk, Holding
  <2> QED BY <1>p, <1>0, <1>1, <2>1 DEF ProcessOk
<1>5. LockIsExclusive'
  BY <1>0, <1>3, LockKept DEF Keeps, Holding
<1> QED BY <1>0, <1>2, <1>3, <1>4, <1>5, QuietStep

(* The first pending event is the next to be delivered, unless consumers have*)
(* seen it: the events before it are published, hence delivered.            *)
LEMMA FirstPending ==
  ASSUME Inv, NEW p \in Publisher, pc[p] = "publishing", NEW i \in pending[p],
         IsFirstPending(p, i)
  PROVE  /\ DeliverTo(i) /\ file' = file => delivered' = delivered \/ Store!Deliver
         /\ DeliverTo(i) => i \in DOMAIN delivered'
<1>1. /\ file \in Record /\ delivered \in Seq(Nat) /\ Len(delivered) \in Nat
      /\ DOMAIN delivered = 1..Len(delivered) /\ DOMAIN file.log = 1..Len(file.log)
      /\ Len(file.log) \in Nat /\ PublisherOk(p)
  BY RecordFields DEF Inv, TypeOK, ProcessOk, Process
<1>2. i \in 1..Len(file.log) /\ \A j \in 1..i : j \in pending[p] \/ j \in file.published
  BY <1>1 DEF PublisherOk
<1>3. \A j \in 1..(i - 1) : j \in 1..Len(delivered)
  <2> SUFFICES ASSUME NEW j \in 1..(i - 1) PROVE j \in 1..Len(delivered)
    OBVIOUS
  <2>1. j \in 1..i /\ ~(i <= j)
    BY <1>1, <1>2
  <2>2. j \notin pending[p]
    BY <2>1 DEF IsFirstPending
  <2>3. j \in file.published
    BY <1>2, <2>1, <2>2
  <2> QED BY <1>1, <2>3 DEF Inv, OutboxInOrder
<1>4. i <= Len(delivered) + 1
  <2>1. CASE i = 1
    BY <1>1, <2>1
  <2>2. CASE i > 1
    <3>1. i - 1 \in 1..(i - 1)
      BY <1>1, <1>2, <2>2
    <3> QED BY <1>1, <1>2, <1>3, <3>1
  <2> QED BY <1>1, <1>2, <2>1, <2>2
<1>5. Seen = 1..Len(delivered)
  BY <1>1 DEF Seen, Inv, OutboxInOrder
<1>6. CASE i \in 1..Len(delivered)
  BY <1>1, <1>5, <1>6 DEF DeliverTo
<1>7. CASE i = Len(delivered) + 1
  <2>1. i \notin Seen
    BY <1>1, <1>5, <1>7
  <2>2. DeliverTo(i) => delivered' = Append(delivered, Len(delivered) + 1)
    BY <1>7, <2>1 DEF DeliverTo
  <2>3. DeliverTo(i) => i \in DOMAIN delivered'
    BY <1>1, <1>7, <2>2
  <2> QED BY <1>1, <1>2, <1>7, <2>2, <2>3 DEF Store!Deliver
<1> QED BY <1>1, <1>2, <1>4, <1>6, <1>7

LEMMA PublishStep ==
  ASSUME Inv, NEW p \in Publisher, Publish(p)
  PROVE  Inv' /\ (delivered' = delivered \/ Store!Deliver)
<1>p. p \in Process /\ p \notin Writer
  BY ProcessAssumption DEF Process
<1> PICK i \in pending[p] :
      /\ pc[p] = "publishing" /\ IsFirstPending(p, i) /\ DeliverTo(i) /\ Goto(p, "locking")
      /\ marking' = [marking EXCEPT ![p] = i]
      /\ UNCHANGED <<file, lock, expected, copy, request, pending, next, faults>>
  BY DEF Publish
<1>0. delivered' = delivered \/ Store!Deliver
  BY FirstPending
<1>1. TypeOK'
  BY <1>p, <1>0, Delivery DEF Inv, TypeOK, Goto, Counter
<1>2. pc'[p] = "locking" /\ marking'[p] = i /\ i \in DOMAIN delivered'
  BY <1>p, FirstPending DEF Inv, TypeOK, Goto
<1>3. ASSUME NEW r \in Process \ {p} PROVE Keeps(r)
  BY <1>p DEF Inv, TypeOK, Goto, Keeps
<1>4. ProcessOk(p)'
  <2>1. ProcessOk(p)
    BY <1>p DEF Inv
  <2> QED BY <1>p, <1>2, <2>1 DEF ProcessOk, PublisherOk, Holding, IsFirstPending
<1>5. LockIsExclusive'
  BY <1>p, <1>2, <1>3, LockKept DEF Keeps, Holding
<1> QED BY <1>p, <1>0, <1>1, <1>3, <1>4, <1>5, QuietStep

LEMMA PublishFailsStep ==
  ASSUME Inv, NEW p \in Publisher, PublishFails(p)
  PROVE  Inv' /\ (delivered' = delivered \/ Store!Deliver)
<1>1. delivered' = delivered \/ Store!Deliver
  BY FirstPending DEF PublishFails
<1> QED BY <1>1, ReturnStep DEF PublishFails, Inv, TypeOK, Process

-----------------------------------------------------------------------------
(* A rename installs the successor of the file.                             *)

LEMMA RenameStep ==
  ASSUME Inv, NEW p \in Process, Rename(p)
  PROVE  Inv'
<1>0. /\ pc[p] = "writing" /\ file' = next[p] /\ pc'[p] = "saved" /\ ProcessOk(p)
      /\ \A r \in Process \ {p} : pc'[r] = pc[r]
      /\ lock' = lock /\ expected' = expected /\ copy' = copy /\ request' = request
      /\ pending' = pending /\ marking' = marking /\ next' = next
      /\ delivered' = delivered /\ crashes' = crashes
      /\ file \in Record /\ file.revision \in Nat
  BY RecordFields DEF Inv, TypeOK, Rename, Goto, locals
<1>1. /\ file' \in Record /\ file'.revision = file.revision + 1 /\ lock = p
      /\ p \in Writer => file' = Store!Committed(file, request[p])
      /\ p \in Publisher => file' = Store!Marked(file, marking[p]) /\ marking[p] \in Nat
  BY RenamedFile
<1>m. ASSUME p \in Publisher
      PROVE  /\ marking[p] \in pending[p] /\ marking[p] \in DOMAIN delivered
             /\ marking[p] \in DOMAIN file.log /\ pending[p] \cap file.published = {}
             /\ \A j \in 1..marking[p] : j = marking[p] \/ j \in file.published
  <2>1. /\ IsFirstPending(p, marking[p]) /\ marking[p] \in DOMAIN delivered
        /\ pending[p] \cap file.published = {} /\ pending[p] \subseteq DOMAIN file.log
        /\ \A i \in pending[p] : \A j \in 1..i : j \in pending[p] \/ j \in file.published
    BY <1>0, <1>m DEF ProcessOk, PublisherOk, Holding
  <2>2. ASSUME NEW j \in 1..marking[p], j \notin file.published PROVE j = marking[p]
    BY <1>1, <1>m, <2>1, <2>2 DEF IsFirstPending
  <2> QED BY <2>1, <2>2 DEF IsFirstPending
<1>l. /\ DOMAIN file.log = 1..Len(file.log) /\ Len(file.log) \in Nat
      /\ DOMAIN file'.log = 1..Len(file'.log) /\ Len(file'.log) \in Nat
      /\ Len(file.log) <= Len(file'.log)
  <2>1. p \in Writer => Len(file'.log) = Len(file.log) + 1
    BY <1>0, <1>1, CommittedRecord DEF ProcessOk, WriterOk
  <2>2. p \in Publisher => Len(file'.log) = Len(file.log)
    BY <1>0, <1>1, MarkedRecord
  <2> QED BY <1>0, <1>1, <2>1, <2>2, RecordFields DEF Process
<1>2. OutboxInOrder'
  <2>1. CASE p \in Writer
    <3>1. file'.published = file.published
      BY <1>1, <2>1 DEF Store!Committed
    <3> QED BY <1>0, <3>1 DEF Inv, OutboxInOrder
  <2>2. CASE p \in Publisher
    <3>1. file'.published = file.published \cup {marking[p]}
      BY <1>0, <1>1, <2>2, MarkedRecord
    <3>2. 1..marking[p] \subseteq file'.published
      BY <1>m, <2>2, <3>1
    <3>3. file'.published \subseteq DOMAIN delivered
      BY <1>m, <2>2, <3>1 DEF Inv, OutboxInOrder
    <3> QED BY <1>0, <3>1, <3>2, <3>3 DEF Inv, OutboxInOrder
  <2> QED BY <2>1, <2>2 DEF Process
<1>3. TypeOK'
  <2>1. file'.published \subseteq DOMAIN file'.log
    <3>1. delivered' = delivered /\ DOMAIN delivered = 1..Len(delivered)
          /\ Len(delivered) \in Nat /\ Len(delivered) <= Len(file.log)
      BY <1>0 DEF Inv, TypeOK
    <3>2. file'.published \subseteq DOMAIN delivered
      BY <1>2, <3>1 DEF OutboxInOrder
    <3> QED BY <1>l, <3>1, <3>2
  <2> QED BY <1>1, <2>1 DEF Inv, TypeOK, Rename, locals, Goto, Counter, Holding
<1>4. AppliedOnce'
  <2>1. CASE p \in Writer
    <3>1. request[p] \in Request /\ request[p] \notin Receipts(file)
      BY <1>0, <2>1 DEF ProcessOk, WriterOk
    <3>2. /\ Len(file'.log) = Len(file.log) + 1
          /\ \A i \in DOMAIN file.log : file'.log[i] = file.log[i]
          /\ file'.log[Len(file.log) + 1] = request[p]
      BY <1>0, <1>1, <2>1, <3>1, CommittedRecord
    <3>3. \A i \in DOMAIN file.log : file.log[i] # request[p]
      BY <3>1 DEF Receipts, Store!Receipts
    <3>4. \A i, j \in DOMAIN file.log : file.log[i] = file.log[j] => i = j
      BY DEF Inv, AppliedOnce
    <3>5. \A i \in DOMAIN file'.log : i \in DOMAIN file.log \/ i = Len(file.log) + 1
      BY <1>l, <3>2
    <3> QED BY <3>2, <3>3, <3>4, <3>5 DEF AppliedOnce
  <2>2. CASE p \in Publisher
    BY <1>1, <2>2 DEF Inv, AppliedOnce, Store!Marked
  <2> QED BY <2>1, <2>2 DEF Process
<1>5. ProcessOk(p)'
  <2>1. (expected[p] <= file.revision)'
    <3>1. expected[p] \in Nat
      BY DEF Inv, TypeOK
    <3> QED BY <1>0, <1>1, <3>1 DEF ProcessOk
  <2>2. ASSUME p \in Writer PROVE WriterOk(p)'
    BY <1>0 DEF WriterOk
  <2>3. ASSUME p \in Publisher PROVE PublisherOk(p)'
    <3>1. file'.log = file.log /\ file'.published = file.published \cup {marking[p]}
      BY <1>0, <1>1, <2>3, MarkedRecord
    <3> QED BY <1>0, <1>m, <2>3, <3>1 DEF ProcessOk, PublisherOk, Holding
  <2> QED BY <2>1, <2>2, <2>3 DEF ProcessOk
<1>6. ASSUME NEW r \in Process PROVE ProcessOk(r)'
  BY <1>5, <1>6, RenameBystander
<1>7. LockIsExclusive'
  BY <1>0, <1>1, LockKept
<1>8. (file.revision = 0 => file.log = <<>>)' /\ (Len(delivered) <= Len(file.log))'
  <2>1. Len(delivered) \in Nat /\ Len(delivered) <= Len(file.log)
    BY DEF Inv, TypeOK
  <2> QED BY <1>0, <1>1, <1>l, <2>1
<1> QED BY <1>2, <1>3, <1>4, <1>6, <1>7, <1>8 DEF Inv
-----------------------------------------------------------------------------
LEMMA InitInv == Init => Inv
<1> SUFFICES ASSUME Init PROVE Inv
  OBVIOUS
<1>1. /\ file = Missing /\ Missing \in Record /\ Missing.revision = 0
      /\ Missing.log = <<>> /\ Missing.published = {}
  BY MissingIsRecord DEF Init, Missing, Store!Missing
<1>2. TypeOK
  <2>1. orphaned \in BOOLEAN
    BY DEF Init
  <2>2. delivered \in Seq(Nat) /\ file.published \subseteq DOMAIN file.log
    BY <1>1 DEF Init
  <2> QED BY <1>1, <2>1, <2>2 DEF Init, TypeOK, Counter
<1>3. LockIsExclusive
  BY DEF Init, LockIsExclusive, Holding
<1>4. \A p \in Process : ProcessOk(p)
  BY <1>1 DEF Init, ProcessOk, WriterOk, PublisherOk, Holding
<1>5. OutboxInOrder /\ AppliedOnce /\ Len(delivered) <= Len(file.log)
  BY <1>1 DEF Init, OutboxInOrder, AppliedOnce
<1> QED BY <1>1, <1>2, <1>3, <1>4, <1>5 DEF Inv

(* A writer's rename is an abstract commit, a publisher's an abstract mark. *)
LEMMA RenameRefines ==
  ASSUME Inv, NEW p \in Process, Rename(p)
  PROVE  \/ \E r \in Request : Store!Commit(r)
         \/ \E i \in 1..Len(delivered) : Store!MarkPublished(i)
<1>0. /\ pc[p] = "writing" /\ delivered' = delivered /\ ProcessOk(p)
      /\ p \in Writer => file' = Store!Committed(file, request[p])
      /\ p \in Publisher => file' = Store!Marked(file, marking[p])
  BY RenamedFile DEF Rename, Inv
<1>1. CASE p \in Writer
  <2>1. request[p] \in Request /\ request[p] \notin Store!Receipts(file)
    BY <1>0, <1>1 DEF ProcessOk, WriterOk, Receipts
  <2>2. Store!Commit(request[p])
    BY <1>0, <1>1, <2>1 DEF Store!Commit
  <2> QED BY <2>1, <2>2
<1>2. CASE p \in Publisher
  <2>1. /\ marking[p] \in DOMAIN delivered /\ marking[p] \in pending[p]
        /\ pending[p] \cap file.published = {}
    BY <1>0, <1>2 DEF ProcessOk, PublisherOk, IsFirstPending
  <2>2. DOMAIN delivered = 1..Len(delivered)
    BY DEF Inv, TypeOK
  <2>3. Store!MarkPublished(marking[p])
    BY <1>0, <1>2, <2>1, <2>2 DEF Store!MarkPublished
  <2> QED BY <2>1, <2>2, <2>3
<1> QED BY <1>1, <1>2 DEF Process

(* Every step preserves the invariant and is an abstract step or a stutter. *)
LEMMA NextInv ==
  ASSUME Inv, [Next]_vars
  PROVE  Inv' /\ [Store!Next]_<<file, delivered>>
<1>w. /\ Writer \subseteq Process /\ Publisher \subseteq Process /\ crashes \in Nat
      /\ orphaned \in BOOLEAN
      /\ LockIsExclusive
  BY DEF Process, Inv, TypeOK
<1>1. ASSUME NEW w \in Writer, Bind(w) PROVE Inv' /\ UNCHANGED <<file, delivered>>
  BY <1>1, BindStep DEF Bind
<1>2. ASSUME NEW w \in Writer, Execute(w) PROVE Inv' /\ UNCHANGED <<file, delivered>>
  <2> PICK r \in Request : Replay(w, r) \/ Mutate(w, r)
    BY <1>2 DEF Execute
  <2>1. CASE Replay(w, r)
    BY <1>w, <2>1, ReturnStep DEF Replay
  <2>2. CASE Mutate(w, r)
    BY <2>2, MutateStep DEF Mutate
  <2> QED BY <2>1, <2>2
<1>3. ASSUME NEW p \in Publisher, Drain(p) PROVE Inv' /\ [Store!Next]_<<file, delivered>>
  <2>1. CASE ReadRevision(p)
    BY <2>1, ReadRevisionStep DEF ReadRevision
  <2>2. CASE ReadOutbox(p)
    BY <2>2, ReadOutboxStep DEF ReadOutbox
  <2>3. CASE Publish(p)
    <3>1. file' = file
      BY <2>3 DEF Publish
    <3> QED BY <2>3, <3>1, PublishStep DEF Store!Next
  <2>4. CASE PublishFails(p)
    <3>1. file' = file
      BY <2>4 DEF PublishFails
    <3> QED BY <2>4, <3>1, PublishFailsStep DEF Store!Next
  <2>5. CASE Drained(p)
    BY <1>w, <2>5, ReturnStep DEF Drained
  <2> QED BY <1>3, <2>1, <2>2, <2>3, <2>4, <2>5 DEF Drain
<1>4. ASSUME NEW p \in Process, Write(p) PROVE Inv' /\ [Store!Next]_<<file, delivered>>
  <2>1. CASE Lock(p)
    BY <2>1, LockStep DEF Lock
  <2>2. CASE Busy(p)
    BY <1>w, <2>2, ReturnStep DEF Busy
  <2>3. CASE WriteTemporary(p)
    BY <2>3, WriteTemporaryStep DEF WriteTemporary
  <2>4. CASE Conflict(p) \/ WriteFails(p)
    BY <2>4, FailedStep DEF Conflict, WriteFails
  <2>5. CASE Rename(p)
    BY <2>5, RenameStep, RenameRefines DEF Store!Next
  <2>6. CASE UnlockAfterMark(p)
    BY <2>6, UnlockAfterMarkStep DEF UnlockAfterMark
  <2>7. CASE Unlock(p)
    <3>1. lock = p
      BY <1>w, <2>7 DEF LockIsExclusive, Unlock, Holding
    <3> QED BY <1>w, <2>7, <3>1, ReturnStep DEF Unlock, RemoveLock, LeaveLock
  <2>8. CASE CloseFailsAfterMark(p)
    BY <1>w, <2>8, ReturnStep DEF CloseFailsAfterMark, LeaveLock
  <2> QED BY <1>4, <2>1, <2>2, <2>3, <2>4, <2>5, <2>6, <2>7, <2>8 DEF Write
<1>5. ASSUME NEW p \in Process, Crash(p) PROVE Inv' /\ UNCHANGED <<file, delivered>>
  BY <1>w, <1>5, ReturnStep DEF Crash
<1>6. ASSUME UNCHANGED vars PROVE Inv' /\ UNCHANGED <<file, delivered>>
  BY <1>6 DEF vars, locals, Inv, TypeOK, LockIsExclusive, ProcessOk, WriterOk, PublisherOk,
     OutboxInOrder, AppliedOnce, IsFirstPending, Receipts
<1> QED BY <1>1, <1>2, <1>3, <1>4, <1>5, <1>6 DEF Next

THEOREM Invariance == Spec => []Inv
<1>1. Init => Inv
  BY InitInv
<1>2. Inv /\ [Next]_vars => Inv'
  BY NextInv
<1> QED BY <1>1, <1>2, PTL DEF Spec

-----------------------------------------------------------------------------
(* The file and what every process holds keep their types; published events *)
(* are events of the log (CheckpointStore, TypeOK).                         *)
THEOREM TypeCorrect == Spec => []TypeOK
<1>1. Inv => TypeOK
  BY DEF Inv
<1> QED BY <1>1, Invariance, PTL

(* Between the exclusive creation of the lock file and its removal, whoever *)
(* is inside withWriterLock is the process that created it; Busy callers    *)
(* and crashed processes are never inside.                                  *)
THEOREM MutualExclusion == Spec => []LockIsExclusive
<1>1. Inv => LockIsExclusive
  BY DEF Inv
<1> QED BY <1>1, Invariance, PTL

(* A command whose request id has a receipt is never applied again, however *)
(* many processes retry it and wherever they crash.                         *)
THEOREM NoDoubleApplication == Spec => []AppliedOnce
<1>1. Inv => AppliedOnce
  BY DEF Inv
<1> QED BY <1>1, Invariance, PTL

(* publishPendingDevelopmentEvents first delivers the events in the order of*)
(* the commits, without gaps, and marks only delivered ones, oldest first,  *)
(* with any number of publishers draining the same outbox.                  *)
THEOREM OrderedOutbox == Spec => []OutboxInOrder
<1>1. Inv => OutboxInOrder
  BY DEF Inv
<1> QED BY <1>1, Invariance, PTL

(* FileDevelopmentCheckpointStore implements the store whose commits are    *)
(* single steps: for any number of writers, publishers and crashes, every   *)
(* behaviour of the files is one of InMemoryDevelopmentCheckpointStore.     *)
THEOREM Refinement == Spec => ImplementsVersionedStore
<1>1. Init => Store!Init
  BY DEF Init, Store!Init, Missing
<1>2. Inv /\ [Next]_vars => [Store!Next]_<<file, delivered>>
  BY NextInv
<1> QED BY <1>1, <1>2, Invariance, PTL DEF Spec, ImplementsVersionedStore, Store!Spec
=============================================================================
