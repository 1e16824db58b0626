--------------------------- MODULE VersionedStore ---------------------------
(***************************************************************************)
(* What a checkpoint store promises for one key: the record changes in     *)
(* whole commits, as it does in InMemoryDevelopmentCheckpointStore, where a*)
(* commit is one synchronous step.  Each request is applied once, each     *)
(* commit emits one outbox event, and consumers who deduplicate by event   *)
(* id see the events in commit order.                                      *)
(*                                                                         *)
(* A checkpoint value is abstracted to the sequence of requests applied to *)
(* it, which is also its set of command receipts; the i-th commit emits    *)
(* event i.                                                                *)
(***************************************************************************)
EXTENDS Naturals, Sequences

CONSTANT Request

VARIABLES
  record,     \* the stored record
  delivered   \* the events consumers have seen, by their first delivery

Record == [revision : Nat, log : Seq(Request), published : SUBSET Nat]
Missing == [revision |-> 0, log |-> <<>>, published |-> {}]
Receipts(r) == {r.log[i] : i \in DOMAIN r.log}

Committed(r, request) ==
  [revision |-> r.revision + 1, log |-> Append(r.log, request),
   published |-> r.published]
Marked(r, event) ==
  [revision |-> r.revision + 1, log |-> r.log, published |-> r.published \cup {event}]

Init == record = Missing /\ delivered = <<>>

Commit(request) ==
  /\ request \notin Receipts(record)
  /\ record' = Committed(record, request)
  /\ UNCHANGED delivered

Deliver ==
  /\ Len(delivered) < Len(record.log)
  /\ delivered' = Append(delivered, Len(delivered) + 1)
  /\ UNCHANGED record

MarkPublished(event) ==
  /\ event \in 1..Len(delivered)
  /\ event \notin record.published
  /\ record' = Marked(record, event)
  /\ UNCHANGED delivered

Next ==
  \/ \E request \in Request : Commit(request)
  \/ Deliver
  \/ \E event \in 1..Len(delivered) : MarkPublished(event)

Spec == Init /\ [][Next]_<<record, delivered>>
=============================================================================
