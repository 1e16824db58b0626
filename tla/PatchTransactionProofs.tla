----------------------- MODULE PatchTransactionProofs -----------------------
(***************************************************************************)
(* What a call of the patch manager reports is what it did, for patches of *)
(* any length, any number of files and tasks, and any edits and crashes.   *)
(*                                                                         *)
(* The invariant splits the changes of the current patch at the position of*)
(* the walk.  Those ahead are still as the walk expects them; those passed *)
(* are as the walk leaves them; a file the user has touched is exempt, and *)
(* an undo may have passed the file whose write failed.                    *)
(***************************************************************************)
EXTENDS PatchTransaction, TLAPS

PathOf(c, i) == Changes[c.patch][i].path
Source(c, i) == IF Forward(c) THEN Changes[c.patch][i].before ELSE Changes[c.patch][i].after

Ahead(c) == {i \in DOMAIN Changes[c.patch] : IF Forward(c) THEN i >= c.at ELSE i <= c.at}
Passed(c) == DOMAIN Changes[c.patch] \ Ahead(c)

Has(c, i, state) == files[PathOf(c, i)] = state \/ PathOf(c, i) \in touched

Progress ==
  /\ call.stage = "reading" =>
       call.kind # "undo" /\ \A i \in Passed(call) : Has(call, i, Source(call, i))
  /\ call.stage \in {"comparing", "writing"} =>
       /\ \A i \in Ahead(call) : Has(call, i, Source(call, i))
       /\ \A i \in Passed(call) :
            \/ Has(call, i, Target(call, i))
            \/ call.kind = "undo" /\ (~call.clean \/ files[PathOf(call, i)] = Torn)
  /\ call.stage = "writing" /\ ~raced => Matches
  /\ call.kind # "undo" => call.clean

Inv == TypeOK /\ Progress /\ DoneIsWhole /\ UndoneIsGone

-----------------------------------------------------------------------------
LEMMA CurrentChange ==
  ASSUME TypeOK
  PROVE  /\ call.patch \in Patch /\ TaskOf[call.patch] \in Task
         /\ Len(Changes[call.patch]) \in Nat \ {0}
         /\ DOMAIN Changes[call.patch] = 1..Len(Changes[call.patch])
         /\ call.at \in 1..Len(Changes[call.patch])
         /\ Current(call) \in Change /\ PathOf(call, call.at) = Current(call).path
         /\ Expected(call) \in Proposed /\ Replacement(call) \in Proposed
         /\ Expected(call) = Source(call, call.at)
         /\ Replacement(call) = Target(call, call.at)
         /\ \A i \in DOMAIN Changes[call.patch] : PathOf(call, i) \in File
<1>1. call.patch \in Patch /\ call.at \in Nat \ {0} /\ call.at <= Len(Changes[call.patch])
  BY DEF TypeOK, Call
<1>2. Changes[call.patch] \in Seq(Change) /\ Changes[call.patch] # <<>>
  BY <1>1, PatchAssumption
<1>3. /\ Len(Changes[call.patch]) \in Nat \ {0}
      /\ DOMAIN Changes[call.patch] = 1..Len(Changes[call.patch])
      /\ call.at \in 1..Len(Changes[call.patch])
  BY <1>1, <1>2
<1>4. Current(call) \in Change
  BY <1>2, <1>3 DEF Current
<1>5. Expected(call) \in Proposed /\ Replacement(call) \in Proposed
  BY <1>4 DEF Expected, Replacement, Change
<1>6. \A i \in DOMAIN Changes[call.patch] : PathOf(call, i) \in File
  <2>1. ASSUME NEW i \in DOMAIN Changes[call.patch] PROVE Changes[call.patch][i] \in Change
    BY <1>2, <1>3
  <2> QED BY <2>1 DEF PathOf, Change
<1>7. /\ PathOf(call, call.at) = Current(call).path
      /\ Expected(call) = Source(call, call.at) /\ Replacement(call) = Target(call, call.at)
  BY DEF PathOf, Source, Target, Expected, Replacement, Current
<1>8. TaskOf[call.patch] \in Task
  BY <1>1, PatchAssumption
<1> QED
  BY <1>1, <1>3, <1>4, <1>5, <1>6, <1>7, <1>8

LEMMA DistinctPaths ==
  ASSUME TypeOK, NEW i \in DOMAIN Changes[call.patch], NEW j \in DOMAIN Changes[call.patch],
         PathOf(call, i) = PathOf(call, j)
  PROVE  i = j
BY CurrentChange, PatchAssumption DEF PathOf

(* The call records the walk produces.                                      *)
LEMMA AdvancedCall ==
  ASSUME TypeOK, NEW c \in Call, c.patch = call.patch, c.kind = call.kind, c.at = call.at
  PROVE  /\ Advanced(c) \in Call /\ Advanced(c).at <= Len(Changes[call.patch])
         /\ Advanced(c).patch = call.patch
<1>1. /\ Len(Changes[call.patch]) \in Nat \ {0} /\ call.at \in 1..Len(Changes[call.patch])
      /\ c.kind \in {"apply", "undo", "rollback"}
  BY CurrentChange DEF Call
<1>2. CASE IsLast(c)
  BY <1>1, <1>2 DEF Advanced, Call, Running, Outcome
<1>3. CASE ~IsLast(c)
  <2> DEFINE at == IF Forward(c) THEN c.at + 1 ELSE c.at - 1
  <2>1. at \in Nat \ {0} /\ at <= Len(Changes[call.patch])
    BY <1>1, <1>3 DEF IsLast
  <2>2. Advanced(c) = [c EXCEPT !.at = at, !.stage = "comparing"]
    BY <1>3 DEF Advanced, Onward, Call
  <2> HIDE DEF at
  <2> QED BY <2>1, <2>2 DEF Call, Running
<1> QED BY <1>2, <1>3

LEMMA FailedCall ==
  ASSUME TypeOK
  PROVE  /\ Failed(call) \in Call /\ Failed(call).at <= Len(Changes[call.patch])
         /\ Failed(call).patch = call.patch
<1>0. call \in Call
  BY DEF TypeOK
<1>1. CASE call.kind = "apply"
  <2>1. Failed(call) = UndoApplied(call)
    BY <1>1 DEF Failed
  <2>2. CASE call.at = 1
    <3>1. UndoApplied(call) = [call EXCEPT !.kind = "undo", !.stage = "undone"]
      BY <2>2 DEF UndoApplied
    <3>2. call.at <= Len(Changes[call.patch])
      BY DEF TypeOK
    <3> QED BY <1>0, <2>1, <3>1, <3>2 DEF Call, Running, Outcome
  <2>3. CASE call.at # 1
    <3> DEFINE at == call.at - 1
    <3>1. at \in Nat \ {0} /\ at <= Len(Changes[call.patch])
      BY <2>3, CurrentChange
    <3>2. UndoApplied(call) = [call EXCEPT !.kind = "undo", !.at = at, !.stage = "comparing"]
      BY <2>3 DEF UndoApplied
    <3> HIDE DEF at
    <3>3. /\ UndoApplied(call) \in Call /\ UndoApplied(call).at = at
          /\ UndoApplied(call).patch = call.patch
      BY <1>0, <3>1, <3>2 DEF Call, Running
    <3> QED BY <2>1, <3>1, <3>3
  <2> QED BY <2>2, <2>3
<1>2. CASE call.kind = "undo"
  <2> DEFINE c == [call EXCEPT !.clean = FALSE]
  <2>1. c \in Call /\ c.patch = call.patch /\ c.kind = call.kind /\ c.at = call.at
    BY <1>0 DEF Call
  <2>2. Failed(call) = Advanced(c)
    BY <1>2 DEF Failed
  <2> QED BY <2>1, <2>2, AdvancedCall
<1>3. CASE call.kind = "rollback"
  BY <1>0, <1>3, CurrentChange DEF Failed, Call, Running, Outcome
<1> QED BY <1>0, <1>1, <1>2, <1>3 DEF Call

LEMMA ProceedTypes ==
  ASSUME TypeOK, NEW c \in Call, c.at <= Len(Changes[c.patch]), Proceed(c),
         files' \in [File -> FileState], UNCHANGED history
  PROVE  TypeOK'
<1>1. c.patch \in Patch
  BY DEF Call
<1> QED BY <1>1 DEF TypeOK, Proceed, history

-----------------------------------------------------------------------------
(* A change that went through: the walk's position moves over it.           *)
LEMMA WriteStep == ASSUME Inv, Write PROVE Inv'
<1> DEFINE n == Len(Changes[call.patch])
           f == Current(call).path
<1>0. /\ TypeOK /\ Progress /\ call \in Call /\ call.stage = "writing"
      /\ files \in [File -> FileState]
      /\ files' = [files EXCEPT ![f] = Replacement(call)]
      /\ Proceed(Advanced(call)) /\ call' = Advanced(call)
      /\ touched' = touched /\ raced' = raced /\ UNCHANGED history
  BY DEF Inv, TypeOK, Write, Proceed, history
<1>c. /\ n \in Nat \ {0} /\ DOMAIN Changes[call.patch] = 1..n /\ call.at \in 1..n
      /\ f \in File /\ PathOf(call, call.at) = f
      /\ Replacement(call) \in Proposed /\ Replacement(call) = Target(call, call.at)
  BY <1>0, CurrentChange DEF Change
<1>1. TypeOK'
  <2>1. files' \in [File -> FileState]
    BY <1>0, <1>c DEF FileState
  <2> QED BY <1>0, <2>1, AdvancedCall, ProceedTypes
<1>2. ASSUME NEW i \in 1..n
      PROVE  files'[PathOf(call, i)] =
               IF i = call.at THEN Target(call, i) ELSE files[PathOf(call, i)]
  <2>1. CASE i = call.at
    BY <1>0, <1>c, <2>1 DEF TypeOK
  <2>2. CASE i # call.at
    <3>1. PathOf(call, i) # f
      BY <1>0, <1>c, <2>2, DistinctPaths
    <3> QED BY <1>0, <2>2, <3>1
  <2> QED BY <2>1, <2>2
<1>3. \A i \in Ahead(call) \ {call.at} : files'[PathOf(call, i)] = Source(call, i)
                                         \/ PathOf(call, i) \in touched
  BY <1>0, <1>c, <1>2 DEF Progress, Has, Ahead
<1>4. \A i \in Passed(call) \cup {call.at} :
        \/ files'[PathOf(call, i)] = Target(call, i)
        \/ PathOf(call, i) \in touched
        \/ call.kind = "undo" /\ (~call.clean \/ files'[PathOf(call, i)] = Torn)
  BY <1>0, <1>c, <1>2 DEF Progress, Has, Passed, Ahead
<1>k. call.kind # "undo" => call.clean
  BY <1>0 DEF Progress
<1>5. CASE ~IsLast(call)
  <2>1. /\ call' = [Onward(call) EXCEPT !.stage = "comparing"]
        /\ call'.stage = "comparing" /\ call'.kind = call.kind /\ call'.patch = call.patch
        /\ call'.clean = call.clean
        /\ call'.at = IF Forward(call) THEN call.at + 1 ELSE call.at - 1
    BY <1>0, <1>5 DEF Advanced, Onward, Call
  <2>2. Ahead(call') = Ahead(call) \ {call.at} /\ Passed(call') = Passed(call) \cup {call.at}
    BY <1>c, <2>1 DEF Ahead, Passed, Forward
  <2>3. \A i : /\ PathOf(call', i) = PathOf(call, i) /\ Source(call', i) = Source(call, i)
               /\ Target(call', i) = Target(call, i)
    BY <2>1 DEF PathOf, Source, Target, Forward
  <2>4. Progress'
    BY <1>0, <1>3, <1>4, <1>k, <2>1, <2>2, <2>3 DEF Progress, Has
  <2>5. DoneIsWhole' /\ UndoneIsGone'
    BY <2>1 DEF DoneIsWhole, UndoneIsGone
  <2> QED BY <1>1, <2>4, <2>5 DEF Inv
<1>6. CASE IsLast(call)
  <2>1. /\ call'.kind = call.kind /\ call'.patch = call.patch /\ call'.clean = call.clean
        /\ call'.stage = IF call.clean THEN IF call.kind = "undo" THEN "undone" ELSE "done"
                         ELSE "undo_failed"
    BY <1>0, <1>6 DEF Advanced, Call
  <2>2. \A i \in 1..n : i \in Passed(call) \cup {call.at}
    BY <1>c, <1>6 DEF IsLast, Passed, Ahead, Forward
  <2>3. Progress'
    BY <1>k, <2>1 DEF Progress
  <2>4. DoneIsWhole'
    <3> SUFFICES ASSUME call'.stage = "done", NEW i \in 1..n
                 PROVE  files'[PathOf(call, i)] = Target(call, i)
                        \/ PathOf(call, i) \in touched
      BY <1>0, <1>c, <2>1 DEF DoneIsWhole, PathOf, Target, Forward
    <3> QED BY <1>4, <2>1, <2>2
  <2>5. UndoneIsGone'
    <3> SUFFICES ASSUME call'.stage = "undone", NEW i \in 1..n
                 PROVE  files'[PathOf(call, i)] \in {Changes[call.patch][i].before, Torn}
                        \/ PathOf(call, i) \in touched
      BY <1>0, <1>c, <2>1 DEF UndoneIsGone, PathOf
    <3>1. Target(call, i) = Changes[call.patch][i].before /\ call.clean
      BY <2>1 DEF Target, Forward
    <3> QED BY <1>4, <2>2, <3>1
  <2> QED BY <1>1, <2>3, <2>4, <2>5 DEF Inv
<1> QED BY <1>5, <1>6

(* A change that was denied or cut short: an apply turns round, an undo goes*)
(* on without being clean, a rollback ends.                                 *)
LEMMA FailStep ==
  ASSUME Inv, call.stage \in {"comparing", "writing"}, Proceed(Failed(call)), CutShort,
         UNCHANGED history
  PROVE  Inv'
<1> DEFINE n == Len(Changes[call.patch])
           f == Current(call).path
<1>0. /\ TypeOK /\ Progress /\ call \in Call /\ files \in [File -> FileState]
      /\ call' = Failed(call) /\ touched' = touched /\ raced' = raced
  BY DEF Inv, TypeOK, Proceed, history
<1>c. /\ n \in Nat \ {0} /\ DOMAIN Changes[call.patch] = 1..n /\ call.at \in 1..n
      /\ f \in File /\ PathOf(call, call.at) = f /\ Expected(call) = Source(call, call.at)
      /\ \A i \in 1..n : PathOf(call, i) \in File
  BY <1>0, CurrentChange DEF Change
<1>1. TypeOK'
  <2>1. files' \in [File -> FileState]
    BY <1>0, <1>c DEF CutShort, FileState
  <2> QED BY <1>0, <2>1, FailedCall, ProceedTypes
<1>2. ASSUME NEW i \in 1..n, i # call.at PROVE files'[PathOf(call, i)] = files[PathOf(call, i)]
  <2>1. PathOf(call, i) # f
    BY <1>0, <1>c, <1>2, DistinctPaths
  <2> QED BY <1>0, <1>c, <2>1 DEF CutShort
<1>3. files'[f] \in {files[f], Torn}
  BY <1>0, <1>c DEF CutShort
<1>4. CASE call.kind = "apply"
  <2>1. /\ call'.kind = "undo" /\ call'.patch = call.patch /\ call'.clean = call.clean
        /\ call.at = 1 => call'.stage = "undone"
        /\ call.at # 1 => call'.stage = "comparing" /\ call'.at = call.at - 1
    BY <1>0, <1>4 DEF Failed, UndoApplied, Call
  <2>2. ASSUME NEW i \in 1..n, i >= call.at
        PROVE  files'[PathOf(call, i)] \in {Changes[call.patch][i].before, Torn}
               \/ PathOf(call, i) \in touched
    <3>1. i \in Ahead(call) /\ Source(call, i) = Changes[call.patch][i].before
      BY <1>c, <1>4, <2>2 DEF Ahead, Source, Forward
    <3>2. files[PathOf(call, i)] = Changes[call.patch][i].before \/ PathOf(call, i) \in touched
      BY <1>0, <3>1 DEF Progress, Has
    <3> QED BY <1>2, <1>3, <1>c, <3>2
  <2>3. ASSUME NEW i \in 1..n, i < call.at
        PROVE  files'[PathOf(call, i)] = Changes[call.patch][i].after
               \/ PathOf(call, i) \in touched
    <3>1. i \in Passed(call) /\ Target(call, i) = Changes[call.patch][i].after
      BY <1>c, <1>4, <2>3 DEF Passed, Ahead, Target, Forward
    <3>2. files[PathOf(call, i)] = Changes[call.patch][i].after \/ PathOf(call, i) \in touched
      BY <1>0, <1>4, <3>1 DEF Progress, Has
    <3> QED BY <1>2, <1>c, <2>3, <3>2
  <2>4. Progress'
    <3>1. \A i : /\ PathOf(call', i) = PathOf(call, i)
                 /\ Source(call', i) = Changes[call.patch][i].after
                 /\ Target(call', i) = Changes[call.patch][i].before
      BY <2>1 DEF PathOf, Source, Target, Forward
    <3>2. call.at # 1 => /\ Ahead(call') = {i \in 1..n : i < call.at}
                         /\ Passed(call') = {i \in 1..n : i >= call.at}
      BY <1>c, <2>1 DEF Ahead, Passed, Forward
    <3> QED BY <1>0, <2>1, <2>2, <2>3, <3>1, <3>2 DEF Progress, Has
  <2>5. DoneIsWhole'
    BY <2>1 DEF DoneIsWhole
  <2>6. UndoneIsGone'
    BY <1>0, <1>c, <2>1, <2>2 DEF UndoneIsGone, PathOf
  <2> QED BY <1>1, <2>4, <2>5, <2>6 DEF Inv
<1>5. CASE call.kind = "undo"
  <2> DEFINE c == [call EXCEPT !.clean = FALSE]
  <2>1. /\ call' = Advanced(c) /\ c.kind = "undo" /\ c.at = call.at /\ c.patch = call.patch
        /\ c.clean = FALSE /\ c \in Call
    BY <1>0, <1>5 DEF Failed, Call
  <2>2. /\ call'.kind = "undo" /\ call'.patch = call.patch /\ call'.clean = FALSE
        /\ call'.stage \in {"comparing", "undo_failed"}
        /\ call'.stage = "comparing" => call'.at = call.at - 1
    BY <2>1 DEF Advanced, Onward, Forward, Call
  <2>3. Progress'
    <3>1. \A i : PathOf(call', i) = PathOf(call, i) /\ Source(call', i) = Source(call, i)
      BY <1>5, <2>2 DEF PathOf, Source, Forward
    <3>2. call'.stage = "comparing" => Ahead(call') = Ahead(call) \ {call.at}
      BY <1>c, <1>5, <2>2 DEF Ahead, Forward
    <3>3. \A i \in Ahead(call) \ {call.at} :
            files'[PathOf(call, i)] = Source(call, i) \/ PathOf(call, i) \in touched
      BY <1>0, <1>2, <1>c DEF Progress, Has, Ahead
    <3> QED BY <1>0, <2>2, <3>1, <3>2, <3>3 DEF Progress, Has
  <2>4. DoneIsWhole' /\ UndoneIsGone'
    BY <2>2 DEF DoneIsWhole, UndoneIsGone
  <2> QED BY <1>1, <2>3, <2>4 DEF Inv
<1>6. CASE call.kind = "rollback"
  <2>1. call'.stage = "failed" /\ call'.kind = "rollback" /\ call'.clean = call.clean
    BY <1>0, <1>6 DEF Failed, Call
  <2>2. Progress' /\ DoneIsWhole' /\ UndoneIsGone'
    BY <1>0, <1>6, <2>1 DEF Progress, DoneIsWhole, UndoneIsGone
  <2> QED BY <1>1, <2>2 DEF Inv
<1> QED BY <1>0, <1>4, <1>5, <1>6 DEF Call

-----------------------------------------------------------------------------
(* The other steps.                                                         *)

LEMMA BeginStep ==
  ASSUME Inv, NEW p \in Patch, NEW kind \in {"apply", "rollback"}, Begin(kind, p)
  PROVE  Inv'
<1> DEFINE at == IF kind = "apply" THEN 1 ELSE Len(Changes[p])
<1>1. /\ call' = Begun(kind, p) /\ touched' = {} /\ raced' = FALSE
      /\ UNCHANGED <<files, lease, completed, journal, edits, crashes>> /\ TypeOK
  BY DEF Begin, Inv
<1>2. /\ Len(Changes[p]) \in Nat \ {0} /\ DOMAIN Changes[p] = 1..Len(Changes[p])
      /\ at \in Nat \ {0} /\ at <= Len(Changes[p])
  BY PatchAssumption
<1>3. call' = [kind |-> kind, patch |-> p, at |-> at, stage |-> "reading",
               held |-> FALSE, clean |-> TRUE]
  BY <1>1 DEF Begun
<1>4. TypeOK'
  <2> HIDE DEF at
  <2>1. call' \in Call /\ call'.at = at /\ call'.patch = p
    BY <1>2, <1>3 DEF Call, Running
  <2>2. call'.at <= Len(Changes[call'.patch])
    BY <1>2, <2>1
  <2> QED BY <1>1, <2>1, <2>2 DEF TypeOK
<1>5. Passed(call') = {}
  BY <1>2, <1>3 DEF Passed, Ahead, Forward
<1>6. Progress' /\ DoneIsWhole' /\ UndoneIsGone'
  BY <1>3, <1>5 DEF Progress, DoneIsWhole, UndoneIsGone
<1> QED BY <1>4, <1>6 DEF Inv

LEMMA ReadNextStep == ASSUME Inv, ReadNext PROVE Inv'
<1> DEFINE at == IF Forward(call) THEN call.at + 1 ELSE call.at - 1
<1>0. /\ TypeOK /\ Progress /\ call.stage = "reading" /\ Matches /\ ~IsLast(call)
      /\ call \in Call /\ call' = [call EXCEPT !.at = at]
      /\ UNCHANGED <<files, lease, completed, journal, history>>
  BY DEF Inv, TypeOK, ReadNext, Onward
<1>1. /\ DOMAIN Changes[call.patch] = 1..Len(Changes[call.patch])
      /\ Len(Changes[call.patch]) \in Nat /\ call.at \in 1..Len(Changes[call.patch])
      /\ at \in Nat \ {0} /\ at <= Len(Changes[call.patch])
  BY <1>0, CurrentChange DEF IsLast
<1>2. /\ call'.stage = "reading" /\ call'.kind = call.kind /\ call'.patch = call.patch
      /\ call'.clean = call.clean /\ call'.at = at
  BY <1>0 DEF Call
<1>3. TypeOK'
  <2> HIDE DEF at
  <2>1. call' \in Call
    BY <1>0, <1>1 DEF Call
  <2> QED BY <1>0, <1>1, <1>2, <2>1 DEF TypeOK, history
<1>4. Passed(call') \subseteq Passed(call) \cup {call.at}
  BY <1>1, <1>2 DEF Passed, Ahead, Forward
<1>5. \A i \in Passed(call) \cup {call.at} : Has(call, i, Source(call, i))
  BY <1>0, CurrentChange DEF Progress, Matches, Has
<1>6. \A i : Has(call, i, Source(call, i)) => Has(call, i, Source(call, i))'
  BY <1>0, <1>2 DEF Has, Source, PathOf, Forward, history
<1>7. Progress' /\ DoneIsWhole' /\ UndoneIsGone'
  BY <1>0, <1>2, <1>4, <1>5, <1>6 DEF Progress, DoneIsWhole, UndoneIsGone
<1> QED BY <1>3, <1>7 DEF Inv

LEMMA StartWritingStep == ASSUME Inv, StartWriting PROVE Inv'
<1> DEFINE at == IF Forward(call) THEN 1 ELSE Len(Changes[call.patch])
           own == (lease = TaskOf[call.patch])
<1>0. /\ TypeOK /\ Progress /\ call.stage = "reading" /\ Matches /\ IsLast(call)
      /\ call \in Call /\ call' = [call EXCEPT !.at = at, !.stage = "comparing", !.held = own]
      /\ lease' = TaskOf[call.patch]
      /\ UNCHANGED <<files, completed, journal, history>>
  BY DEF Inv, TypeOK, StartWriting, Begun, Forward
<1>1. /\ DOMAIN Changes[call.patch] = 1..Len(Changes[call.patch])
      /\ Len(Changes[call.patch]) \in Nat \ {0} /\ call.at \in 1..Len(Changes[call.patch])
      /\ at \in Nat \ {0} /\ at <= Len(Changes[call.patch])
  BY <1>0, CurrentChange
<1>2. /\ call'.stage = "comparing" /\ call'.kind = call.kind /\ call'.patch = call.patch
      /\ call'.clean = call.clean /\ call'.at = at
  BY <1>0 DEF Call
<1>3. TypeOK'
  <2> HIDE DEF at
  <2>1. own \in BOOLEAN
    OBVIOUS
  <2> HIDE DEF own
  <2>2. call' \in Call
    BY <1>0, <1>1, <2>1 DEF Call, Running
  <2> QED BY <1>0, <1>1, <1>2, <2>2, CurrentChange DEF TypeOK, history
<1>4. Passed(call') = {} /\ Ahead(call') \subseteq Passed(call) \cup {call.at}
  BY <1>0, <1>1, <1>2 DEF Passed, Ahead, Forward, IsLast
<1>5. \A i \in Passed(call) \cup {call.at} : Has(call, i, Source(call, i))
  BY <1>0, CurrentChange DEF Progress, Matches, Has
<1>6. \A i : Has(call, i, Source(call, i)) => Has(call, i, Source(call, i))'
  BY <1>0, <1>2 DEF Has, Source, PathOf, Forward, history
<1>7. Progress' /\ DoneIsWhole' /\ UndoneIsGone'
  BY <1>0, <1>2, <1>4, <1>5, <1>6 DEF Progress, DoneIsWhole, UndoneIsGone
<1> QED BY <1>3, <1>7 DEF Inv

LEMMA CompareStep == ASSUME Inv, Compare PROVE Inv'
<1>0. /\ TypeOK /\ Progress /\ call.stage = "comparing" /\ Matches /\ call \in Call
      /\ call' = [call EXCEPT !.stage = "writing"] /\ raced' = FALSE
      /\ UNCHANGED <<files, lease, completed, journal, touched, edits, crashes>>
  BY DEF Inv, TypeOK, Compare
<1>1. /\ call'.stage = "writing" /\ call'.kind = call.kind /\ call'.patch = call.patch
      /\ call'.clean = call.clean /\ call'.at = call.at /\ call' \in Call
  BY <1>0 DEF Call, Running
<1>2. TypeOK'
  BY <1>0, <1>1 DEF TypeOK
<1>3. /\ Ahead(call') = Ahead(call) /\ Passed(call') = Passed(call)
      /\ \A i : /\ Source(call', i) = Source(call, i) /\ Target(call', i) = Target(call, i)
                /\ PathOf(call', i) = PathOf(call, i)
      /\ Current(call') = Current(call) /\ Expected(call') = Expected(call)
  BY <1>1 DEF Ahead, Passed, Source, Target, PathOf, Forward, Current, Expected
<1>4. Progress'
  BY <1>0, <1>1, <1>3 DEF Progress, Has, Matches
<1>5. DoneIsWhole' /\ UndoneIsGone'
  BY <1>1 DEF DoneIsWhole, UndoneIsGone
<1> QED BY <1>2, <1>4, <1>5 DEF Inv

LEMMA EditStep == ASSUME Inv, NEW f \in File, Edit(f) PROVE Inv'
<1> PICK c \in Proposed :
      /\ files' = [files EXCEPT ![f] = c] /\ touched' = touched \cup {f}
      /\ raced' = (raced \/ (call.stage = "writing" /\ f = Current(call).path))
      /\ edits' = edits + 1
      /\ UNCHANGED <<lease, completed, journal, call, crashes>>
  BY DEF Edit
<1>0. TypeOK /\ Progress /\ DoneIsWhole /\ UndoneIsGone /\ files \in [File -> FileState]
  BY DEF Inv, TypeOK
<1>1. TypeOK'
  BY <1>0 DEF TypeOK, FileState
<1>2. \A g : g \notin touched' => files'[g] = files[g] /\ g \notin touched
  BY <1>0
<1>3. /\ Ahead(call') = Ahead(call) /\ Passed(call') = Passed(call)
      /\ \A i : /\ Source(call', i) = Source(call, i) /\ Target(call', i) = Target(call, i)
                /\ PathOf(call', i) = PathOf(call, i)
  BY DEF Ahead, Passed, Source, Target, PathOf, Forward
<1>4. (call.stage = "writing" /\ ~raced => Matches)'
  <2> SUFFICES ASSUME call.stage = "writing", ~raced' PROVE Matches'
    OBVIOUS
  <2>1. Matches /\ f # Current(call).path
    BY <1>0 DEF Progress
  <2>2. Matches' = (files'[Current(call).path] = Expected(call))
    BY DEF Matches, Current, Expected, Forward
  <2> QED BY <1>0, <2>1, <2>2 DEF Matches
<1>5. \A i : \A state : Has(call, i, state) => Has(call, i, state)'
  BY <1>2, <1>3 DEF Has
<1>6. \A i : files[PathOf(call, i)] = Torn =>
               files'[PathOf(call, i)] = Torn \/ PathOf(call, i) \in touched'
  BY <1>2
<1>7. Progress'
  BY <1>0, <1>3, <1>4, <1>5, <1>6 DEF Progress, Has
<1>8. DoneIsWhole' /\ UndoneIsGone'
  BY <1>0, <1>2, <1>3 DEF DoneIsWhole, UndoneIsGone, Target, Forward
<1> QED BY <1>1, <1>7, <1>8 DEF Inv

LEMMA CrashStep == ASSUME Inv, Crash PROVE Inv'
<1>0. TypeOK /\ Progress /\ DoneIsWhole /\ UndoneIsGone /\ call \in Call
  BY DEF Inv, TypeOK
<1>1. TypeOK'
  <2>1. files' \in [File -> FileState]
    BY <1>0, CurrentChange DEF Crash, CutShort, TypeOK, FileState, Change
  <2>2. call' \in Call /\ call'.at = call.at /\ call'.patch = call.patch
    BY <1>0 DEF Crash, Call, Outcome
  <2> QED BY <1>0, <2>1, <2>2 DEF Crash, TypeOK
<1>2. CASE call.stage \in Running
  <2>1. call'.stage = "crashed" /\ call'.kind = call.kind /\ call'.clean = call.clean
    BY <1>0, <1>2 DEF Crash, Call
  <2> QED BY <1>0, <1>1, <2>1 DEF Inv, Progress, DoneIsWhole, UndoneIsGone
<1>3. CASE call.stage \notin Running
  <2>1. call' = call /\ files' = files /\ touched' = touched
    BY <1>3 DEF Crash, Running
  <2> QED BY <1>0, <1>1, <1>3, <2>1
          DEF Inv, Progress, DoneIsWhole, UndoneIsGone, Running, Target, Forward
<1> QED BY <1>2, <1>3

LEMMA ConflictStep == ASSUME Inv, Conflict PROVE Inv'
<1>1. /\ call'.stage = "conflict" /\ call'.kind = call.kind /\ call'.clean = call.clean
      /\ call' \in Call /\ call'.at = call.at /\ call'.patch = call.patch
  BY DEF Inv, TypeOK, Conflict, Call, Outcome
<1> QED BY <1>1 DEF Inv, TypeOK, Conflict, history, Progress, DoneIsWhole, UndoneIsGone

(* Steps that leave the workspace and the call alone.                       *)
LEMMA LeaseStep ==
  ASSUME Inv, UNCHANGED <<files, completed, journal, call, history>>,
         lease' \in Task \cup {NoOne}
  PROVE  Inv'
BY DEF Inv, TypeOK, history, Progress, DoneIsWhole, UndoneIsGone, Ahead, Passed, Has,
   Source, Target, PathOf, Forward, Matches, Current, Expected

LEMMA NextInv == ASSUME Inv, [Next]_vars PROVE Inv'
<1>t. lease \in Task \cup {NoOne}
  BY DEF Inv, TypeOK
<1>1. ASSUME NEW t \in Task, Reserve(t) \/ Release(t) PROVE Inv'
  BY <1>1, LeaseStep DEF Reserve, Release
<1>2. ASSUME NEW p \in Patch, Apply(p) \/ Rollback(p) PROVE Inv'
  BY <1>2, BeginStep DEF Apply, Rollback
<1>3. CASE Conflict
  BY <1>3, ConflictStep
<1>4. CASE ReadNext
  BY <1>4, ReadNextStep
<1>5. CASE StartWriting
  BY <1>5, StartWritingStep
<1>6. CASE Compare
  BY <1>6, CompareStep
<1>7. CASE Deny
  BY <1>7, FailStep DEF Deny, CutShort
<1>8. CASE Write
  BY <1>8, WriteStep
<1>9. CASE WriteFails
  BY <1>9, FailStep DEF WriteFails
<1>10. ASSUME NEW f \in File, Edit(f) PROVE Inv'
  BY <1>10, EditStep
<1>11. CASE Crash
  BY <1>11, CrashStep
<1>12. CASE UNCHANGED vars
  BY <1>12, <1>t, LeaseStep DEF vars
<1> QED
  BY <1>1, <1>2, <1>3, <1>4, <1>5, <1>6, <1>7, <1>8, <1>9, <1>10, <1>11, <1>12 DEF Next

LEMMA InitInv == Init => Inv
<1> SUFFICES ASSUME Init PROVE Inv
  OBVIOUS
<1>p. PICK p \in Patch : call = [Begun("apply", p) EXCEPT !.stage = "idle"]
  BY DEF Init
<1>1. call = [kind |-> "apply", patch |-> p, at |-> 1, stage |-> "idle",
              held |-> FALSE, clean |-> TRUE]
  BY <1>p DEF Begun
<1>2. 1 <= Len(Changes[p])
  BY PatchAssumption
<1>3. TypeOK
  <2>1. files \in [File -> FileState]
    BY DEF Init, FileState
  <2>2. call \in Call /\ call.at <= Len(Changes[call.patch])
    <3>1. "idle" \in Running \cup Outcome /\ 1 \in Nat \ {0}
      BY DEF Outcome
    <3>2. call \in Call
      BY <1>1, <3>1 DEF Call
    <3>3. call.at = 1 /\ call.patch = p
      BY <1>1
    <3> QED BY <1>2, <3>2, <3>3
  <2> QED BY <2>1, <2>2 DEF Init, TypeOK
<1> QED BY <1>1, <1>3 DEF Inv, Progress, DoneIsWhole, UndoneIsGone

THEOREM Invariance == Spec => []Inv
<1>1. Inv /\ [Next]_vars => Inv'
  BY NextInv
<1> QED BY <1>1, InitInv, PTL DEF Spec

(* The state of the manager and of every call keeps its type; a walk stays  *)
(* within its patch.                                                        *)
THEOREM TypeCorrect == Spec => []TypeOK
<1>1. Inv => TypeOK
  BY DEF Inv
<1> QED BY <1>1, Invariance, PTL

(* An applied patch is in the workspace in whole and a rolled back one is   *)
(* out of it in whole, but for what the user edited meanwhile.              *)
THEOREM AppliedInWhole == Spec => []DoneIsWhole
<1>1. Inv => DoneIsWhole
  BY DEF Inv
<1> QED BY <1>1, Invariance, PTL

(* apply_failed_rolled_back means that no change of the patch is left: every*)
(* file is as before, torn by the write that failed, or the user's.         *)
THEOREM UndoneInWhole == Spec => []UndoneIsGone
<1>1. Inv => UndoneIsGone
  BY DEF Inv
<1> QED BY <1>1, Invariance, PTL

(* No write of the manager hits a file outside its current change, or an    *)
(* edit the comparison could see.                                           *)
THEOREM EditsAreKept == Spec => EditsSurvive
<1>1. ASSUME Inv, [Next]_vars, edits' = edits, NEW f \in File, files'[f] # files[f]
      PROVE  f = Current(call).path /\ (files[f] = Expected(call) \/ raced)
  <2>1. edits \in Nat /\ files \in [File -> FileState]
    BY <1>1 DEF Inv, TypeOK
  <2>2. ~(\E g \in File : Edit(g))
    BY <1>1, <2>1 DEF Edit
  <2>3. Write \/ WriteFails \/ (Crash /\ call.stage = "writing")
    BY <1>1, <2>2 DEF Next, vars, Reserve, Release, Apply, Rollback, Begin, Conflict, ReadNext,
       StartWriting, Compare, Deny, Crash
  <2>4. call.stage = "writing" /\ f = Current(call).path
    BY <1>1, <2>1, <2>3 DEF Write, WriteFails, Crash, CutShort
  <2> QED BY <1>1, <2>4 DEF Inv, Progress, Matches
<1>2. Inv /\ [Next]_vars => (edits' = edits =>
        \A f \in File : files'[f] # files[f] =>
          f = Current(call).path /\ (files[f] = Expected(call) \/ raced))
  BY <1>1
<1> QED BY <1>2, Invariance, PTL DEF Spec, EditsSurvive
=============================================================================
