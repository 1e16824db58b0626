--------------------------- MODULE RepairLoopProofs ---------------------------
(***************************************************************************)
(* The repair loop for any verification steps, budget, profiles and        *)
(* policies.  What a session claims and what an answer says of its author  *)
(* hold because of where the executor is: a session is verified only where *)
(* nothing verifies any more, an attempt is open only where its answer is  *)
(* being had, and a provider is called only for a profile found fit.       *)
(*                                                                         *)
(* The last part bounds the loop: a natural number (Work) that every step  *)
(* without the user makes smaller.                                         *)
(***************************************************************************)
EXTENDS RepairLoop, SequenceTheorems, TLAPS

\* A command passes only if its timer had not fired, and a failure has a name.
Evidenced ==
  \A i \in DOMAIN drafts :
    /\ drafts[i].outcome = "passed" => ~drafts[i].late
    /\ drafts[i].outcome = "failed" => drafts[i].category # "none"

\* Where the executor is while an attempt has no patch yet.
Repairing == {"route", "primary", "fallback", "paused", "patch", "stuck"}

Placed ==
  /\ place = "running" => Len(drafts) < Len(Steps)
  /\ session.status = "verified" => place = "ended"
  /\ place \in Repairing => session.status = "repairing"

\* A provider is called for a profile found fit, a fallback for an outage.
Routed ==
  /\ place \in {"primary", "fallback"} => answer = NoAnswer
  /\ place = "primary" => Route.profile \in Profile /\ Capable(Route.profile)
  /\ place = "fallback" =>
       /\ call.confirmed /\ call.failure \in {"unavailable", "timeout"}
       /\ FallbackProfile \in Profile \ {Route.profile} /\ Capable(FallbackProfile)

IInv ==
  /\ TypeOK /\ Evidenced /\ Placed /\ Routed
  /\ RepairsAreWarranted /\ VerifiedByEvidence /\ AuthorIsNamed

-----------------------------------------------------------------------------
(* What the helpers return.                                                *)

LEMMA Drafted ==
  ASSUME NEW ds \in Seq(Evidence), NEW d \in Evidence
  PROVE  /\ Append(ds, d) \in Seq(Evidence) /\ Len(Append(ds, d)) = Len(ds) + 1
         /\ DOMAIN ds = 1..Len(ds) /\ DOMAIN Append(ds, d) = 1..(Len(ds) + 1)
         /\ \A i \in 1..Len(ds) : Append(ds, d)[i] = ds[i]
         /\ Append(ds, d)[Len(ds) + 1] = d
  OBVIOUS

\* The evidence a step of the verification adds keeps what is said of it.
LEMMA DraftIsEvidenced ==
  ASSUME drafts \in Seq(Evidence), Evidenced, NEW d \in Evidence,
         drafts' = Append(drafts, d),
         d.outcome = "passed" => ~d.late,
         d.outcome = "failed" => d.category # "none"
  PROVE  /\ Evidenced' /\ drafts' \in Seq(Evidence)
         /\ Len(drafts') = Len(drafts) + 1
  BY Drafted DEF Evidenced

\* Recording a status changes the last attempt and, with it, the session.
LEMMA Recorded ==
  ASSUME NEW s \in Session, s.attempts # <<>>, Len(s.attempts) <= MaxAttempts,
         NEW status \in {"patch_applied", "verification_failed", "verified"}
  PROVE  LET t == AttemptStatusRecorded(s, status)
             n == Len(s.attempts)
         IN /\ t \in Session /\ Len(t.attempts) = n
            /\ \A i \in 1..n : t.attempts[i].fingerprint = s.attempts[i].fingerprint
            /\ \A i \in 1..(n - 1) : t.attempts[i].status = s.attempts[i].status
            /\ t.attempts[n].status = status
            /\ status = "verified" => t.status = "verified"
            /\ status = "patch_applied" => t.status = s.status
            /\ status = "verification_failed" => t.status \in {"needs_user_action", "available"}
<1> DEFINE n == Len(s.attempts)
           t == AttemptStatusRecorded(s, status)
           exhausted == status = "verification_failed" /\ Len(s.attempts) >= MaxAttempts
           changed == [s.attempts EXCEPT ![n].status = status]
<1>1. s.attempts \in Seq(Attempt) /\ n \in Nat /\ n > 0 /\ n \in 1..n
  BY DEF Session
<1>2. /\ changed \in Seq(Attempt) /\ Len(changed) = n
      /\ \A i \in 1..n : changed[i].fingerprint = s.attempts[i].fingerprint
      /\ \A i \in 1..(n - 1) : changed[i].status = s.attempts[i].status
      /\ changed[n].status = status
  <2>1. s.attempts \in [1..n -> Attempt]
    BY <1>1
  <2>2. changed \in [1..n -> Attempt]
    BY <1>1, <2>1 DEF Attempt
  <2>3. changed \in Seq(Attempt) /\ Len(changed) = n
    BY <1>1, <2>2
  <2>4. changed[n] = [s.attempts[n] EXCEPT !.status = status]
        /\ \A i \in 1..(n - 1) : changed[i] = s.attempts[i]
    BY <1>1, <2>1
  <2>5. s.attempts[n] \in Attempt
    BY <1>1, <2>1
  <2> HIDE DEF changed
  <2>6. changed[n].status = status /\ changed[n].fingerprint = s.attempts[n].fingerprint
    BY <2>4, <2>5 DEF Attempt
  <2>7. \A i \in 1..n : i = n \/ i \in 1..(n - 1)
    BY <1>1
  <2> HIDE DEF n
  <2>8. \A i \in 1..n : changed[i].fingerprint = s.attempts[i].fingerprint
    BY <2>4, <2>6, <2>7
  <2>9. \A i \in 1..(n - 1) : changed[i].status = s.attempts[i].status
    BY <2>4
  <2> QED BY <2>3, <2>6, <2>8, <2>9
<1> DEFINE standing == CASE status = "verified" -> "verified"
                         [] exhausted -> "needs_user_action"
                         [] status = "verification_failed" /\ ~exhausted -> "available"
                         [] OTHER -> s.status
           because == IF exhausted THEN "budget_exhausted" ELSE s.reason
<1>3. t = [s EXCEPT !.attempts = changed, !.status = standing, !.reason = because]
  BY DEF AttemptStatusRecorded, Session
<1>4. standing \in {"available", "repairing", "verified", "needs_user_action"}
      /\ because \in StopReason
  BY DEF Session, StopReason
<1> HIDE DEF changed, t, because
<1>5. t.attempts = changed /\ t.status = standing
  BY <1>3 DEF Session
<1>6. t \in Session
  BY <1>2, <1>3, <1>4 DEF Session
<1>7. /\ status = "verified" => t.status = "verified"
      /\ status = "patch_applied" => t.status = s.status
      /\ status = "verification_failed" => t.status \in {"needs_user_action", "available"}
  <2>1. CASE status = "verified"
    BY <1>5, <2>1
  <2>2. CASE status = "patch_applied"
    BY <1>5, <2>2
  <2>3. CASE status = "verification_failed"
    <3>1. CASE exhausted
      BY <1>5, <2>3, <3>1
    <3>2. CASE ~exhausted
      BY <1>5, <2>3, <3>2
    <3> QED BY <2>3, <3>1, <3>2
  <2> QED BY <2>1, <2>2, <2>3
<1> QED BY <1>2, <1>5, <1>6, <1>7 DEF t

\* A route that is ready names a profile fit for the request.
LEMMA ReadyRoute ==
  ASSUME NEW p, NEW override, RouteIsReady(p, override)
  PROVE  /\ Selected(p, override).profile \in Profile
         /\ Capable(Selected(p, override).profile)
  BY DEF RouteIsReady

\* A selection never presents itself as a fallback.
LEMMA SelectedSource ==
  ASSUME NEW p, NEW override
  PROVE  LET s == Selected(p, override)
         IN /\ s = [profile |-> s.profile, source |-> s.source]
            /\ s.source \in SelectionSource \ {"fallback"}
  BY DEF Selected, SelectionSource

LEMMA FailureTypes ==
  \A fate \in Fate \ {"answered"} : FailureOf(fate) \in FailureCode
  BY DEF Fate, FailureOf, FailureCode

-----------------------------------------------------------------------------
LEMMA InitIsSound == Init => IInv
<1> SUFFICES ASSUME Init PROVE IInv
  OBVIOUS
<1>1. /\ drafts = <<>> /\ session.attempts = <<>> /\ session.status = "available"
      /\ place = "verify" /\ answer = NoAnswer
  BY DEF Init, CreatedSession
<1>2. session \in Session /\ Len(session.attempts) = 0
  BY DEF Init, CreatedSession, Session, StopReason
<1>3. TypeOK
  <2>1. call \in Call /\ policy \in Policies
    BY DEF Init, NoCall, Call
  <2>2. place \in Place /\ process \in Process
    BY DEF Init, Place, NoProcess, Process
  <2>3. drafts \in Seq(Evidence) /\ Len(drafts) <= Len(Steps)
    BY <1>1, LoopAssumption
  <2> QED BY <1>1, <1>2, <2>1, <2>2, <2>3, LoopAssumption DEF TypeOK
<1>4. Evidenced /\ Placed /\ Routed /\ VerifiedByEvidence /\ AuthorIsNamed
  BY <1>1 DEF Evidenced, Placed, Repairing, Routed, VerifiedByEvidence, AuthorIsNamed
<1>5. RepairsAreWarranted
  BY <1>1 DEF RepairsAreWarranted, Last
<1> QED BY <1>3, <1>4, <1>5 DEF IInv

\* Steps of the verification leave the session, the call and the answer alone,
\* and go where no provider is called.
LEMMA Verifying ==
  ASSUME IInv, UNCHANGED <<policy, session, call, answer>>, TypeOK', Evidenced',
         \/ place' \in {"step", "running", "thrown"} /\ place # "ended"
         \/ UNCHANGED <<place, drafts>>,
         place' = "running" => Len(drafts') < Len(Steps)
  PROVE  IInv'
<1>1. Placed'
  BY DEF IInv, Placed, Repairing
<1>2. Routed'
  BY DEF IInv, Routed, Route, FallbackProfile
<1>3. RepairsAreWarranted'
  BY DEF IInv, RepairsAreWarranted, Last
<1>4. VerifiedByEvidence'
  BY DEF IInv, VerifiedByEvidence, Placed
<1>5. AuthorIsNamed'
  BY DEF IInv, AuthorIsNamed, Route
<1> QED BY <1>1, <1>2, <1>3, <1>4, <1>5 DEF IInv

LEMMA StepsAreSound ==
  ASSUME IInv, StartVerification \/ NotRun \/ Spawn \/ ManualStep
  PROVE  IInv'
<1>1. CASE StartVerification
  <2>1. Evidenced' /\ drafts' \in Seq(Evidence) /\ Len(drafts') <= Len(Steps)
    BY <1>1, LoopAssumption DEF StartVerification, Evidenced
  <2>2. TypeOK'
    BY <1>1, <2>1 DEF IInv, TypeOK, StartVerification, Place
  <2> QED BY <1>1, <2>1, <2>2, Verifying DEF StartVerification
<1>2. CASE NotRun
  <2>1. PICK category \in {"policy_denied", "command_not_found", "infrastructure_failure"},
             log \in Log :
               drafts' = Append(drafts, [outcome |-> "failed", category |-> category,
                                         log |-> log, late |-> FALSE])
    BY <1>2 DEF NotRun
  <2> DEFINE d == [outcome |-> "failed", category |-> category, log |-> log, late |-> FALSE]
  <2>2. d \in Evidence /\ d.outcome # "passed" /\ d.category # "none"
    BY DEF Evidence, Category
  <2> HIDE DEF d
  <2>3. Evidenced' /\ drafts' \in Seq(Evidence) /\ Len(drafts') = Len(drafts) + 1
    BY <2>1, <2>2, DraftIsEvidenced DEF IInv, TypeOK, d
  <2>4. Len(drafts) \in Nat /\ Len(drafts) < Len(Steps) /\ Len(Steps) \in Nat /\ place = "step"
    BY <1>2, LoopAssumption DEF NotRun, AtStep, IInv, TypeOK
  <2>5. TypeOK'
    BY <1>2, <2>3, <2>4 DEF IInv, TypeOK, NotRun
  <2> QED BY <1>2, <2>3, <2>4, <2>5, Verifying DEF NotRun
<1>3. CASE Spawn
  <2>1. place = "step" /\ Len(drafts) < Len(Steps) /\ drafts' = drafts /\ process' \in Process
    BY <1>3 DEF Spawn, AtStep, NoProcess, Process
  <2>2. TypeOK' /\ Evidenced'
    BY <1>3, <2>1 DEF IInv, TypeOK, Evidenced, Spawn, Place
  <2> QED BY <1>3, <2>1, <2>2, Verifying DEF Spawn
<1>4. CASE ManualStep
  <2>1. PICK outcome \in {"passed", "failed", "requires_review"} :
               drafts' = Append(drafts,
                 [outcome |-> outcome, log |-> AnyLog, late |-> FALSE,
                  category |-> IF outcome = "passed" THEN "none" ELSE "policy_denied"])
    BY <1>4 DEF ManualStep
  <2> DEFINE d == [outcome |-> outcome, log |-> AnyLog, late |-> FALSE,
                   category |-> IF outcome = "passed" THEN "none" ELSE "policy_denied"]
  <2>0. AnyLog \in Log
    BY LoopAssumption DEF AnyLog
  <2>2. d \in Evidence /\ ~d.late /\ (d.outcome = "failed" => d.category # "none")
    BY <2>0 DEF Evidence, Category
  <2> HIDE DEF d
  <2>3. Evidenced' /\ drafts' \in Seq(Evidence) /\ Len(drafts') = Len(drafts) + 1
    BY <2>1, <2>2, DraftIsEvidenced DEF IInv, TypeOK, d
  <2>4. Len(drafts) \in Nat /\ Len(drafts) < Len(Steps) /\ Len(Steps) \in Nat /\ place = "step"
    BY <1>4, LoopAssumption DEF ManualStep, AtStep, IInv, TypeOK
  <2>5. TypeOK'
    BY <1>4, <2>3, <2>4 DEF IInv, TypeOK, ManualStep
  <2> QED BY <1>4, <2>3, <2>4, <2>5, Verifying DEF ManualStep
<1> QED BY <1>1, <1>2, <1>3, <1>4

LEMMA ProcessIsSound ==
  ASSUME IInv, ChildEnds \/ Timeout \/ Kill \/ DescendantEnds
  PROVE  IInv'
<1>1. UNCHANGED <<policy, session, place, drafts, call, answer>>
  BY DEF ChildEnds, Timeout, Kill, DescendantEnds
<1>2. process \in Process
  BY DEF IInv, TypeOK
<1>3. process' \in Process
  <2>1. CASE ChildEnds
    BY <1>2, <2>1 DEF ChildEnds, Process
  <2>2. CASE Timeout
    BY <1>2, <2>2 DEF Timeout, Process
  <2>3. CASE Kill
    BY <1>2, <2>3 DEF Kill, Process
  <2>4. CASE DescendantEnds
    BY <1>2, <2>4 DEF DescendantEnds, Process
  <2> QED BY <2>1, <2>2, <2>3, <2>4
<1>4. TypeOK' /\ Evidenced'
  BY <1>1, <1>3 DEF IInv, TypeOK, Evidenced
<1> QED BY <1>1, <1>4, Verifying DEF IInv, Placed

\* A result says passed only of a command whose timer had not fired.
LEMMA CloseIsSound == ASSUME IInv, Close PROVE IInv'
<1>1. /\ place = "running" /\ Len(drafts) < Len(Steps) /\ drafts \in Seq(Evidence)
      /\ process \in Process /\ Evidenced /\ Len(drafts) \in Nat /\ Len(Steps) \in Nat
  BY LoopAssumption DEF Close, IInv, TypeOK, Placed
<1>2. process' \in Process
  BY DEF Close, NoProcess, Process
<1>3. CASE ResultIsValid(process) /\ place' = "step"
  <2>1. PICK log \in Log :
          drafts' = Append(drafts,
            [outcome |-> IF process.code = 0 THEN "passed" ELSE "failed",
             category |-> ResultCategory(process), log |-> log,
             late |-> process.timer # "armed"])
    BY <1>3 DEF Close
  <2> DEFINE d == [outcome |-> IF process.code = 0 THEN "passed" ELSE "failed",
                   category |-> ResultCategory(process), log |-> log,
                   late |-> process.timer # "armed"]
  <2>2. d \in Evidence
    BY DEF Evidence, Category, ResultCategory
  <2>3. /\ d.outcome = "passed" => ~d.late
        /\ d.outcome = "failed" => d.category # "none"
    BY <1>1, <1>3 DEF ResultIsValid, ResultCategory, Process
  <2> HIDE DEF d
  <2>4. Evidenced' /\ drafts' \in Seq(Evidence) /\ Len(drafts') = Len(drafts) + 1
    BY <1>1, <2>1, <2>2, <2>3, DraftIsEvidenced DEF d
  <2>5. TypeOK'
    BY <1>1, <1>2, <1>3, <2>4 DEF IInv, TypeOK, Close, Place
  <2> QED BY <1>1, <1>3, <2>4, <2>5, Verifying DEF Close
<1>4. CASE drafts' = <<>> /\ place' = "thrown"
  <2>1. Evidenced' /\ drafts' \in Seq(Evidence) /\ Len(drafts') <= Len(Steps)
    BY <1>4, LoopAssumption DEF Evidenced
  <2>2. TypeOK'
    BY <1>2, <1>4, <2>1 DEF IInv, TypeOK, Close, Place
  <2> QED BY <1>1, <1>4, <2>1, <2>2, Verifying DEF Close
<1> QED BY <1>3, <1>4 DEF Close
-----------------------------------------------------------------------------
(* The session.                                                            *)

Warranted(s) ==
  LET n == Len(s.attempts)
      tried == s.attempts
  IN /\ \A i \in 1..n : tried[i].fingerprint.category = "verification_failed"
     /\ \A i, j \in 1..n : tried[i].fingerprint = tried[j].fingerprint => i = j
     /\ \A i \in 1..(n - 1) : tried[i].status = "verification_failed"
     /\ s.status = "repairing" <=> n > 0 /\ tried[n].status \in {"proposed", "patch_applied"}
     /\ s.status = "verified" <=> n > 0 /\ tried[n].status = "verified"

LEMMA WarrantedSession == RepairsAreWarranted <=> Warranted(session)
  BY DEF RepairsAreWarranted, Warranted, Last

LEMMA RecordedIsWarranted ==
  ASSUME NEW s \in Session, Warranted(s), s.status = "repairing",
         Len(s.attempts) <= MaxAttempts,
         NEW status \in {"patch_applied", "verification_failed", "verified"}
  PROVE  LET t == AttemptStatusRecorded(s, status)
         IN /\ t \in Session /\ Len(t.attempts) = Len(s.attempts) /\ Warranted(t)
            /\ status = "patch_applied" => t.status = "repairing"
            /\ t.status = "verified" => status = "verified"
<1> DEFINE t == AttemptStatusRecorded(s, status)
           n == Len(s.attempts)
<1>1. n \in Nat /\ n > 0 /\ s.attempts # <<>>
  BY DEF Session, Warranted
<1>2. /\ t \in Session /\ Len(t.attempts) = n
      /\ \A i \in 1..n : t.attempts[i].fingerprint = s.attempts[i].fingerprint
      /\ \A i \in 1..(n - 1) : t.attempts[i].status = s.attempts[i].status
      /\ t.attempts[n].status = status
      /\ status = "verified" => t.status = "verified"
      /\ status = "patch_applied" => t.status = s.status
      /\ status = "verification_failed" => t.status \in {"needs_user_action", "available"}
  BY <1>1, Recorded
<1> HIDE DEF t
<1>3. /\ \A i \in 1..n : s.attempts[i].fingerprint.category = "verification_failed"
      /\ \A i, j \in 1..n : s.attempts[i].fingerprint = s.attempts[j].fingerprint => i = j
      /\ \A i \in 1..(n - 1) : s.attempts[i].status = "verification_failed"
  BY DEF Warranted
<1> HIDE DEF n
<1>4. \A i \in 1..n : t.attempts[i].fingerprint.category = "verification_failed"
  BY <1>2, <1>3
<1>5. \A i, j \in 1..n : t.attempts[i].fingerprint = t.attempts[j].fingerprint => i = j
  BY <1>2, <1>3
<1>6. \A i \in 1..(n - 1) : t.attempts[i].status = "verification_failed"
  BY <1>2, <1>3
<1>7. /\ t.status = "repairing" <=> status = "patch_applied"
      /\ t.status = "verified" <=> status = "verified"
  BY <1>2
<1>8. Warranted(t)
  BY <1>1, <1>2, <1>4, <1>5, <1>6, <1>7 DEF Warranted
<1> QED BY <1>2, <1>7, <1>8 DEF t, n

LEMMA StoppedIsWarranted ==
  ASSUME session \in Session, session.status = "available", Warranted(session),
         NEW reason \in StopReason
  PROVE  /\ Stopped(reason) \in Session /\ Warranted(Stopped(reason))
         /\ Stopped(reason).attempts = session.attempts
         /\ Stopped(reason).status = "needs_user_action"
<1> DEFINE t == Stopped(reason)
<1>1. t \in Session /\ t.attempts = session.attempts /\ t.status = "needs_user_action"
  BY DEF Stopped, Session
<1> HIDE DEF t
<1>2. Warranted(t)
  BY <1>1 DEF Warranted
<1> QED BY <1>1, <1>2 DEF t

\* A new attempt follows failed ones only and repeats none of them.
LEMMA ProposedIsWarranted ==
  ASSUME session \in Session, session.status = "available", Warranted(session),
         NEW f \in Fingerprint, f.category = "verification_failed", ~Repeats(f),
         Last < MaxAttempts
  PROVE  LET t == Proposed(f)
         IN /\ t \in Session /\ Len(t.attempts) = Last + 1 /\ Warranted(t)
            /\ t.status = "repairing"
<1> DEFINE x == [fingerprint |-> f, status |-> "proposed"]
           tried == session.attempts
           t == Proposed(f)
<1>1. x \in Attempt /\ tried \in Seq(Attempt) /\ Last \in Nat /\ Len(tried) = Last
  BY DEF Attempt, Session, Last
<1>2. x.fingerprint = f /\ x.status = "proposed"
  OBVIOUS
<1>0. t = [session EXCEPT !.status = "repairing", !.attempts = Append(@, x)]
  BY DEF Proposed
<1> HIDE DEF x, t
<1>3. t.attempts = Append(tried, x) /\ t.status = "repairing"
  BY <1>0 DEF Session
<1>4. /\ Append(tried, x) \in Seq(Attempt) /\ Len(Append(tried, x)) = Last + 1
      /\ \A i \in 1..Last : Append(tried, x)[i] = tried[i]
      /\ Append(tried, x)[Last + 1] = x
  BY <1>1
<1>5. t \in Session
  BY <1>0, <1>4 DEF Session
<1>6. /\ \A i \in 1..Last : tried[i].fingerprint.category = "verification_failed"
      /\ \A i, j \in 1..Last : tried[i].fingerprint = tried[j].fingerprint => i = j
      /\ \A i \in 1..Last : tried[i].fingerprint # f
  BY <1>1 DEF Warranted, Repeats
<1>7. \A i \in 1..Last : tried[i].status = "verification_failed"
  <2>1. Last > 0 => tried[Last].status \notin {"proposed", "patch_applied", "verified"}
                    /\ tried[Last] \in Attempt
    BY <1>1 DEF Warranted
  <2>2. Last > 0 => tried[Last].status = "verification_failed"
    BY <2>1 DEF Attempt
  <2>3. \A i \in 1..Last : i = Last \/ i \in 1..(Last - 1)
    BY <1>1
  <2>4. \A i \in 1..(Last - 1) : tried[i].status = "verification_failed"
    BY <1>1 DEF Warranted
  <2> QED BY <1>1, <2>2, <2>3, <2>4
<1>8. \A i \in 1..(Last + 1) : i = Last + 1 \/ i \in 1..Last
  BY <1>1
<1> DEFINE new == t.attempts
           n == Last + 1
<1>9. /\ new[n] = x /\ n \in Nat /\ n > 0 /\ n - 1 = Last /\ Len(new) = n
      /\ \A i \in 1..Last : new[i] = tried[i]
  BY <1>1, <1>3, <1>4
<1>10. \A i \in 1..n : new[i].fingerprint.category = "verification_failed"
  BY <1>2, <1>6, <1>8, <1>9
<1>11. \A i, j \in 1..n : new[i].fingerprint = new[j].fingerprint => i = j
  BY <1>2, <1>6, <1>8, <1>9
<1>12. \A i \in 1..(n - 1) : new[i].status = "verification_failed"
  BY <1>7, <1>9
<1>13. Warranted(t)
  BY <1>2, <1>3, <1>9, <1>10, <1>11, <1>12 DEF Warranted
<1> QED BY <1>3, <1>5, <1>9, <1>13 DEF t, x

LEMMA DecisionIsWarranted ==
  ASSUME session \in Session, session.status = "available", Warranted(session),
         Last <= MaxAttempts, NEW e \in Evidence, e.category # "none",
         NEW f \in Fingerprint, f.category = e.category
  PROVE  LET t == Decision(e, f)
         IN /\ t \in Session /\ Len(t.attempts) <= MaxAttempts /\ Warranted(t)
            /\ t.status \in {"repairing", "needs_user_action"}
            /\ Len(t.attempts) = IF t.status = "repairing" THEN Last + 1 ELSE Last
<1> DEFINE Good(t) ==
      /\ t \in Session /\ Len(t.attempts) <= MaxAttempts /\ Warranted(t)
      /\ t.status \in {"repairing", "needs_user_action"}
      /\ Len(t.attempts) = IF t.status = "repairing" THEN Last + 1 ELSE Last
<1>1. \A reason \in StopReason : Good(Stopped(reason))
  BY StoppedIsWarranted DEF Last
<1>2. Last \in Nat /\ MaxAttempts \in Nat
  BY LoopAssumption DEF Last, Session
<1>3. CASE e.category = "policy_denied"
  <2>1. Decision(e, f) = Stopped("policy_failure")
    BY <1>3 DEF Decision
  <2> QED BY <1>1, <2>1 DEF StopReason
<1>4. CASE e.category \in {"command_not_found", "timeout", "infrastructure_failure"}
  <2>1. Decision(e, f) = Stopped("infrastructure_failure")
    BY <1>4 DEF Decision
  <2> QED BY <1>1, <2>1 DEF StopReason
<1>5. CASE e.category = "verification_failed" /\ Repeats(f)
  <2>1. Decision(e, f) = Stopped("repeated_failure")
    BY <1>5 DEF Decision
  <2> QED BY <1>1, <2>1 DEF StopReason
<1>6. CASE e.category = "verification_failed" /\ ~Repeats(f) /\ Last >= MaxAttempts
  <2>1. Decision(e, f) = Stopped("budget_exhausted")
    BY <1>6 DEF Decision
  <2> QED BY <1>1, <2>1 DEF StopReason
<1>7. CASE e.category = "verification_failed" /\ ~Repeats(f) /\ ~(Last >= MaxAttempts)
  <2> DEFINE t == Proposed(f)
  <2>1. Decision(e, f) = t
    BY <1>7 DEF Decision
  <2>2. Last < MaxAttempts /\ f.category = "verification_failed" /\ ~Repeats(f)
    BY <1>2, <1>7
  <2>3. t \in Session /\ Len(t.attempts) = Last + 1 /\ Warranted(t) /\ t.status = "repairing"
    BY <2>2, ProposedIsWarranted
  <2> HIDE DEF t
  <2> QED BY <1>2, <2>1, <2>2, <2>3
<1>8. e.category \in Category
  BY DEF Evidence
<1> QED BY <1>3, <1>4, <1>5, <1>6, <1>7, <1>8 DEF Category

\* The steps that decide about the session.
LEMMA FinishIsSound == ASSUME IInv, FinishVerification PROVE IInv'
<1> DEFINE status == ManifestStatus(drafts)
           settled == CASE status = "passed" -> "verified"
                        [] status = "failed" -> "verification_failed"
                        [] OTHER -> "none"
<1>1. /\ place = "step" /\ Len(drafts) = Len(Steps)
      /\ UNCHANGED <<policy, process, drafts, call, answer>>
      /\ session' = IF session.status = "repairing" /\ settled # "none"
                    THEN AttemptStatusRecorded(session, settled) ELSE session
      /\ place' = CASE status = "passed" -> "ended"
                    [] status = "failed" -> "judge"
                    [] OTHER -> "review"
  BY DEF FinishVerification
<1>2. /\ status = "passed" => settled = "verified" /\ place' = "ended"
      /\ place' \in {"ended", "judge", "review"}
      /\ settled \in {"verified", "verification_failed", "none"}
      /\ settled = "verified" => status = "passed"
  BY <1>1
<1>3. status = "passed" =>
        /\ \A i \in DOMAIN Steps \ Optional : drafts[i].outcome = "passed"
        /\ \A i \in DOMAIN drafts :
             drafts[i].outcome # "failed" /\ (drafts[i].late => drafts[i].outcome # "passed")
  BY DEF ManifestStatus, RequiredPassed, IInv, Evidenced
<1> HIDE DEF status, settled
<1>4. session \in Session /\ Len(session.attempts) <= MaxAttempts /\ Warranted(session)
      /\ session.status # "verified"
  BY <1>1, WarrantedSession DEF IInv, TypeOK, Placed
<1>5. /\ session' \in Session /\ Len(session'.attempts) <= MaxAttempts
      /\ Warranted(session')
      /\ session'.status = "verified" => status = "passed"
  <2>1. CASE session.status = "repairing" /\ settled # "none"
    <3>1. settled \in {"patch_applied", "verification_failed", "verified"}
      BY <1>2, <2>1
    <3> QED BY <1>1, <1>2, <1>4, <2>1, <3>1, RecordedIsWarranted
  <2>2. CASE ~(session.status = "repairing" /\ settled # "none")
    BY <1>1, <1>4, <2>2
  <2> QED BY <2>1, <2>2
<1>6. TypeOK'
  BY <1>1, <1>2, <1>5 DEF IInv, TypeOK, Place
<1>7. Placed'
  BY <1>2, <1>5 DEF Placed, Repairing
<1>8. Evidenced' /\ VerifiedByEvidence'
  BY <1>1, <1>3, <1>5 DEF IInv, Evidenced, VerifiedByEvidence
<1>9. Routed' /\ AuthorIsNamed'
  BY <1>1, <1>2 DEF IInv, Routed, AuthorIsNamed, Route
<1>10. RepairsAreWarranted'
  BY <1>5 DEF Warranted, RepairsAreWarranted, Last
<1> QED BY <1>6, <1>7, <1>8, <1>9, <1>10 DEF IInv

LEMMA RequestIsSound == ASSUME IInv, RequestRepair PROVE IInv'
<1>1. PICK i \in DOMAIN drafts :
        /\ drafts[i].outcome = "failed"
        /\ session' = Decision(drafts[i], [step |-> i, category |-> drafts[i].category,
                                           log |-> drafts[i].log])
  BY DEF RequestRepair
<1> DEFINE f == [step |-> i, category |-> drafts[i].category, log |-> drafts[i].log]
<1>2. drafts[i] \in Evidence /\ drafts[i].category # "none" /\ i \in DOMAIN Steps
  BY <1>1, LoopAssumption DEF IInv, TypeOK, Evidenced
<1>3. f \in Fingerprint /\ f.category = drafts[i].category
  BY <1>2 DEF Fingerprint, Evidence
<1>4. /\ session \in Session /\ Warranted(session) /\ Last <= MaxAttempts
      /\ session.status = "available"
  BY WarrantedSession DEF IInv, TypeOK, RequestRepair, MayRequest, Last
<1> HIDE DEF f
<1>5. /\ session' \in Session /\ Len(session'.attempts) <= MaxAttempts
      /\ Warranted(session') /\ session'.status # "verified"
  BY <1>1, <1>2, <1>3, <1>4, DecisionIsWarranted DEF f
<1>6. /\ place' = IF session'.status = "repairing" THEN "route" ELSE "ended"
      /\ UNCHANGED <<policy, process, drafts, call, answer>>
  BY DEF RequestRepair
<1>7. TypeOK'
  BY <1>5, <1>6 DEF IInv, TypeOK, Place
<1>8. Placed' /\ Evidenced' /\ VerifiedByEvidence'
  BY <1>5, <1>6 DEF IInv, Placed, Repairing, Evidenced, VerifiedByEvidence
<1>9. Routed' /\ AuthorIsNamed'
  BY <1>6 DEF IInv, Routed, AuthorIsNamed, Route
<1>10. RepairsAreWarranted'
  BY <1>5 DEF Warranted, RepairsAreWarranted, Last
<1> QED BY <1>7, <1>8, <1>9, <1>10 DEF IInv

LEMMA ApplyIsSound == ASSUME IInv, ApplyAnswer PROVE IInv'
<1>1. /\ place = "patch" /\ place' \in {"verify", "stuck"}
      /\ UNCHANGED <<policy, process, drafts, call, answer>>
  BY DEF ApplyAnswer
<1>2. /\ session \in Session /\ Len(session.attempts) <= MaxAttempts
      /\ Warranted(session) /\ session.status = "repairing"
  BY <1>1, WarrantedSession DEF IInv, TypeOK, Placed, Repairing
<1>3. /\ session' \in Session /\ Len(session'.attempts) <= MaxAttempts
      /\ Warranted(session') /\ session'.status = "repairing"
  <2>1. CASE session' = AttemptStatusRecorded(session, "patch_applied")
    BY <1>2, <2>1, RecordedIsWarranted
  <2>2. CASE session' = session
    BY <1>2, <2>2
  <2> QED BY <2>1, <2>2 DEF ApplyAnswer
<1>4. TypeOK'
  BY <1>1, <1>3 DEF IInv, TypeOK, Place
<1>5. Placed' /\ Evidenced' /\ VerifiedByEvidence'
  BY <1>1, <1>3 DEF IInv, Placed, Repairing, Evidenced, VerifiedByEvidence
<1>6. Routed' /\ AuthorIsNamed'
  BY <1>1 DEF IInv, Routed, AuthorIsNamed, Route
<1>7. RepairsAreWarranted'
  BY <1>3 DEF Warranted, RepairsAreWarranted, Last
<1> QED BY <1>4, <1>5, <1>6, <1>7 DEF IInv

-----------------------------------------------------------------------------
(* The model call.                                                         *)

\* Steps of a call leave the session and its evidence alone.
LEMMA Calling ==
  ASSUME IInv, UNCHANGED <<session, process, drafts>>, policy' \in Policies,
         \/ place' = place
         \/ place \in Repairing /\ place' \in Repairing
         \/ place' = "ended" /\ place \notin Repairing,
         call' \in Call, answer' \in Answer \cup {NoAnswer}, Routed', AuthorIsNamed'
  PROVE  IInv'
<1>1. TypeOK'
  <2>1. place' \in Place
    BY DEF IInv, TypeOK, Place, Repairing
  <2>2. session' \in Session /\ Len(session'.attempts) <= MaxAttempts
    BY DEF IInv, TypeOK
  <2>3. process' \in Process /\ drafts' \in Seq(Evidence) /\ Len(drafts') <= Len(Steps)
    BY DEF IInv, TypeOK
  <2> QED BY <2>1, <2>2, <2>3 DEF TypeOK
<1>2. Placed' /\ Evidenced' /\ VerifiedByEvidence'
  BY DEF IInv, Placed, Evidenced, VerifiedByEvidence, Repairing
<1>3. RepairsAreWarranted'
  BY DEF IInv, RepairsAreWarranted, Last
<1> QED BY <1>1, <1>2, <1>3 DEF IInv

LEMMA IdleIsSound == ASSUME IInv, RequestThrows \/ SavePolicy PROVE IInv'
<1>1. UNCHANGED <<session, process, drafts, call, answer>> /\ policy' \in Policies
  BY DEF IInv, TypeOK, RequestThrows, SavePolicy
<1>2. place' = place \/ (place = "judge" /\ place' = "ended")
  BY DEF RequestThrows, SavePolicy
<1>3. Route' = Route /\ FallbackProfile' = FallbackProfile
  BY <1>1 DEF Route, FallbackProfile
<1>4. Routed'
  BY <1>1, <1>2, <1>3 DEF IInv, Routed
<1>5. AuthorIsNamed'
  BY <1>1, <1>3 DEF IInv, AuthorIsNamed
<1>6. call' \in Call /\ answer' \in Answer \cup {NoAnswer}
  BY <1>1 DEF IInv, TypeOK
<1> QED BY <1>1, <1>2, <1>4, <1>5, <1>6, Calling DEF Repairing

LEMMA InvokeIsSound == ASSUME IInv, Invoke PROVE IInv'
<1>1. PICK override \in Profile \cup {NoProfile}, confirmed \in BOOLEAN :
        /\ call' = [NoCall(policy) EXCEPT !.override = override, !.confirmed = confirmed]
        /\ place' = IF /\ RouteIsReady(policy, override)
                       /\ HasAdapter(Selected(policy, override).profile)
                    THEN "primary" ELSE "paused"
  BY DEF Invoke
<1>2. /\ call'.policy = policy /\ call'.override = override /\ call' \in Call
      /\ policy \in Policies
  BY <1>1 DEF IInv, TypeOK, NoCall, Call
<1>3. answer' = NoAnswer /\ UNCHANGED <<policy, session, process, drafts>>
      /\ place \in Repairing /\ place' \in {"primary", "paused"}
  BY <1>1 DEF Invoke, Repairing
<1>4. place' = "primary" => RouteIsReady(policy, override)
  BY <1>1
<1>5. Route' = Selected(policy, override)
  BY <1>2 DEF Route
<1>6. Routed'
  <2>1. place' = "primary" => Route'.profile \in Profile /\ Capable(Route'.profile)
    BY <1>4, <1>5, ReadyRoute
  <2> QED BY <1>3, <2>1 DEF Routed
<1>7. AuthorIsNamed'
  BY <1>3 DEF AuthorIsNamed
<1> QED BY <1>2, <1>3, <1>6, <1>7, Calling DEF Repairing

\* What a provider's answer is recorded as.
LEMMA AnsweredIsTyped ==
  ASSUME NEW author \in Profile, NEW source \in SelectionSource, Answered(author, source)
  PROVE  /\ answer' \in Answer /\ answer'.author = author /\ place' = "patch"
         /\ answer'.snapshot = [profile |-> author, source |-> source]
  BY DEF Answered, Answer, Snapshot

LEMMA PrimaryIsSound == ASSUME IInv, PrimaryReturns PROVE IInv'
<1>1. /\ place = "primary" /\ Route.profile \in Profile /\ Capable(Route.profile)
      /\ call \in Call /\ answer = NoAnswer /\ policy \in Policies
      /\ UNCHANGED <<policy, session, process, drafts>>
  BY DEF PrimaryReturns, IInv, TypeOK, Routed
<1>2. PICK fate \in Fates(Route.profile) :
        IF fate = "answered"
        THEN call' = call /\ Answered(Route.profile, Route.source)
        ELSE LET code == FailureOf(fate)
             IN /\ call' = [call EXCEPT !.failure = code]
                /\ place' = IF /\ CanFallback(call.policy, Route.profile, code)
                               /\ call.confirmed
                               /\ FallbackIsReady(call.policy)
                               /\ HasAdapter(call.policy.fallback)
                            THEN "fallback" ELSE "paused"
                /\ UNCHANGED answer
  BY DEF PrimaryReturns
<1>3. CASE fate = "answered"
  <2>1. call' = call /\ Answered(Route.profile, Route.source)
    BY <1>2, <1>3
  <2>2. /\ Route = [profile |-> Route.profile, source |-> Route.source]
        /\ Route.source \in SelectionSource \ {"fallback"}
    BY SelectedSource DEF Route
  <2>3. /\ answer' \in Answer /\ answer'.author = Route.profile /\ place' = "patch"
        /\ answer'.snapshot = Route
    BY <1>1, <2>1, <2>2, AnsweredIsTyped
  <2>4. Route' = Route
    BY <2>1 DEF Route
  <2>5. Routed'
    BY <2>3 DEF Routed
  <2>6. AuthorIsNamed'
    BY <1>1, <2>2, <2>3, <2>4 DEF AuthorIsNamed
  <2> QED BY <1>1, <2>1, <2>3, <2>5, <2>6, Calling DEF Repairing
<1>4. CASE fate # "answered"
  <2> DEFINE code == FailureOf(fate)
  <2>1. code \in FailureCode
    BY <1>4, FailureTypes DEF Fates
  <2>2. /\ call' = [call EXCEPT !.failure = code]
        /\ place' \in {"fallback", "paused"} /\ answer' = answer
        /\ place' = "fallback" => /\ CanFallback(call.policy, Route.profile, code)
                                  /\ call.confirmed /\ FallbackIsReady(call.policy)
    BY <1>2, <1>4
  <2> HIDE DEF code
  <2>3. /\ call' \in Call /\ call'.policy = call.policy /\ call'.override = call.override
        /\ call'.confirmed = call.confirmed /\ call'.failure = code
    BY <1>1, <2>1, <2>2 DEF Call
  <2>4. Route' = Route
    BY <2>3 DEF Route
  <2>5. call.policy.fallback \in Profile \cup {NoProfile}
    BY <1>1, LoopAssumption DEF Call, Policy
  <2>6. Routed'
    BY <1>1, <2>2, <2>3, <2>4, <2>5
    DEF Routed, FallbackProfile, CanFallback, FallbackIsReady
  <2>7. AuthorIsNamed'
    BY <1>1, <2>2 DEF AuthorIsNamed
  <2> QED BY <1>1, <2>2, <2>3, <2>6, <2>7, Calling DEF Repairing
<1> QED BY <1>3, <1>4

LEMMA FallbackIsSound == ASSUME IInv, FallbackReturns PROVE IInv'
<1>1. /\ place = "fallback" /\ answer = NoAnswer /\ call \in Call /\ policy \in Policies
      /\ call.confirmed /\ call.failure \in {"unavailable", "timeout"}
      /\ FallbackProfile \in Profile \ {Route.profile} /\ Capable(FallbackProfile)
      /\ call' = call /\ UNCHANGED <<policy, session, process, drafts>>
  BY DEF FallbackReturns, IInv, TypeOK, Routed
<1>2. Route' = Route
  BY <1>1 DEF Route
<1>3. CASE Answered(FallbackProfile, "fallback")
  <2>1. /\ answer' \in Answer /\ answer'.author = FallbackProfile /\ place' = "patch"
        /\ answer'.snapshot = [profile |-> FallbackProfile, source |-> "fallback"]
    BY <1>1, <1>3, AnsweredIsTyped DEF SelectionSource
  <2>2. Routed'
    BY <2>1 DEF Routed
  <2>3. AuthorIsNamed'
    BY <1>1, <1>2, <2>1 DEF AuthorIsNamed, FallbackProfile
  <2> QED BY <1>1, <2>1, <2>2, <2>3, Calling DEF Repairing
<1>4. CASE place' = "paused" /\ UNCHANGED answer
  <2>1. Routed' /\ AuthorIsNamed'
    BY <1>1, <1>4 DEF Routed, AuthorIsNamed
  <2> QED BY <1>1, <1>4, <2>1, Calling DEF Repairing
<1> QED BY <1>3, <1>4 DEF FallbackReturns

LEMMA NextIsSound == IInv /\ [Next]_vars => IInv'
<1> SUFFICES ASSUME IInv, [Next]_vars PROVE IInv'
  OBVIOUS
<1>1. CASE UNCHANGED vars
  BY <1>1 DEF vars, IInv, TypeOK, Evidenced, Placed, Routed, Route, FallbackProfile,
     RepairsAreWarranted, Last, VerifiedByEvidence, AuthorIsNamed
<1> QED BY <1>1, StepsAreSound, ProcessIsSound, CloseIsSound, FinishIsSound,
        RequestIsSound, IdleIsSound, InvokeIsSound, PrimaryIsSound, FallbackIsSound,
        ApplyIsSound DEF Next

\* The loop is well typed, and a session never has more attempts than its
\* budget, whatever commands, providers and users do.
THEOREM TypeCorrect == Spec => []TypeOK
<1>1. IInv => TypeOK
  BY DEF IInv
<1> QED BY <1>1, InitIsSound, NextIsSound, PTL DEF Spec

\* A session's attempts answer ordinary failures, each of them once, each but
\* the last one found wanting by a verification (requestRepair).
THEOREM AttemptsAreWarranted == Spec => []RepairsAreWarranted
<1>1. IInv => RepairsAreWarranted
  BY DEF IInv
<1> QED BY <1>1, InitIsSound, NextIsSound, PTL DEF Spec

\* A session is verified only by a complete verification in which every step
\* the plan requires has passed, no optional one has failed, and none that
\* passed is a command that its timer had interrupted (TaskVerificationService).
THEOREM VerifiedIsEvident == Spec => []VerifiedByEvidence
<1>1. IInv => VerifiedByEvidence
  BY DEF IInv
<1> QED BY <1>1, InitIsSound, NextIsSound, PTL DEF Spec

\* An answer's snapshot names the profile that wrote it, and a fallback wrote
\* it only for an outage, with the user's confirmation and as the policy of
\* that call had it, whatever policies were saved meanwhile.
THEOREM AuthorIsTrue == Spec => []AuthorIsNamed
<1>1. IInv => AuthorIsNamed
  BY DEF IInv
<1> QED BY <1>1, InitIsSound, NextIsSound, PTL DEF Spec

-----------------------------------------------------------------------------
(* The work the executor may still do without the user.                    *)

\* A command is waited for at one place only.
Idle == place # "running" => process = NoProcess

\* Nobody else is known to hold the output of a child that runs.
Alone == process.child = "running" => process.descendant = FALSE

LEMMA IdleInit == Init => Idle
  BY DEF Init, Idle

LEMMA HeldIsSomething == process.descendant => process # NoProcess
<1>1. NoProcess.descendant = FALSE
  BY DEF NoProcess
<1> QED BY <1>1, Zenon

LEMMA IdleNext == Idle /\ [Next]_vars => Idle'
<1> SUFFICES ASSUME Idle, [Next]_vars PROVE Idle'
  OBVIOUS
<1>1. CASE StartVerification \/ NotRun \/ ManualStep
  BY <1>1 DEF Idle, StartVerification, NotRun, ManualStep, AtStep
<1>2. CASE Spawn
  BY <1>2 DEF Idle, Spawn
<1>3. CASE ChildEnds \/ DescendantEnds
  <2>1. process # NoProcess
    <3>1. CASE ChildEnds
      BY <3>1 DEF ChildEnds, NoProcess
    <3>2. CASE DescendantEnds
      BY <3>2, HeldIsSomething, Zenon DEF DescendantEnds
    <3> QED BY <1>3, <3>1, <3>2
  <2>2. place' = place
    BY <1>3 DEF ChildEnds, DescendantEnds
  <2> QED BY <2>1, <2>2 DEF Idle
<1>4. CASE Timeout \/ Kill
  BY <1>4 DEF Idle, Timeout, Kill
<1>5. CASE Close
  BY <1>5 DEF Idle, Close
<1>6. CASE FinishVerification
  BY <1>6 DEF Idle, FinishVerification
<1>7. CASE RequestRepair \/ RequestThrows
  BY <1>7 DEF Idle, RequestRepair, RequestThrows
<1>8. CASE SavePolicy \/ Invoke
  BY <1>8 DEF Idle, SavePolicy, Invoke
<1>9. CASE PrimaryReturns \/ FallbackReturns \/ ApplyAnswer
  BY <1>9 DEF Idle, PrimaryReturns, FallbackReturns, ApplyAnswer
<1>10. CASE UNCHANGED vars
  BY <1>10 DEF Idle, vars
<1> QED BY <1>1, <1>2, <1>3, <1>4, <1>5, <1>6, <1>7, <1>8, <1>9, <1>10 DEF Next

LEMMA AloneInit == Init => Alone
  BY DEF Init, Alone, NoProcess

LEMMA AloneNext == IInv /\ Alone /\ [Next]_vars => Alone'
<1> SUFFICES ASSUME IInv, Alone, [Next]_vars PROVE Alone'
  OBVIOUS
<1>1. process \in Process
  BY DEF IInv, TypeOK
<1>2. CASE UNCHANGED process
  BY <1>2 DEF Alone
<1>3. CASE process' = NoProcess
  BY <1>3 DEF Alone, NoProcess
<1>4. CASE Spawn
  BY <1>4 DEF Alone, Spawn, NoProcess
<1>5. CASE ChildEnds
  BY <1>1, <1>5 DEF Alone, ChildEnds, Process
<1>6. CASE Timeout \/ Kill
  <2>1. process'.descendant = process.descendant
        /\ (process'.child = "running" => process.child = "running")
    BY <1>1, <1>6 DEF Timeout, Kill, Process
  <2> QED BY <2>1 DEF Alone
<1>7. CASE DescendantEnds
  BY <1>1, <1>7 DEF Alone, DescendantEnds, Process
<1>8. \/ UNCHANGED process \/ process' = NoProcess
      \/ Spawn \/ ChildEnds \/ Timeout \/ Kill \/ DescendantEnds
  BY DEF Next, vars, StartVerification, NotRun, ManualStep, Close, FinishVerification,
     RequestRepair, RequestThrows, SavePolicy, Invoke, PrimaryReturns, FallbackReturns,
     ApplyAnswer
<1> QED BY <1>2, <1>3, <1>4, <1>5, <1>6, <1>7, <1>8

\* The work of a command and its timers, and what uses it up.
LEMMA ChildWorkIs ==
  ASSUME NEW p \in Process
  PROVE  /\ ChildWork(p) \in 0..2
         /\ p.child = "running" => ChildWork(p) = 2
         /\ p.child # "running" => ChildWork(p) \in 0..1
         /\ p.child # "running" /\ p.descendant => ChildWork(p) = 1
         /\ p.child # "running" /\ ~p.descendant => ChildWork(p) = 0
<1>1. CASE p.child = "running"
  BY <1>1 DEF ChildWork
<1>2. CASE p.child # "running" /\ p.descendant
  BY <1>2 DEF ChildWork
<1>3. CASE p.child # "running" /\ ~p.descendant
  BY <1>3 DEF ChildWork
<1> QED BY <1>1, <1>2, <1>3

LEMMA TimerWorkIs ==
  ASSUME NEW p \in Process
  PROVE  /\ TimerWork(p) \in 0..2
         /\ p.timer = "armed" => TimerWork(p) = 2
         /\ p.timer = "fired" => TimerWork(p) = 1
         /\ p.timer = "escalated" => TimerWork(p) = 0
  BY DEF TimerWork, Process

LEMMA ProcessWorkIs ==
  ASSUME NEW p \in Process
  PROVE  ProcessWork(p) \in 0..4
  BY ChildWorkIs, TimerWorkIs DEF ProcessWork

\* A child that ends, a timer that goes on and a descendant that lets go use
\* it up.
LEMMA ProcessWorkRunsDown ==
  ASSUME NEW p \in Process, NEW q \in Process,
         \/ p.child = "running" /\ q.child # "running" /\ TimerWork(q) <= TimerWork(p)
         \/ ChildWork(q) = ChildWork(p) /\ p.timer = "armed" /\ q.timer = "fired"
         \/ ChildWork(q) = ChildWork(p) /\ p.timer = "fired" /\ q.timer = "escalated"
         \/ /\ p.child # "running" /\ p.descendant /\ q.child # "running" /\ ~q.descendant
            /\ TimerWork(q) = TimerWork(p)
  PROVE  ProcessWork(q) < ProcessWork(p)
<1>1. /\ ChildWork(p) \in Nat /\ ChildWork(q) \in Nat
      /\ TimerWork(p) \in Nat /\ TimerWork(q) \in Nat
  BY ChildWorkIs, TimerWorkIs
<1>2. CASE p.child = "running" /\ q.child # "running" /\ TimerWork(q) <= TimerWork(p)
  <2>1. ChildWork(p) = 2 /\ ChildWork(q) \in 0..1
    BY <1>2, ChildWorkIs
  <2> QED BY <1>1, <1>2, <2>1 DEF ProcessWork
<1>3. CASE ChildWork(q) = ChildWork(p) /\ p.timer = "armed" /\ q.timer = "fired"
  <2>1. TimerWork(p) = 2 /\ TimerWork(q) = 1
    BY <1>3, TimerWorkIs
  <2> QED BY <1>1, <1>3, <2>1 DEF ProcessWork
<1>4. CASE ChildWork(q) = ChildWork(p) /\ p.timer = "fired" /\ q.timer = "escalated"
  <2>1. TimerWork(p) = 1 /\ TimerWork(q) = 0
    BY <1>4, TimerWorkIs
  <2> QED BY <1>1, <1>4, <2>1 DEF ProcessWork
<1>5. CASE /\ p.child # "running" /\ p.descendant /\ q.child # "running" /\ ~q.descendant
           /\ TimerWork(q) = TimerWork(p)
  <2>1. ChildWork(p) = 1 /\ ChildWork(q) = 0
    BY <1>5, ChildWorkIs
  <2> QED BY <1>1, <1>5, <2>1 DEF ProcessWork
<1> QED BY <1>2, <1>3, <1>4, <1>5

LEMMA PlaceWorkIs ==
  ASSUME NEW done \in 0..Len(Steps), NEW p \in Process
  PROVE  /\ Len(Steps) \in Nat \ {0}
         /\ VerificationWork \in Nat /\ VerificationWork = 6 * Len(Steps) + 3
         /\ ProcessWork(p) \in 0..4
         /\ PlaceWork("route", done, p) = VerificationWork + 4
         /\ PlaceWork("primary", done, p) = VerificationWork + 3
         /\ PlaceWork("fallback", done, p) = VerificationWork + 2
         /\ PlaceWork("patch", done, p) = VerificationWork + 1
         /\ PlaceWork("verify", done, p) = VerificationWork
         /\ PlaceWork("step", done, p) = 6 * (Len(Steps) - done) + 2
         /\ PlaceWork("running", done, p) = 6 * (Len(Steps) - done) - 3 + ProcessWork(p)
         /\ PlaceWork("judge", done, p) = 1
         /\ \A at \in {"thrown", "review", "paused", "stuck", "ended"} :
              PlaceWork(at, done, p) = 0
<1>1. Len(Steps) \in Nat \ {0}
  BY LoopAssumption
<1>2. ProcessWork(p) \in 0..4
  BY ProcessWorkIs
<1> QED BY <1>1, <1>2 DEF PlaceWork, VerificationWork

LEMMA PlaceWorkIsNat ==
  ASSUME NEW done \in 0..Len(Steps), NEW p \in Process, NEW at \in Place,
         at = "running" => done < Len(Steps)
  PROVE  PlaceWork(at, done, p) \in Nat
<1>1. Len(Steps) \in Nat /\ done \in Nat /\ done <= Len(Steps)
  BY LoopAssumption
<1>2. VerificationWork \in Nat /\ ProcessWork(p) \in 0..4
  BY PlaceWorkIs
<1>3. CASE at = "running"
  <2>1. PlaceWork(at, done, p) = 6 * (Len(Steps) - done) - 3 + ProcessWork(p)
    BY <1>3, PlaceWorkIs
  <2> QED BY <1>1, <1>2, <1>3, <2>1
<1>4. CASE at = "step"
  <2>1. PlaceWork(at, done, p) = 6 * (Len(Steps) - done) + 2
    BY <1>4, PlaceWorkIs
  <2> QED BY <1>1, <2>1
<1>5. CASE at \notin {"running", "step"}
  <2>1. PlaceWork(at, done, p) \in {VerificationWork + 4, VerificationWork + 3,
          VerificationWork + 2, VerificationWork + 1, VerificationWork, 1, 0}
    BY <1>5, PlaceWorkIs DEF Place
  <2> QED BY <1>2, <2>1
<1> QED BY <1>3, <1>4, <1>5

\* What an invariant says of the measure's terms.
LEMMA Measured ==
  IInv => /\ Last \in Nat /\ MaxAttempts \in Nat /\ Last <= MaxAttempts
          /\ Len(drafts) \in 0..Len(Steps) /\ process \in Process
          /\ PlaceWork(place, Len(drafts), process) \in Nat
<1> SUFFICES ASSUME IInv PROVE
      /\ Last \in Nat /\ MaxAttempts \in Nat /\ Last <= MaxAttempts
      /\ Len(drafts) \in 0..Len(Steps) /\ process \in Process
      /\ PlaceWork(place, Len(drafts), process) \in Nat
  OBVIOUS
<1>1. Last \in Nat /\ MaxAttempts \in Nat /\ Last <= MaxAttempts
  BY LoopAssumption DEF IInv, TypeOK, Session, Last
<1>2. Len(drafts) \in 0..Len(Steps) /\ process \in Process /\ place \in Place
  BY LoopAssumption DEF IInv, TypeOK
<1>3. place = "running" => Len(drafts) < Len(Steps)
  BY DEF IInv, Placed
<1> QED BY <1>1, <1>2, <1>3, PlaceWorkIsNat

LEMMA Products ==
  ASSUME NEW a \in Nat, NEW b \in Nat
  PROVE  a * b \in Nat /\ (a + 1) * b = a * b + b
  OBVIOUS

WorkSpent == Last' >= Last /\ Work' \in Nat /\ Work' < Work

\* Between attempts it is enough that the work of the place runs down.
LEMMA Spent ==
  ASSUME IInv, NEW n \in 0..Len(Steps), NEW p \in Process, NEW at \in Place,
         at = "running" => n < Len(Steps),
         place' = at, Len(drafts') = n, process' = p, Last' = Last,
         PlaceWork(at, n, p) < PlaceWork(place, Len(drafts), process)
  PROVE  WorkSpent
<1> DEFINE rest == (MaxAttempts - Last) * (VerificationWork + 5)
<1>1. /\ Last \in Nat /\ MaxAttempts - Last \in Nat /\ VerificationWork + 5 \in Nat
      /\ PlaceWork(place, Len(drafts), process) \in Nat
  <2>1. VerificationWork \in Nat
    BY PlaceWorkIs
  <2> QED BY <2>1, Measured
<1>2. rest \in Nat
  BY <1>1, Products
<1>3. PlaceWork(at, n, p) \in Nat
  BY PlaceWorkIsNat
<1>4. Work' = rest + PlaceWork(at, n, p)
  BY DEF Work, VerificationWork
<1>5. Work = rest + PlaceWork(place, Len(drafts), process)
  BY DEF Work
<1> HIDE DEF rest
<1> QED BY <1>1, <1>2, <1>3, <1>4, <1>5 DEF WorkSpent

LEMMA StepsSpend ==
  ASSUME IInv, NotRun \/ Spawn \/ ManualStep \/ (place = "verify" /\ StartVerification)
  PROVE  WorkSpent
<1>1. /\ Len(drafts) \in 0..Len(Steps) /\ process \in Process /\ Len(Steps) \in Nat \ {0}
      /\ drafts \in Seq(Evidence)
  BY Measured, LoopAssumption DEF IInv, TypeOK
<1>2. Last' = Last
  BY DEF NotRun, Spawn, ManualStep, StartVerification, Last
<1>3. CASE NotRun \/ ManualStep
  <2>1. /\ place = "step" /\ place' = "step" /\ process' = process
        /\ Len(drafts) < Len(Steps) /\ Len(drafts') = Len(drafts) + 1
    <3>1. place = "step" /\ place' = "step" /\ process' = process /\ Len(drafts) < Len(Steps)
      BY <1>3 DEF NotRun, ManualStep, AtStep
    <3>2. \E d : drafts' = Append(drafts, d)
      BY <1>3 DEF NotRun, ManualStep
    <3> QED BY <1>1, <3>1, <3>2
  <2>2. Len(drafts) + 1 \in 0..Len(Steps)
    BY <1>1, <2>1
  <2>3. PlaceWork("step", Len(drafts) + 1, process) < PlaceWork("step", Len(drafts), process)
    <3>1. PlaceWork("step", Len(drafts) + 1, process) = 6 * (Len(Steps) - (Len(drafts) + 1)) + 2
      BY <1>1, <2>2, PlaceWorkIs
    <3>2. PlaceWork("step", Len(drafts), process) = 6 * (Len(Steps) - Len(drafts)) + 2
      BY <1>1, PlaceWorkIs
    <3> QED BY <1>1, <3>1, <3>2
  <2> QED BY <1>1, <1>2, <2>1, <2>2, <2>3, Spent DEF Place
<1>4. CASE Spawn
  <2> DEFINE p == [NoProcess EXCEPT !.child = "running"]
  <2>1. /\ place = "step" /\ place' = "running" /\ process' = p /\ drafts' = drafts
        /\ Len(drafts) < Len(Steps)
    BY <1>4 DEF Spawn, AtStep
  <2>2. p \in Process
    BY DEF NoProcess, Process
  <2> HIDE DEF p
  <2>3. PlaceWork("running", Len(drafts), p) < PlaceWork("step", Len(drafts), process)
    <3>1. /\ PlaceWork("running", Len(drafts), p) = 6 * (Len(Steps) - Len(drafts)) - 3 + ProcessWork(p)
          /\ ProcessWork(p) \in 0..4
      BY <1>1, <2>2, PlaceWorkIs
    <3>2. PlaceWork("step", Len(drafts), process) = 6 * (Len(Steps) - Len(drafts)) + 2
      BY <1>1, PlaceWorkIs
    <3> QED BY <1>1, <3>1, <3>2
  <2> QED BY <1>1, <1>2, <2>1, <2>2, <2>3, Spent DEF Place
<1>5. CASE place = "verify" /\ StartVerification
  <2>1. place = "verify" /\ place' = "step" /\ process' = process /\ Len(drafts') = 0
    BY <1>5 DEF StartVerification
  <2>2. PlaceWork("step", 0, process) < PlaceWork("verify", Len(drafts), process)
    <3>1. PlaceWork("step", 0, process) = 6 * (Len(Steps) - 0) + 2
      BY <1>1, PlaceWorkIs
    <3>2. PlaceWork("verify", Len(drafts), process) = 6 * Len(Steps) + 3
      BY <1>1, PlaceWorkIs
    <3> QED BY <1>1, <3>1, <3>2
  <2> QED BY <1>1, <1>2, <2>1, <2>2, Spent DEF Place
<1> QED BY <1>3, <1>4, <1>5

LEMMA ProcessSpends ==
  ASSUME IInv, Idle, Alone, IInv', ChildEnds \/ Timeout \/ Kill \/ DescendantEnds
  PROVE  WorkSpent
<1>1. /\ Len(drafts) \in 0..Len(Steps) /\ process \in Process /\ process' \in Process
      /\ Len(Steps) \in Nat \ {0}
  BY Measured, LoopAssumption DEF IInv, TypeOK
<1>2. UNCHANGED <<session, place, drafts>> /\ Last' = Last
  BY DEF ChildEnds, Timeout, Kill, DescendantEnds, Last
<1>3. place = "running" /\ Len(drafts) < Len(Steps)
  <2>1. ChildEnds => place = "running"
    <3>1. ChildEnds => process.child = "running"
      BY DEF ChildEnds
    <3>2. NoProcess.child # "running"
      BY DEF NoProcess
    <3> QED BY <3>1, <3>2 DEF Idle
  <2>2. Timeout \/ Kill => place = "running"
    BY DEF Timeout, Kill
  <2>3. DescendantEnds => place = "running"
    BY HeldIsSomething DEF DescendantEnds, Idle
  <2>4. place = "running"
    BY <2>1, <2>2, <2>3
  <2> QED BY <2>4 DEF IInv, Placed
<1>4. ProcessWork(process') < ProcessWork(process)
  <2>1. CASE ChildEnds
    <3>1. /\ process.child = "running" /\ process'.child = "ended"
          /\ process'.timer = process.timer
      BY <1>1, <2>1 DEF ChildEnds, Process
    <3>2. TimerWork(process') = TimerWork(process) /\ TimerWork(process) \in Nat
      BY <1>1, <3>1, TimerWorkIs DEF TimerWork
    <3> QED BY <1>1, <3>1, <3>2, ProcessWorkRunsDown
  <2>2. CASE Timeout
    <3>1. process.timer = "armed" /\ process'.timer = "fired"
          /\ process'.child = process.child /\ process'.descendant = process.descendant
      BY <1>1, <2>2 DEF Timeout, Process
    <3>2. ChildWork(process') = ChildWork(process)
      BY <3>1 DEF ChildWork
    <3> QED BY <1>1, <3>1, <3>2, ProcessWorkRunsDown
  <2>3. CASE Kill
    <3>1. process.timer = "fired" /\ process'.timer = "escalated"
      BY <1>1, <2>3 DEF Kill, Escalates, Process
    <3>2. CASE process.child = "running"
      <4>1. process'.child = "ended"
        BY <1>1, <2>3, <3>2 DEF Kill, Process
      <4>2. TimerWork(process') <= TimerWork(process)
        BY <1>1, <3>1, TimerWorkIs
      <4> QED BY <1>1, <3>2, <4>1, <4>2, ProcessWorkRunsDown
    <3>3. CASE process.child # "running"
      <4>1. process'.child = process.child /\ process'.descendant = process.descendant
        BY <1>1, <2>3, <3>3 DEF Kill, Process
      <4>2. ChildWork(process') = ChildWork(process)
        BY <4>1 DEF ChildWork
      <4> QED BY <1>1, <3>1, <4>2, ProcessWorkRunsDown
    <3> QED BY <3>2, <3>3
  <2>4. CASE DescendantEnds
    <3>1. process.descendant /\ process' = [process EXCEPT !.descendant = FALSE]
      BY <2>4 DEF DescendantEnds
    <3>2. process.child # "running"
      <4>1. process.descendant # FALSE
        BY <3>1, Zenon
      <4> QED BY <4>1 DEF Alone
    <3>3. /\ process'.child = process.child /\ process'.timer = process.timer
          /\ process'.descendant = FALSE
      BY <1>1, <3>1 DEF Process
    <3>4. TimerWork(process') = TimerWork(process)
      BY <3>3 DEF TimerWork
    <3>5. ~process'.descendant
      BY <3>3, Zenon
    <3> QED BY <1>1, <3>1, <3>2, <3>3, <3>4, <3>5, ProcessWorkRunsDown
  <2> QED BY <2>1, <2>2, <2>3, <2>4
<1>5. PlaceWork("running", Len(drafts), process') < PlaceWork("running", Len(drafts), process)
  <2>1. /\ PlaceWork("running", Len(drafts), process)
             = 6 * (Len(Steps) - Len(drafts)) - 3 + ProcessWork(process)
        /\ ProcessWork(process) \in 0..4
    BY <1>1, PlaceWorkIs
  <2>2. /\ PlaceWork("running", Len(drafts), process')
             = 6 * (Len(Steps) - Len(drafts)) - 3 + ProcessWork(process')
        /\ ProcessWork(process') \in 0..4
    BY <1>1, PlaceWorkIs
  <2> QED BY <1>1, <1>4, <2>1, <2>2
<1> QED BY <1>1, <1>2, <1>3, <1>5, Spent DEF Place


LEMMA CloseSpends ==
  ASSUME IInv, Close
  PROVE  WorkSpent
<1>1. /\ Len(drafts) \in 0..Len(Steps) /\ process \in Process /\ Len(Steps) \in Nat \ {0}
      /\ drafts \in Seq(Evidence)
  BY Measured, LoopAssumption DEF IInv, TypeOK
<1>2. /\ place = "running" /\ Len(drafts) < Len(Steps) /\ process' = NoProcess
      /\ Last' = Last
  BY DEF Close, IInv, Placed, Last
<1>3. NoProcess \in Process
  BY DEF NoProcess, Process
<1>4. /\ PlaceWork("running", Len(drafts), process)
           = 6 * (Len(Steps) - Len(drafts)) - 3 + ProcessWork(process)
      /\ ProcessWork(process) \in 0..4
  BY <1>1, PlaceWorkIs
<1>5. CASE place' = "step" /\ Len(drafts') = Len(drafts) + 1
  <2>1. Len(drafts) + 1 \in 0..Len(Steps)
    BY <1>1, <1>2
  <2>2. PlaceWork("step", Len(drafts) + 1, NoProcess) = 6 * (Len(Steps) - (Len(drafts) + 1)) + 2
    BY <1>3, <2>1, PlaceWorkIs
  <2>3. PlaceWork("step", Len(drafts) + 1, NoProcess)
          < PlaceWork("running", Len(drafts), process)
    BY <1>1, <1>4, <2>2
  <2> QED BY <1>2, <1>3, <1>5, <2>1, <2>3, Spent DEF Place
<1>6. CASE place' = "thrown" /\ Len(drafts') = 0
  <2>1. PlaceWork("thrown", 0, NoProcess) = 0
    BY <1>1, <1>3, PlaceWorkIs
  <2>2. PlaceWork("thrown", 0, NoProcess) < PlaceWork("running", Len(drafts), process)
    BY <1>1, <1>2, <1>4, <2>1
  <2> QED BY <1>1, <1>2, <1>3, <1>6, <2>2, Spent DEF Place
<1>7. \/ place' = "step" /\ Len(drafts') = Len(drafts) + 1
      \/ place' = "thrown" /\ Len(drafts') = 0
  <2>1. \/ place' = "step" /\ \E d : drafts' = Append(drafts, d)
        \/ place' = "thrown" /\ drafts' = <<>>
    BY DEF Close
  <2> QED BY <1>1, <2>1
<1> QED BY <1>5, <1>6, <1>7

\* Where the process and the drafts are left alone, the place decides.
LEMMA PlaceSpends ==
  ASSUME IInv, UNCHANGED <<process, drafts>>, Last' = Last,
         \/ place = "step" /\ Len(drafts) = Len(Steps) /\ place' \in {"ended", "judge", "review"}
         \/ place = "judge" /\ place' = "ended"
         \/ place = "route" /\ place' \in {"primary", "paused"}
         \/ place = "primary" /\ place' \in {"patch", "fallback", "paused"}
         \/ place = "fallback" /\ place' \in {"patch", "paused"}
         \/ place = "patch" /\ place' \in {"verify", "stuck"}
  PROVE  WorkSpent
<1> DEFINE n == Len(drafts)
           before == PlaceWork(place, n, process)
           after == PlaceWork(place', n, process)
<1>1. n \in 0..Len(Steps) /\ process \in Process /\ Len(Steps) \in Nat
  BY Measured, LoopAssumption
<1> HIDE DEF n
<1>2. /\ VerificationWork \in Nat /\ VerificationWork >= 3
      /\ PlaceWork("step", n, process) = 6 * (Len(Steps) - n) + 2
      /\ PlaceWork("judge", n, process) = 1
      /\ PlaceWork("route", n, process) = VerificationWork + 4
      /\ PlaceWork("primary", n, process) = VerificationWork + 3
      /\ PlaceWork("fallback", n, process) = VerificationWork + 2
      /\ PlaceWork("patch", n, process) = VerificationWork + 1
      /\ PlaceWork("verify", n, process) = VerificationWork
      /\ \A at \in {"thrown", "review", "paused", "stuck", "ended"} :
           PlaceWork(at, n, process) = 0
  BY <1>1, PlaceWorkIs
<1>3. place = "step" => PlaceWork("step", n, process) = 2
  BY <1>1, <1>2 DEF n
<1>4. after < before
  BY <1>2, <1>3
<1>5. place' \in Place /\ place' # "running"
  BY DEF Place
<1> QED BY <1>1, <1>4, <1>5, Spent DEF n

LEMMA SettlingSpends ==
  ASSUME IInv, FinishVerification \/ RequestThrows \/ ApplyAnswer
  PROVE  WorkSpent
<1>1. /\ session \in Session /\ Len(session.attempts) <= MaxAttempts /\ Warranted(session)
  BY WarrantedSession DEF IInv, TypeOK
<1>2. \A status \in {"patch_applied", "verification_failed", "verified"} :
        session.status = "repairing"
          => Len(AttemptStatusRecorded(session, status).attempts) = Len(session.attempts)
  BY <1>1, RecordedIsWarranted
<1>3. CASE FinishVerification
  <2> DEFINE status == ManifestStatus(drafts)
             settled == CASE status = "passed" -> "verified"
                          [] status = "failed" -> "verification_failed"
                          [] OTHER -> "none"
  <2>1. settled \in {"verified", "verification_failed", "none"}
    OBVIOUS
  <2>2. /\ place = "step" /\ Len(drafts) = Len(Steps)
        /\ place' \in {"ended", "judge", "review"}
        /\ UNCHANGED <<process, drafts>>
        /\ session' = IF session.status = "repairing" /\ settled # "none"
                      THEN AttemptStatusRecorded(session, settled) ELSE session
    BY <1>3 DEF FinishVerification
  <2> HIDE DEF settled
  <2>3. Len(session'.attempts) = Len(session.attempts)
    BY <1>2, <2>1, <2>2
  <2>4. Last' = Last
    BY <2>3 DEF Last
  <2> QED BY <2>2, <2>4, PlaceSpends
<1>4. CASE RequestThrows
  BY <1>4, PlaceSpends DEF RequestThrows, Last
<1>5. CASE ApplyAnswer
  <2>1. place = "patch" /\ place' \in {"verify", "stuck"} /\ UNCHANGED <<process, drafts>>
        /\ session' \in {session, AttemptStatusRecorded(session, "patch_applied")}
    BY <1>5 DEF ApplyAnswer
  <2>2. session.status = "repairing"
    BY <2>1 DEF IInv, Placed, Repairing
  <2>3. Last' = Last
    BY <1>2, <2>1, <2>2 DEF Last
  <2> QED BY <2>1, <2>3, PlaceSpends
<1> QED BY <1>3, <1>4, <1>5

LEMMA CallingSpends ==
  ASSUME IInv, (place = "route" /\ Invoke) \/ PrimaryReturns \/ FallbackReturns
  PROVE  WorkSpent
<1>1. UNCHANGED <<session, process, drafts>> /\ Last' = Last
  BY DEF Invoke, PrimaryReturns, FallbackReturns, Last
<1>2. CASE place = "route" /\ Invoke
  <2>1. place' \in {"primary", "paused"}
    BY <1>2 DEF Invoke
  <2> QED BY <1>1, <1>2, <2>1, PlaceSpends
<1>3. CASE PrimaryReturns
  <2>1. place = "primary" /\ place' \in {"patch", "fallback", "paused"}
    BY <1>3 DEF PrimaryReturns, Answered
  <2> QED BY <1>1, <2>1, PlaceSpends
<1>4. CASE FallbackReturns
  <2>1. place = "fallback" /\ place' \in {"patch", "paused"}
    BY <1>4 DEF FallbackReturns, Answered
  <2> QED BY <1>1, <2>1, PlaceSpends
<1> QED BY <1>2, <1>3, <1>4

\* A request that opens an attempt pays for its call and its verification with
\* one attempt of the budget; one that does not ends the loop.
LEMMA RequestSpends ==
  ASSUME IInv, RequestRepair
  PROVE  WorkSpent
<1>1. PICK i \in DOMAIN drafts :
        /\ drafts[i].outcome = "failed"
        /\ session' = Decision(drafts[i], [step |-> i, category |-> drafts[i].category,
                                           log |-> drafts[i].log])
  BY DEF RequestRepair
<1> DEFINE f == [step |-> i, category |-> drafts[i].category, log |-> drafts[i].log]
<1>2. drafts[i] \in Evidence /\ drafts[i].category # "none" /\ i \in DOMAIN Steps
  BY <1>1, LoopAssumption DEF IInv, TypeOK, Evidenced
<1>3. f \in Fingerprint /\ f.category = drafts[i].category
  BY <1>2 DEF Fingerprint, Evidence
<1>4. /\ session \in Session /\ Warranted(session) /\ Last <= MaxAttempts
      /\ session.status = "available" /\ place = "judge"
  BY WarrantedSession DEF IInv, TypeOK, RequestRepair, MayRequest, Last
<1> HIDE DEF f
<1>5. /\ Len(session'.attempts) <= MaxAttempts
      /\ session'.status \in {"repairing", "needs_user_action"}
      /\ Len(session'.attempts) = IF session'.status = "repairing" THEN Last + 1 ELSE Last
  BY <1>1, <1>2, <1>3, <1>4, DecisionIsWarranted DEF f
<1>6. /\ place' = IF session'.status = "repairing" THEN "route" ELSE "ended"
      /\ UNCHANGED <<process, drafts>>
  BY DEF RequestRepair
<1>7. CASE session'.status # "repairing"
  <2>1. Last' = Last
    BY <1>5, <1>7 DEF Last
  <2> QED BY <1>4, <1>6, <1>7, <2>1, PlaceSpends
<1>8. CASE session'.status = "repairing"
  <2> DEFINE n == Len(drafts)
             each == VerificationWork + 5
             left == MaxAttempts - (Last + 1)
  <2>1. n \in 0..Len(Steps) /\ process \in Process /\ Last \in Nat /\ MaxAttempts \in Nat
    BY Measured
  <2>2. Last' = Last + 1 /\ Last + 1 <= MaxAttempts
    BY <1>5, <1>8 DEF Last
  <2>3. left \in Nat /\ each \in Nat /\ MaxAttempts - Last = left + 1
    <3>1. VerificationWork \in Nat
      BY <2>1, PlaceWorkIs
    <3> QED BY <2>1, <2>2, <3>1
  <2>4. left * each \in Nat /\ (left + 1) * each = left * each + each
    BY <2>3, Products
  <2>5. PlaceWork("judge", n, process) = 1 /\ PlaceWork("route", n, process) = VerificationWork + 4
        /\ VerificationWork \in Nat
    BY <2>1, PlaceWorkIs
  <2>6. Work = (left + 1) * each + 1
    BY <1>4, <2>3, <2>5 DEF Work
  <2>7. Work' = left * each + (VerificationWork + 4)
    <3>1. place' = "route"
      BY <1>6, <1>8
    <3>2. Work' = (MaxAttempts - Last') * each + PlaceWork(place', Len(drafts'), process')
      BY DEF Work, VerificationWork
    <3> QED BY <1>6, <2>2, <2>5, <3>1, <3>2
  <2>8. each = VerificationWork + 5
    OBVIOUS
  <2> HIDE DEF each, left
  <2>9. (left * each) + (VerificationWork + 4) < (left + 1) * each + 1
    BY <2>4, <2>5, <2>8
  <2> QED BY <2>1, <2>2, <2>4, <2>5, <2>6, <2>7, <2>9 DEF WorkSpent
<1> QED BY <1>7, <1>8

LEMMA NextSpends ==
  ASSUME IInv, Idle, Alone, IInv', [Next]_vars
  PROVE  [ /\ Last' >= Last
           /\ \/ Work' \in Nat /\ Work' < Work
              \/ place \in {"thrown", "review", "paused"}
              \/ policy' # policy /\ Work' = Work ]_vars
<1>1. Last \in Nat
  BY Measured
<1>2. CASE StartVerification
  <2>1. place \in {"verify", "thrown", "review"} /\ Last' = Last
    BY <1>2 DEF StartVerification, Last
  <2>2. CASE place = "verify"
    BY <1>2, <2>2, StepsSpend DEF WorkSpent
  <2> QED BY <1>1, <2>1, <2>2
<1>3. CASE NotRun \/ Spawn \/ ManualStep
  BY <1>3, StepsSpend DEF WorkSpent
<1>4. CASE ChildEnds \/ Timeout \/ Kill \/ DescendantEnds
  BY <1>4, ProcessSpends DEF WorkSpent
<1>5. CASE Close
  BY <1>5, CloseSpends DEF WorkSpent
<1>6. CASE FinishVerification \/ RequestThrows \/ ApplyAnswer
  BY <1>6, SettlingSpends DEF WorkSpent
<1>7. CASE RequestRepair
  BY <1>7, RequestSpends DEF WorkSpent
<1>8. CASE SavePolicy
  <2>1. policy' # policy /\ UNCHANGED <<session, place, process, drafts>>
    BY <1>8 DEF SavePolicy
  <2>2. Last' = Last
    BY <2>1 DEF Last
  <2>3. Work' = Work
    BY <2>1, <2>2 DEF Work, PlaceWork, ProcessWork, ChildWork, TimerWork, VerificationWork
  <2> QED BY <1>1, <2>1, <2>2, <2>3
<1>9. CASE Invoke
  <2>1. place \in {"route", "paused"} /\ Last' = Last
    BY <1>9 DEF Invoke, Last
  <2>2. CASE place = "route"
    BY <1>9, <2>2, CallingSpends DEF WorkSpent
  <2> QED BY <1>1, <2>1, <2>2
<1>10. CASE PrimaryReturns \/ FallbackReturns
  BY <1>10, CallingSpends DEF WorkSpent
<1>11. CASE UNCHANGED vars
  BY <1>11
<1> QED BY <1>2, <1>3, <1>4, <1>5, <1>6, <1>7, <1>8, <1>9, <1>10, <1>11 DEF Next

\* Every step of the executor, of a command, a timer or a provider uses up some
\* of a bounded amount of work; only the user adds to it, where the executor
\* waits for one, and no step gives an attempt of the budget back.  So the loop
\* ends or comes to wait for the user after finitely many of these steps, for
\* any steps, budget and policies (requestRepair, NodeStructuredProcessExecutor).
THEOREM LoopIsBounded == Spec => WorkRunsDown
<1> DEFINE Spending == [ /\ Last' >= Last
                         /\ \/ Work' \in Nat /\ Work' < Work
                            \/ place \in {"thrown", "review", "paused"}
                            \/ policy' # policy /\ Work' = Work ]_vars
<1>1. IInv /\ Idle /\ Alone /\ IInv' /\ [Next]_vars => Spending
  BY NextSpends
<1> QED BY <1>1, InitIsSound, NextIsSound, IdleInit, IdleNext, AloneInit, AloneNext, PTL
        DEF Spec, WorkRunsDown
==============================================================================
