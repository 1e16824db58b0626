------------------------------ MODULE RepairLoop ------------------------------
(***************************************************************************)
(* The loop that verifies a task's patch and repairs it with a model: the  *)
(* commands of TaskVerificationService.run under the timers of             *)
(* NodeStructuredProcessExecutor, the repair session of requestRepair and  *)
(* recordRepairAttemptStatus, and the calls of ModelRoutingService.invoke, *)
(* while the user may change the model policy at any time.                 *)
(*                                                                         *)
(* The caller that joins these services is external, as the tests of the   *)
(* repository show it: one executor, which stops and waits for the user    *)
(* where a service throws, pauses or asks for a review.                    *)
(***************************************************************************)
EXTENDS ModelRouting, Sequences

CONSTANTS
  Steps,        \* the verification steps, a sequence of "command" and "manual"
  Optional,     \* those, by position, that the plan does not require
  Log,          \* contents of a command's output that tell failures apart
  MaxAttempts,  \* the budget of the repair session
  Policies      \* the policies a user may save

ASSUME LoopAssumption ==
  /\ Steps \in Seq({"command", "manual"}) /\ Steps # <<>>
  /\ Optional \subseteq DOMAIN Steps
  /\ Log # {} /\ MaxAttempts \in 0..10
  /\ Policies \subseteq Policy /\ Policies # {}

VARIABLES
  policy,   \* the saved model policy
  session,  \* the repair session
  place,    \* where the executor is
  process,  \* the command it waits for
  drafts,   \* the evidence of the verification in progress, or the last one
  call,     \* the model call in progress, or the one that paused
  answer    \* the answer it led to, until the next call

vars == <<policy, session, place, process, drafts, call, answer>>

Category == {"none", "verification_failed", "command_not_found", "timeout",
             "policy_denied", "infrastructure_failure"}

\* late: the timer had fired before the command's result was there.
Evidence == [outcome : {"passed", "failed", "requires_review"}, category : Category,
             log : Log, late : BOOLEAN]

Fingerprint == [step : DOMAIN Steps, category : Category, log : Log]

Attempt == [fingerprint : Fingerprint,
            status : {"proposed", "patch_applied", "verification_failed", "verified"}]

StopReason == {"none", "budget_exhausted", "repeated_failure", "policy_failure",
               "infrastructure_failure"}

Session == [status : {"available", "repairing", "verified", "needs_user_action"},
            reason : StopReason, attempts : Seq(Attempt)]

\* Exit codes: nonzero ones, among them those of a signal, are all 1.
Process == [child : {"none", "running", "ended"}, code : {0, 1},
            timer : {"armed", "fired", "escalated"},
            descendant : BOOLEAN]   \* another process holds the child's output

NoProcess == [child |-> "none", code |-> 0, timer |-> "armed", descendant |-> FALSE]

Call == [policy : Policies, override : Profile \cup {NoProfile}, confirmed : BOOLEAN,
         failure : FailureCode \cup {"none"}]

Snapshot == [profile : Profile, source : SelectionSource]

Answer == [author : Profile, snapshot : Snapshot]
NoAnswer == [author |-> NoProfile]

Place == {"verify", "step", "running", "thrown", "judge", "review", "route",
          "primary", "fallback", "paused", "patch", "stuck", "ended"}

TypeOK ==
  /\ policy \in Policies
  /\ session \in Session /\ Len(session.attempts) <= MaxAttempts
  /\ place \in Place
  /\ process \in Process
  /\ drafts \in Seq(Evidence) /\ Len(drafts) <= Len(Steps)
  /\ call \in Call
  /\ answer \in Answer \cup {NoAnswer}

NoCall(p) == [policy |-> p, override |-> NoProfile, confirmed |-> FALSE, failure |-> "none"]

\* createRepairSession.
CreatedSession == [status |-> "available", reason |-> "none", attempts |-> <<>>]

Init ==
  /\ policy \in Policies
  /\ session = CreatedSession
  /\ place = "verify"
  /\ process = NoProcess
  /\ drafts = <<>>
  /\ call = NoCall(policy)
  /\ answer = NoAnswer

-----------------------------------------------------------------------------
(* TaskVerificationService.run: each step in turn leaves a draft.          *)

StartVerification ==
  /\ place \in {"verify", "thrown", "review"}
  /\ drafts' = <<>>
  /\ place' = "step"
  /\ UNCHANGED <<policy, session, process, call, answer>>

AtStep(kind) ==
  place = "step" /\ Len(drafts) < Len(Steps) /\ Steps[Len(drafts) + 1] = kind

\* The command policy refuses, or the process cannot be spawned.
NotRun ==
  /\ AtStep("command")
  /\ \E category \in {"policy_denied", "command_not_found", "infrastructure_failure"},
        log \in Log :
       drafts' = Append(drafts, [outcome |-> "failed", category |-> category,
                                 log |-> log, late |-> FALSE])
  /\ UNCHANGED <<policy, session, place, process, call, answer>>

Spawn ==
  /\ AtStep("command")
  /\ process' = [NoProcess EXCEPT !.child = "running"]
  /\ place' = "running"
  /\ UNCHANGED <<policy, session, drafts, call, answer>>

\* What a manual step puts out, which no failure that is repaired is told by.
AnyLog == CHOOSE log \in Log : TRUE

\* A record that the user confirmed for this step, or none.
ManualStep ==
  /\ AtStep("manual")
  /\ \E outcome \in {"passed", "failed", "requires_review"} :
       drafts' = Append(drafts,
         [outcome |-> outcome, log |-> AnyLog, late |-> FALSE,
          category |-> IF outcome = "passed" THEN "none" ELSE "policy_denied"])
  /\ UNCHANGED <<policy, session, place, process, call, answer>>

\* A child that was signalled may still end with any code of its own.
ChildEnds ==
  /\ process.child = "running"
  /\ \E code \in {0, 1}, descendant \in BOOLEAN :
       process' = [process EXCEPT !.child = "ended", !.code = code,
                                  !.descendant = descendant]
  /\ UNCHANGED <<policy, session, place, drafts, call, answer>>

\* A child that closes before the timer fires stops it.
Timeout ==
  /\ place = "running" /\ process.timer = "armed"
  /\ process' = [process EXCEPT !.timer = "fired"]
  /\ UNCHANGED <<policy, session, place, drafts, call, answer>>

\* a slip: SIGTERM is not followed by SIGKILL.
NeverEscalates == FALSE

\* One second after SIGTERM comes SIGKILL.
Escalates == process.timer = "fired"

Kill ==
  /\ place = "running" /\ Escalates
  /\ process' = IF process.child = "running"
                THEN [process EXCEPT !.timer = "escalated", !.child = "ended", !.code = 1]
                ELSE [process EXCEPT !.timer = "escalated"]
  /\ UNCHANGED <<policy, session, place, drafts, call, answer>>

DescendantEnds ==
  /\ process.descendant
  /\ process' = [process EXCEPT !.descendant = FALSE]
  /\ UNCHANGED <<policy, session, place, drafts, call, answer>>

\* a slip: a zero exit code is looked at before the timer.
ExitCodeFirst(p) ==
  IF p.code = 0 THEN "none" ELSE IF p.timer # "armed" THEN "timeout" ELSE "verification_failed"

ResultCategory(p) ==
  IF p.timer # "armed" THEN "timeout" ELSE IF p.code = 0 THEN "none" ELSE "verification_failed"

\* structuredCommandResultSchema: a category other than none for a nonzero
\* code only.
ResultIsValid(p) == (p.code = 0) <=> (ResultCategory(p) = "none")

\* The streams close once nothing holds them.  A result that is not valid is
\* thrown, and the verification with it.
Close ==
  /\ place = "running" /\ process.child = "ended" /\ ~process.descendant
  /\ \/ /\ ResultIsValid(process)
        /\ \E log \in Log :
             drafts' = Append(drafts,
               [outcome |-> IF process.code = 0 THEN "passed" ELSE "failed",
                category |-> ResultCategory(process), log |-> log,
                late |-> process.timer # "armed"])
        /\ place' = "step"
     \/ ~ResultIsValid(process) /\ place' = "thrown" /\ drafts' = <<>>
  /\ process' = NoProcess
  /\ UNCHANGED <<policy, session, call, answer>>

\* A required step has to pass; what is not there has not.
RequiredPassed(ds) ==
  \A i \in DOMAIN Steps \ Optional : i \in DOMAIN ds /\ ds[i].outcome = "passed"

\* The status of the manifest: no step may fail, an optional one may wait for
\* its review.
ManifestStatus(ds) ==
  IF \E i \in DOMAIN ds : ds[i].outcome = "failed" THEN "failed"
  ELSE IF RequiredPassed(ds) THEN "passed"
  ELSE "requires_review"

Last == Len(session.attempts)

\* recordRepairAttemptStatus, the attempt being the last one.
AttemptStatusRecorded(s, status) ==
  LET exhausted == status = "verification_failed" /\ Len(s.attempts) >= MaxAttempts
  IN [s EXCEPT
        !.attempts[Len(s.attempts)].status = status,
        !.status = CASE status = "verified" -> "verified"
                     [] exhausted -> "needs_user_action"
                     [] status = "verification_failed" /\ ~exhausted -> "available"
                     [] OTHER -> @,
        !.reason = IF exhausted THEN "budget_exhausted" ELSE @]

\* The verification is complete: it settles the attempt under way, if any,
\* and is judged.
FinishVerification ==
  /\ place = "step" /\ Len(drafts) = Len(Steps)
  /\ LET status == ManifestStatus(drafts)
         settled == CASE status = "passed" -> "verified"
                      [] status = "failed" -> "verification_failed"
                      [] OTHER -> "none"
     IN /\ session' = IF session.status = "repairing" /\ settled # "none"
                      THEN AttemptStatusRecorded(session, settled) ELSE session
        /\ place' = CASE status = "passed" -> "ended"
                      [] status = "failed" -> "judge"
                      [] OTHER -> "review"
  /\ UNCHANGED <<policy, process, drafts, call, answer>>

-----------------------------------------------------------------------------
(* requestRepair, for one of the failures.                                 *)

Stopped(reason) == [session EXCEPT !.status = "needs_user_action", !.reason = reason]

\* a slip: only the last attempt is compared.
RepeatsLastOnly(fingerprint) ==
  Last > 0 /\ session.attempts[Last].fingerprint = fingerprint

Repeats(fingerprint) ==
  \E i \in 1..Last : session.attempts[i].fingerprint = fingerprint

\* A request of a session that is not available throws.
MayRequest == session.status = "available"

\* a slip: a new attempt takes the place of the one that failed.
ProposedInPlace(fingerprint) ==
  [session EXCEPT
     !.status = "repairing",
     !.attempts = Append(SubSeq(@, 1, Last - 1),
                         [fingerprint |-> fingerprint, status |-> "proposed"])]

Proposed(fingerprint) ==
  [session EXCEPT
     !.status = "repairing",
     !.attempts = Append(@, [fingerprint |-> fingerprint, status |-> "proposed"])]

Decision(evidence, fingerprint) ==
  CASE evidence.category = "policy_denied" -> Stopped("policy_failure")
    [] evidence.category \in {"command_not_found", "timeout", "infrastructure_failure"} ->
         Stopped("infrastructure_failure")
    [] evidence.category = "verification_failed" /\ Repeats(fingerprint) ->
         Stopped("repeated_failure")
    [] evidence.category = "verification_failed" /\ ~Repeats(fingerprint)
       /\ Last >= MaxAttempts -> Stopped("budget_exhausted")
    [] OTHER -> Proposed(fingerprint)

RequestRepair ==
  /\ place = "judge" /\ MayRequest
  /\ \E i \in DOMAIN drafts :
       /\ drafts[i].outcome = "failed"
       /\ session' = Decision(drafts[i], [step |-> i, category |-> drafts[i].category,
                                          log |-> drafts[i].log])
  /\ place' = IF session'.status = "repairing" THEN "route" ELSE "ended"
  /\ UNCHANGED <<policy, process, drafts, call, answer>>

RequestThrows ==
  /\ place = "judge" /\ ~MayRequest
  /\ place' = "ended"
  /\ UNCHANGED <<policy, session, process, drafts, call, answer>>

-----------------------------------------------------------------------------
(* invoke.  The caller passes the policy it loaded; a user whose call       *)
(* paused may change it, override it or confirm the fallback.               *)

SavePolicy ==
  /\ policy' \in Policies \ {policy}
  /\ UNCHANGED <<session, place, process, drafts, call, answer>>

Invoke ==
  /\ place \in {"route", "paused"}
  /\ \E override \in Profile \cup {NoProfile}, confirmed \in BOOLEAN :
       /\ confirmed => place = "paused"
       /\ call' = [NoCall(policy) EXCEPT !.override = override, !.confirmed = confirmed]
       /\ place' = IF /\ RouteIsReady(policy, override)
                      /\ HasAdapter(Selected(policy, override).profile)
                   THEN "primary" ELSE "paused"
  /\ answer' = NoAnswer
  /\ UNCHANGED <<policy, session, process, drafts>>

Route == Selected(call.policy, call.override)

Answered(author, source) ==
  /\ answer' = [author |-> author, snapshot |-> [profile |-> author, source |-> source]]
  /\ place' = "patch"

\* The first provider answer or fails; a failure goes on to the fallback
\* when the policy of the call has one and the user has confirmed it.
PrimaryReturns ==
  /\ place = "primary"
  /\ \E fate \in Fates(Route.profile) :
       IF fate = "answered"
       THEN call' = call /\ Answered(Route.profile, Route.source)
       ELSE LET code == FailureOf(fate)
            IN /\ call' = [call EXCEPT !.failure = code]
               /\ place' = IF /\ CanFallback(call.policy, Route.profile, code)
                              /\ call.confirmed
                              /\ FallbackIsReady(call.policy)
                              /\ HasAdapter(call.policy.fallback)
                           THEN "fallback" ELSE "paused"
               /\ UNCHANGED answer
  /\ UNCHANGED <<policy, session, process, drafts>>

\* a slip: the policy is looked up again when the first call has failed.
CurrentFallback == policy.fallback

FallbackProfile == call.policy.fallback

FallbackReturns ==
  /\ place = "fallback"
  /\ \E fate \in Fates(FallbackProfile) :
       IF fate = "answered" THEN Answered(FallbackProfile, "fallback")
       ELSE place' = "paused" /\ UNCHANGED answer
  /\ call' = call
  /\ UNCHANGED <<policy, session, process, drafts>>

\* The patch of the answer is applied and recorded, or the transaction
\* refuses it: no status records that, and the attempt stays proposed.
ApplyAnswer ==
  /\ place = "patch"
  /\ \/ session' = AttemptStatusRecorded(session, "patch_applied") /\ place' = "verify"
     \/ UNCHANGED session /\ place' = "stuck"
  /\ UNCHANGED <<policy, process, drafts, call, answer>>

-----------------------------------------------------------------------------
Next ==
  \/ StartVerification \/ NotRun \/ Spawn \/ ManualStep
  \/ ChildEnds \/ Timeout \/ Kill \/ DescendantEnds \/ Close
  \/ FinishVerification \/ RequestRepair \/ RequestThrows
  \/ SavePolicy \/ Invoke \/ PrimaryReturns \/ FallbackReturns \/ ApplyAnswer

\* The executor goes on by itself up to where it waits for the user; timers
\* fire, a killed child and an aborted request end, closed streams are seen.
\* Nothing is assumed of a child, of a descendant or of the user.
Fairness ==
  /\ WF_vars(place = "verify" /\ StartVerification)
  /\ WF_vars(NotRun \/ Spawn) /\ WF_vars(ManualStep)
  /\ WF_vars(Timeout) /\ WF_vars(Kill) /\ WF_vars(Close)
  /\ WF_vars(FinishVerification) /\ WF_vars(RequestRepair) /\ WF_vars(RequestThrows)
  /\ WF_vars(place = "route" /\ Invoke)
  /\ WF_vars(PrimaryReturns) /\ WF_vars(FallbackReturns) /\ WF_vars(ApplyAnswer)

Spec == Init /\ [][Next]_vars
FairSpec == Spec /\ Fairness

-----------------------------------------------------------------------------
\* The history of a session is that of a bounded search: each attempt answers
\* an ordinary failure no other attempt answers, all but the last have failed
\* their verification, and the session stands as the last one says.
RepairsAreWarranted ==
  LET tried == session.attempts
  IN /\ \A i \in 1..Last : tried[i].fingerprint.category = "verification_failed"
     /\ \A i, j \in 1..Last : tried[i].fingerprint = tried[j].fingerprint => i = j
     /\ \A i \in 1..(Last - 1) : tried[i].status = "verification_failed"
     /\ session.status = "repairing"
          <=> Last > 0 /\ tried[Last].status \in {"proposed", "patch_applied"}
     /\ session.status = "verified" <=> Last > 0 /\ tried[Last].status = "verified"

\* A verified session rests on a verification of all steps in which every
\* required one has passed, no optional one has failed, and none counts as
\* passed whose command its timer had interrupted, whatever code that ended with.
VerifiedByEvidence ==
  session.status = "verified"
    => /\ Len(drafts) = Len(Steps)
       /\ \A i \in DOMAIN Steps \ Optional : drafts[i].outcome = "passed"
       /\ \A i \in DOMAIN drafts :
            drafts[i].outcome # "failed" /\ (drafts[i].late => drafts[i].outcome # "passed")

\* The snapshot of an answer names its author, a profile fit for the request;
\* a fallback wrote it only for an outage of the profile selected, confirmed
\* by the user, and as the policy of that very call had it.
AuthorIsNamed ==
  answer # NoAnswer =>
    /\ answer.snapshot.profile = answer.author /\ Capable(answer.author)
    /\ IF answer.snapshot.source = "fallback"
       THEN /\ call.confirmed /\ call.failure \in {"unavailable", "timeout"}
            /\ answer.author = call.policy.fallback /\ answer.author # Route.profile
       ELSE answer.snapshot = Route

\* What the executor may still do without the user: a verification's steps,
\* what its command and timers are up to, and for each attempt left a call and
\* a verification more.
ChildWork(p) ==
  IF p.child = "running" THEN 2 ELSE IF p.descendant THEN 1 ELSE 0
TimerWork(p) ==
  IF p.timer = "armed" THEN 2 ELSE IF p.timer = "fired" THEN 1 ELSE 0
ProcessWork(p) == ChildWork(p) + TimerWork(p)

VerificationWork == 6 * Len(Steps) + 3

PlaceWork(at, done, p) ==
  CASE at = "route" -> VerificationWork + 4
    [] at = "primary" -> VerificationWork + 3
    [] at = "fallback" -> VerificationWork + 2
    [] at = "patch" -> VerificationWork + 1
    [] at = "verify" -> VerificationWork
    [] at = "step" -> 6 * (Len(Steps) - done) + 2
    [] at = "running" -> 6 * (Len(Steps) - done) - 3 + ProcessWork(p)
    [] at = "judge" -> 1
    [] OTHER -> 0

Work == (MaxAttempts - Last) * (VerificationWork + 5)
        + PlaceWork(place, Len(drafts), process)

\* The work runs down with every step of the executor, its commands and its
\* providers; the user alone adds to it, where the executor waits for one, and
\* gives no attempt back.
WorkRunsDown ==
  [][ /\ Last' >= Last
      /\ \/ Work' \in Nat /\ Work' < Work
         \/ place \in {"thrown", "review", "paused"}
         \/ policy' # policy /\ Work' = Work ]_vars

\* The executor cannot work on for ever: again and again it is at a place
\* where it needs the user, or waits for a descendant of a command that is
\* gone to let go of its output.
Rests ==
  \/ place \in {"thrown", "review", "paused", "stuck", "ended"}
  \/ place = "running" /\ process.child = "ended" /\ process.descendant

ComesToRest == []<>Rests
=============================================================================
