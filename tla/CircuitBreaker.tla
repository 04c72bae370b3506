--------------------------- MODULE CircuitBreaker ---------------------------
(***************************************************************************)
(* The circuit breaker of Wiii's backend (app/core/resilience.py) and the  *)
(* tasks that call a service through it.  A task either acquires the       *)
(* breaker (decorator, "wrap"; async with, "with") or only asks            *)
(* is_available() and reports by hand ("hand", as object_storage does).    *)
(* Each method runs under one asyncio.Lock without awaiting inside it, so  *)
(* it is one step; the call itself takes any time, and tasks overlap.      *)
(*                                                                         *)
(* Only what is compared is kept: failures counts up to the threshold, and *)
(* age is the time since the last failure, up to the recovery timeout.     *)
(***************************************************************************)
EXTENDS Naturals

CONSTANTS
  Task,       \* the tasks that use one named breaker
  Threshold,  \* failure_threshold
  Timeout     \* recovery_timeout, in ticks

ASSUME ConfigOK == Threshold \in Nat \ {0} /\ Timeout \in Nat \ {0}

VARIABLES state, failures, age, call
vars == <<state, failures, age, call>>

breaker == <<state, failures, age>>

CircuitState == {"CLOSED", "OPEN", "HALF_OPEN"}
Style == {"wrap", "with", "hand"}

SaturatedPast(n, limit) == IF n <= limit THEN n + 1 ELSE n
Saturated(n, limit) == IF n < limit THEN n + 1 ELSE limit

-----------------------------------------------------------------------------
(* Asking to call *)

\* When _check_and_acquire lets a request pass.
AdmitsOneProbe == state = "CLOSED" \/ (state = "OPEN" /\ age = Timeout)
Admits == state \in {"CLOSED", "HALF_OPEN"} \/ (state = "OPEN" /\ age = Timeout)

\* _check_and_acquire, then the call begins.
Acquire(t, s) ==
  /\ call[t] = "none" /\ s \in {"wrap", "with"} /\ Admits
  /\ state' = IF state = "OPEN" THEN "HALF_OPEN" ELSE state
  /\ call' = [call EXCEPT ![t] = s]
  /\ UNCHANGED <<failures, age>>

\* is_available: a look without the lock that changes nothing, so an OPEN
\* breaker stays OPEN while such a task tries the service again.
AskByHand(t) ==
  /\ call[t] = "none" /\ Admits
  /\ call' = [call EXCEPT ![t] = "hand"]
  /\ UNCHANGED breaker

-----------------------------------------------------------------------------
(* Reporting *)

RecordSuccessKeepingCount == state' = "CLOSED" /\ UNCHANGED <<failures, age>>
RecordSuccess == state' = "CLOSED" /\ failures' = 0 /\ UNCHANGED age

RecordFailureInHalfOpen ==
  /\ failures' = Saturated(failures, Threshold)
  /\ age' = 0
  /\ state' = IF state = "CLOSED" /\ failures' >= Threshold THEN "OPEN" ELSE state

RecordFailure ==
  /\ failures' = Saturated(failures, Threshold)
  /\ age' = 0
  /\ state' = IF state = "HALF_OPEN" \/ (state = "CLOSED" /\ failures' >= Threshold)
              THEN "OPEN" ELSE state

Return(t) == call' = [call EXCEPT ![t] = "none"]

Succeed(t) == call[t] # "none" /\ RecordSuccess /\ Return(t)

Fail(t) == call[t] # "none" /\ RecordFailure /\ Return(t)

\* CancelledError is no Exception: only __aexit__ sees it.
Cancel(t) ==
  /\ call[t] # "none"
  /\ IF call[t] = "with" THEN RecordFailure ELSE UNCHANGED breaker
  /\ Return(t)

-----------------------------------------------------------------------------
(* Specification *)

\* _last_failure_time is 0.0 at the start: long ago.
Init ==
  /\ state = "CLOSED" /\ failures = 0 /\ age = Timeout
  /\ call = [t \in Task |-> "none"]

Tick == age < Timeout /\ age' = age + 1 /\ UNCHANGED <<state, failures, call>>

Next ==
  \/ \E t \in Task :
       \/ \E s \in Style : Acquire(t, s)
       \/ AskByHand(t) \/ Succeed(t) \/ Fail(t) \/ Cancel(t)
  \/ Tick

\* Time passes; nothing is assumed of the tasks.
Spec == Init /\ [][Next]_vars /\ WF_vars(Tick)

-----------------------------------------------------------------------------
(* Properties *)

\* The breaker and its tasks have the states the code gives them.
TypeOK ==
  /\ state \in CircuitState
  /\ failures \in 0..Threshold
  /\ age \in 0..Timeout
  /\ call \in [Task -> Style \cup {"none"}]

\* The breaker is closed exactly while fewer than failure_threshold failures
\* came since the last success, whoever reported them and in whatever state.
ClosedBelowThreshold == state = "CLOSED" <=> failures < Threshold

\* No call begins within recovery_timeout of a failure once the threshold has
\* been reached: HALF_OPEN lets everybody in, but never after a failure.
NoCallTooSoon ==
  [][\A t \in Task : call[t] = "none" /\ call'[t] # "none" =>
       failures < Threshold \/ age = Timeout]_vars

\* The service is never given up for good, although probes may be cancelled
\* without a report and late failures restart the timer.
NeverLockedOut == []<>Admits

\* What the class comment promises of HALF_OPEN and the code leaves out: one
\* test request.  It fails, and no run checks it.
OneProbe ==
  [][\A t, u \in Task : t # u /\ state = "HALF_OPEN" /\ call[t] # "none"
                          => ~(call[u] = "none" /\ call'[u] # "none")]_vars

\* What the class comment promises of OPEN: it lasts for recovery_timeout.  The
\* late success of a call begun before closes the breaker, so it fails too.
OpenLasts == [][state = "OPEN" /\ age < Timeout => state' = "OPEN"]_vars
=============================================================================
