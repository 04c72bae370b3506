------------------------ MODULE CircuitBreaker_proofs ------------------------
(* What CircuitBreaker guarantees for every number of tasks, every failure  *)
(* threshold and every recovery timeout.                                    *)
EXTENDS CircuitBreaker, TLAPS

\* HALF_OPEN begins when the timeout is over, and the next failure ends it.
HalfOpenAfterTimeout == state = "HALF_OPEN" => age = Timeout

Inv == TypeOK /\ ClosedBelowThreshold /\ HalfOpenAfterTimeout

LEMMA InvInit == Init => Inv
BY ConfigOK DEF Init, Inv, TypeOK, ClosedBelowThreshold, HalfOpenAfterTimeout, CircuitState, Style

\* One more, but for what is at the limit.
LEMMA SaturatedType ==
  ASSUME NEW limit \in Nat, NEW n \in 0..limit
  PROVE  /\ Saturated(n, limit) \in 0..limit
         /\ n < limit => Saturated(n, limit) = n + 1
         /\ n = limit => Saturated(n, limit) = limit
BY DEF Saturated

\* Whatever a task reports keeps the invariant.
LEMMA ReportInv ==
  ASSUME Inv, NEW t \in Task, RecordSuccess \/ RecordFailure \/ UNCHANGED breaker, Return(t)
  PROVE  Inv'
<1> USE ConfigOK DEF Inv, TypeOK, ClosedBelowThreshold, HalfOpenAfterTimeout, CircuitState
<1>1. call' \in [Task -> Style \cup {"none"}]
  BY DEF Return
<1>2. CASE RecordSuccess
  BY <1>1, <1>2 DEF RecordSuccess
<1>3. CASE RecordFailure
  <2>1. /\ failures' \in 0..Threshold /\ age' = 0 /\ Threshold \in Nat \ {0}
        /\ failures < Threshold => failures' = failures + 1
        /\ failures = Threshold => failures' = Threshold
    BY <1>3, SaturatedType DEF RecordFailure
  <2>2. state' \in CircuitState /\ state' # "HALF_OPEN"
    BY <1>3 DEF RecordFailure
  <2>3. state' = "CLOSED" <=> failures' < Threshold
    BY <1>3, <2>1 DEF RecordFailure
  <2>4. QED
    BY <1>1, <2>1, <2>2, <2>3
<1>4. CASE UNCHANGED breaker
  BY <1>1, <1>4 DEF breaker
<1>5. QED
  BY <1>2, <1>3, <1>4

LEMMA InvNext == Inv /\ [Next]_vars => Inv'
<1> SUFFICES ASSUME Inv, [Next]_vars PROVE Inv'
  OBVIOUS
<1> USE ConfigOK DEF Inv, TypeOK, ClosedBelowThreshold, HalfOpenAfterTimeout, CircuitState
<1>1. ASSUME NEW t \in Task, NEW s \in Style, Acquire(t, s) PROVE Inv'
  BY <1>1 DEF Acquire, Admits
<1>2. ASSUME NEW t \in Task, AskByHand(t) PROVE Inv'
  BY <1>2 DEF AskByHand, breaker, Style
<1>3. ASSUME NEW t \in Task, Succeed(t) \/ Fail(t) \/ Cancel(t) PROVE Inv'
  BY <1>3, ReportInv DEF Succeed, Fail, Cancel
<1>4. CASE Tick
  BY <1>4 DEF Tick
<1>5. CASE UNCHANGED vars
  BY <1>5 DEF vars
<1>6. QED
  BY <1>1, <1>2, <1>3, <1>4, <1>5 DEF Next

\* Type correctness.
THEOREM TypeCorrect == Spec => []TypeOK
<1>1. Inv => TypeOK
  BY DEF Inv
<1>2. QED
  BY <1>1, InvInit, InvNext, PTL DEF Spec

\* The state tells whether the threshold has been reached since the last success.
THEOREM CountDecides == Spec => []ClosedBelowThreshold
<1>1. Inv => ClosedBelowThreshold
  BY DEF Inv
<1>2. QED
  BY <1>1, InvInit, InvNext, PTL DEF Spec

\* Once the threshold is reached, calls keep their distance from the last failure.
THEOREM CallsKeepDistance == Spec => NoCallTooSoon
<1>1. ASSUME Inv, [Next]_vars
      PROVE  [\A t \in Task : call[t] = "none" /\ call'[t] # "none" =>
                failures < Threshold \/ age = Timeout]_vars
  <2>1. CASE Admits
    BY <1>1, <2>1 DEF Inv, ClosedBelowThreshold, HalfOpenAfterTimeout, Admits
  <2>2. CASE ~Admits
    <3>1. ASSUME NEW t \in Task, NEW u \in Task, Succeed(u) \/ Fail(u) \/ Cancel(u)
          PROVE  call[t] = "none" => call'[t] = "none"
      BY <1>1, <3>1 DEF Succeed, Fail, Cancel, Return, Inv, TypeOK
    <3>2. QED
      BY <1>1, <2>2, <3>1 DEF Next, Acquire, AskByHand, Tick, vars
  <2>3. QED
    BY <2>1, <2>2
<1>2. QED
  BY <1>1, InvInit, InvNext, PTL DEF Spec, NoCallTooSoon
=============================================================================
