-------------------------- MODULE MCCircuitBreaker --------------------------
(* Three tasks, a threshold of two failures and a timeout of two ticks.    *)
EXTENDS CircuitBreaker

CONSTANTS t1, t2, t3

MCTask == {t1, t2, t3}
=============================================================================
