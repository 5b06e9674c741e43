-------------------------- MODULE MCCircuitBreaker --------------------------
(***************************************************************************)
(* The circuit breaker on small instances.  A window of four calls with    *)
(* min_calls = 2 and the threshold at 50 percent keeps the proportions     *)
(* of BreakerConfig::redis (100, 20, 0.5) small enough to see a trip, a    *)
(* tumble of the window, and both at once.                                 *)
(***************************************************************************)
EXTENDS CircuitBreaker

HalfOfCalls == [k \in Kinds |-> 50]

=============================================================================
