------------------------------ MODULE MCClient ------------------------------
(* The instance of Client for TLC. *)
EXTENDS Client

\* The second fault strikes the request that the first one struck.
SecondOnRequest == faults = 1 /\ faults' = 2 => lock # None /\ ~calm

=============================================================================
