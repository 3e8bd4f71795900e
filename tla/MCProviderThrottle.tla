-------------------------- MODULE MCProviderThrottle --------------------------
(* A small instance of ProviderThrottle: two callers at once.              *)
EXTENDS ProviderThrottle

CONSTANTS c1, c2

TwoCallers == {c1, c2}
=============================================================================
