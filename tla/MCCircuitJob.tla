----------------------------- MODULE MCCircuitJob -----------------------------
(* A field of 37 elements with the boundaries of the real one.              *)
EXTENDS CircuitJob

MCValues == {-1, 0, 1, 2, 3, 4, 5, 7, 8}
=============================================================================
