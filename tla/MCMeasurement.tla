----------------------------- MODULE MCMeasurement -----------------------------
(* The clients of Measurement as model values: one sends more than the other. *)
EXTENDS Measurement

CONSTANTS a, b

Uneven == [c \in Client |-> IF c = a THEN 3 ELSE 1]
=============================================================================
