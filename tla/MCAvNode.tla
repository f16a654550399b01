-------------------------------- MODULE MCAvNode --------------------------------
(* The addresses of AvNode as model values. *)
EXTENDS AvNode

CONSTANTS self, p
=============================================================================
