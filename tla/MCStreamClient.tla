---------------------------- MODULE MCStreamClient ----------------------------
(* Small instances of StreamClient for TLC: the first five descriptors after *)
(* the standard streams, and the five attempts of the code.                  *)
EXTENDS StreamClient

MCFds == 3 .. 7
=============================================================================
