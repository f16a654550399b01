--------------------------- MODULE MCVideoStream ---------------------------
(* Small instances of VideoStream: frames of one fragment that is not full *)
(* and of two that are.                                                    *)
EXTENDS VideoStream

CONSTANTS p, q
=============================================================================
