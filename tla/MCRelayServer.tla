----------------------------- MODULE MCRelayServer -----------------------------
(* Small instances of RelayServer for TLC. *)
EXTENDS RelayServerInv, TLC

CONSTANTS c1, c2, c3

MCFds == {4, 5, 6}
TwoFds == {4, 5}
Symmetry == Permutations(Conn)
=============================================================================
