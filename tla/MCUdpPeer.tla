------------------------------ MODULE MCUdpPeer ------------------------------
(* The two peers of UdpPeer as model values. *)
EXTENDS UdpPeer

CONSTANTS conn1, conn2

CaptureHoldsSocket == {<<conn1, "capture">>}
=============================================================================
