---------------------------- MODULE MCGuestAgent ----------------------------
(* The instance of the guest agent for TLC: two connections, so that one   *)
(* displaces another at any step of its attach, and two shells.            *)
EXTENDS GuestAgent

CONSTANTS c1, c2, x1, x2

TwoConns == {c1, c2}
TwoShells == {x1, x2}
=============================================================================
