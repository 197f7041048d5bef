---------------------------- MODULE MCSessionSheet -----------------------------
(* Small instances of SessionSheet for TLC.                                *)
EXTENDS SessionSheet

TwoParticipants == 1 .. 2
ThreeParticipants == 1 .. 3
=============================================================================
