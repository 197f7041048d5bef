---------------------------- MODULE MCRankingSheet -----------------------------
(* Small instances of RankingSheet for TLC.                                *)
EXTENDS RankingSheet

ThreeParticipants == 1 .. 3
=============================================================================
