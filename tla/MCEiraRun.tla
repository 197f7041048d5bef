------------------------------ MODULE MCEiraRun -------------------------------
(* Small instances of EiraRun for TLC.                                     *)
EXTENDS EiraRun, TLC

(* Nothing uploaded, then a complete pair of files, of which one is        *)
(* removed, or to which a second transcript is added; or two transcripts,  *)
(* of which one is taken away.                                             *)
Removed == 0 :> "partial" @@ 1 :> "complete" @@ 2 :> "partial"
Doubled == 0 :> "partial" @@ 1 :> "complete" @@ 2 :> "ambiguous"
Cleared == 0 :> "partial" @@ 1 :> "ambiguous" @@ 2 :> "complete"

QualityMixed == 1 :> Removed @@ 2 :> Cleared @@ 3 :> Removed
QualityDoubtful == 1 :> Doubled @@ 2 :> Cleared
=============================================================================
