---------------------------- MODULE MCCanReader ----------------------------
(* CanReader for TLC.  Speed and Beam share a cyclic frame; the transform  *)
(* refuses the first change of either.                                     *)
EXTENDS CanReader
CONSTANTS Speed, Beam
MCSignals == {Speed, Beam}
MCFrames == {MCSignals}
MCBad == {<<Beam, 1>>, <<Speed, 1>>}
=============================================================================
