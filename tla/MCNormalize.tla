---------------------------- MODULE MCNormalize ----------------------------
(* A small instance of Normalize for TLC. *)
EXTENDS Normalize, TLC

CONSTANTS line, begin, end, oneLine

Texts == {line, begin, end, oneLine}
BeginTexts == {begin, oneLine}
EndTexts == {end, oneLine}
=============================================================================
