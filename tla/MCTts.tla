------------------------------- MODULE MCTts -------------------------------
(* Constants for checking Tts: the second conversion is shorter.           *)
EXTENDS Tts

MCData == <<3, 1>>
=============================================================================
