-------------------------------- MODULE MCCli --------------------------------
(* Model checking of Cli with the four registrations the program makes. *)
EXTENDS Cli

MCWord == <<"help", "asr_test", "wave_test", "iot_init">>
MCNames == {MCWord[n] : n \in DOMAIN MCWord}
MCDescribed == 2 .. 4       \* help is registered without a description
MCOthers == {"other"}
MCFresh == {NULL, WILD}
=============================================================================
