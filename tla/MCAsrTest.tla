------------------------------ MODULE MCAsrTest ------------------------------
(* Model checking of AsrTest: the constants are given in the .cfg files. *)
EXTENDS AsrTest

\* Three commands are the least that show a leftover post travel through a
\* command that was refused into a third one.
MCMaxCommands == 3
=============================================================================
