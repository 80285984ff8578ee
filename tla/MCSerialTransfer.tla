-------------------------- MODULE MCSerialTransfer --------------------------
(***************************************************************************)
(* What comes: a byte that is negative as a char, a newline and a letter.  *)
(***************************************************************************)
EXTENDS SerialTransfer

MCCharacters == <<200, 10, 65>>
=============================================================================
