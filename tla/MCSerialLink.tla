---------------------------- MODULE MCSerialLink ----------------------------
(***************************************************************************)
(* A small instance of SerialLink for TLC.                                 *)
(***************************************************************************)
EXTENDS SerialLink, TLC

=============================================================================
