---------------------------- MODULE MCKafkaStore ----------------------------
(***************************************************************************)
(* A small instance of KafkaStore for TLC.                                 *)
(***************************************************************************)
EXTENDS KafkaStore, TLC

=============================================================================
