---------------------------- MODULE MCLiveEvents ----------------------------
(***************************************************************************)
(* Small instances of LiveEvents for TLC.                                  *)
(***************************************************************************)
EXTENDS LiveEvents, TLC

MCPublisher == Link \cup {Detector}

MCEvent == [type : {"health", "node_online", "node_offline"}, mac : Mac]

ClientSymmetry == Permutations(Client)

=============================================================================
