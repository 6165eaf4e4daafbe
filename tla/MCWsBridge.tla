----------------------------- MODULE MCWsBridge -----------------------------
(* Small instances of WsBridge for TLC. *)
EXTENDS WsBridge, TLC

BridgeSymmetry == Permutations(Sockets) \cup Permutations(Pages)

=============================================================================
