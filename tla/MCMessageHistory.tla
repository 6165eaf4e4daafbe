-------------------------- MODULE MCMessageHistory --------------------------
(* Small instances of MessageHistory for TLC. *)
EXTENDS MessageHistory, TLC

CONSTANTS p1, hello

RequestSymmetry == Permutations(Requests)

Posts == {[op |-> "create", principal |-> p1, key |-> NoKey, content |-> hello]}

=============================================================================
