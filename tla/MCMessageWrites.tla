-------------------------- MODULE MCMessageWrites --------------------------
(* Small instances of MessageWrites for TLC. *)
EXTENDS MessageWrites, TLC

CONSTANTS p1, p2, k1, hello, howdy

RequestSymmetry == Permutations(Requests)

Create(p, k, c) == [op |-> "create", principal |-> p, key |-> k, content |-> c]

Edit(p, m, v, c) ==
    [op |-> "edit", principal |-> p, target |-> m, expected |-> v, content |-> c]

Delete(p, m, v) ==
    [op |-> "delete", principal |-> p, target |-> m, expected |-> v, content |-> Empty]

\* One author retries one key, or posts without a key.
RetryCommands == {Create(p1, k1, hello), Create(p1, NoKey, hello)}

\* A keyed create next to edits and deletes of the message it makes.
MutateCommands ==
    {Create(p1, k1, hello), Create(p1, k1, howdy), Create(p2, k1, hello),
     Edit(p1, 1, 1, howdy), Edit(p1, 1, 2, hello),
     Delete(p1, 1, 1), Delete(p1, 1, 2), Edit(p2, 1, 1, howdy)}

\* Two messages, the second possibly of an earlier day, and an edit of each.
RolloverCommands ==
    {Create(p1, NoKey, hello), Edit(p1, 1, 1, howdy), Edit(p1, 2, 1, howdy)}

AllCommands == RetryCommands \cup RolloverCommands \cup MutateCommands

\* Every command given is one of these.
Only(commands) == \A r \in Requests : command[r] \in commands \cup {None}

\* The scenarios share a run but no behaviour mixes them; the one with the most
\* commands ends a tick and an id earlier.
OneScenario ==
    \/ Only(RetryCommands) \/ Only(RolloverCommands)
    \/ Only(MutateCommands) /\ bootClock < MaxClock /\ nextMessageId < MaxClock

=============================================================================
