-------------------------- MODULE MCMessageTimeline --------------------------
(* Small instances of MessageTimeline for TLC. *)
EXTENDS MessageTimeline, TLC

MutationSymmetry == Permutations(Mutations)

Used == {i \in Mutations : mutation[i].at # "idle"}

\* Two mutations overlap while the channel stays on display and before the
\* bridge is connected: frames, leaving and coming back meet one mutation.
Overlap ==
    Cardinality(Used) = 2 =>
        link = "new" /\ open /\ sending = {} /\ \A m \in Messages : heard[m] = 0

\* A third message only shifts the pages.
Shift ==
    Newest = 3 =>
        /\ Used = {} /\ sending = {}
        /\ \A m \in Messages : Len(past[m]) = 1 /\ heard[m] = 0

OverlapOrShift == Overlap /\ Shift

=============================================================================
