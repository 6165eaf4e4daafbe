---------------------------- MODULE MCRealtimeHub ----------------------------
(* Small instances of RealtimeHub for TLC. *)
EXTENDS RealtimeHub, TLC

CONSTANTS s1, s2, c1, c2, f1, f2

HubSymmetry == Permutations(Sessions)

\* Frame f1 is published first, to c1.
FirstFrame == target[f1] = c1 /\ (step[f2] # "new" => step[f1] # "new")

\* One session, two channels, two frames: the second session never identifies.
OneSession ==
    /\ mode[s2] = "preauth" /\ doing[s2] = "nothing"
    /\ access \cap ({s2} \X Channels) = {}

\* Two sessions, one channel, one frame.
TwoSessions ==
    /\ mode[s2] # "reauth"
    /\ step[f2] = "new" /\ target[f2] = c1
    /\ access \cap (Sessions \X {c2}) = {}
    /\ \A s \in Sessions : c2 \notin pending[s] \cup subscriptions[s]

OneSessionOrTwo == FirstFrame /\ (OneSession \/ TwoSessions)

=============================================================================
