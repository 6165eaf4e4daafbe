----------------------------- MODULE MCTupleSync -----------------------------
(* Small instances of TupleSync for TLC: two override rows of one channel, one
   event each or two events about the first. *)
EXTENDS TupleSync

CONSTANTS w1, w2, link

SecondWatched == {2}

SameChannel == [a \in Aggregates |-> {link}]

NoDecisions ==
    announcing = {} /\ \A a \in Watched : ~decision[a].known /\ check[a].stage = "idle"

\* Nothing was ever written to the row of a.
Untouched(a) ==
    a \notin astray /\ rows[a] = {} /\ \A e \in Events : outbox[e].on # a

\* Two workers, the second of which claims one event at a time; one row, which
\* says something when it is there.
TwoWorkers ==
    NoDecisions /\ Untouched(2) /\ worker[w2].batch # Events /\ rows[1] # {link}

\* One worker and both rows.
TwoRows == NoDecisions /\ worker[w2] = Resting

\* One worker and decisions about the second row.
Decisions == Untouched(1) /\ worker[w2] = Resting

Bound == TwoWorkers \/ TwoRows \/ Decisions

=============================================================================
