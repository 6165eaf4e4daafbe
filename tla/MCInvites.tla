------------------------------ MODULE MCInvites ------------------------------
(* Small instances of Invites for TLC. *)
EXTENDS Invites

CONSTANTS i1, i2, t1, t2, u1

\* The first invite is for one, the second for as many as there are.
OneOrAll == [i \in Codes |-> IF i = i1 THEN 1 ELSE Cardinality(Users)]

\* Both invites are issued before the first visit, the first tab is the first
\* user's and opened first, only the first invite expires, and in the end
\* either it expires or the guild is deleted.
OrderedVisits ==
    /\ tab[t1] # Away => \A i \in Codes : invite[i].there \/ guild = "gone"
    /\ tab[t2] # Away => tab[t1] # Away
    /\ tab[t1].by \in {None, u1}
    /\ ~invite[i2].expired
    /\ invite[i1].expired => guild = "alive"

=============================================================================
