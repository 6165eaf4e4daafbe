-------------------------- MODULE MessageRegister --------------------------
(***************************************************************************)
(* What a channel promises about its messages, with no stores, retries or  *)
(* failures: each message id is a register that is written once with       *)
(* version 1, then edited version by version, and ends as a tombstone.     *)
(* Author and created_at never change; a tombstone has no content and no   *)
(* later version.                                                          *)
(***************************************************************************)
EXTENDS Naturals

CONSTANTS MessageIds, Authors, Contents, Empty, Times, None

VARIABLE messages

Message == [author : Authors, content : Contents \cup {Empty}, version : Nat,
            deleted : BOOLEAN, at : Times]

Init == messages = [m \in MessageIds |-> None]

Post(m) ==
    /\ messages[m] = None
    /\ \E a \in Authors, c \in Contents, t \in Times :
          messages' = [messages EXCEPT ![m] =
              [author |-> a, content |-> c, version |-> 1, deleted |-> FALSE, at |-> t]]

Live(m) == messages[m] # None /\ ~messages[m].deleted

Edit(m) ==
    /\ Live(m)
    /\ \E c \in Contents :
          messages' = [messages EXCEPT ![m] =
              [messages[m] EXCEPT !.content = c, !.version = messages[m].version + 1]]

Tombstone(m) ==
    /\ Live(m)
    /\ messages' = [messages EXCEPT ![m] =
           [messages[m] EXCEPT !.content = Empty, !.version = messages[m].version + 1,
                               !.deleted = TRUE]]

Next == \E m \in MessageIds : Post(m) \/ Edit(m) \/ Tombstone(m)

Spec == Init /\ [][Next]_messages

=============================================================================
