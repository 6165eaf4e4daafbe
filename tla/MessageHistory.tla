--------------------------- MODULE MessageHistory ---------------------------
(***************************************************************************)
(* The history of one channel, read page by page while the write path      *)
(* runs: GET .../messages with a "before" cursor (or none) walks from the  *)
(* newest message to the oldest, with an "after" cursor from a boundary    *)
(* the client holds to the newest.                                         *)
(*                                                                         *)
(* One list request is a context read in Postgres and then one Scylla      *)
(* query per day bucket, so writes of other requests fall between them.    *)
(* Listing writes nothing, hence one client is enough.  The client follows *)
(* the cursors it is given; before an "after" chain it was disconnected     *)
(* from the realtime hub and its boundary is the newest message it heard.  *)
(*                                                                         *)
(* A page is a set of message ids: a page holds an id once, and the        *)
(* direction of the request gives the order.                               *)
(***************************************************************************)
EXTENDS MessageWrites

CONSTANT Limit  \* the page size a request asks for

ASSUME LimitAssumption == Limit \in Nat \ {0}

VARIABLES
    stage,      \* where the client is
    direction,  \* "before" or "after"
    cursor,     \* the cursor of the current request: an Identity or None
    newest,     \* the newest bucket the current request may query
    bucket,     \* the next bucket to query
    page,       \* ids collected for the current response
    delivered,  \* history: ids of all responses of this chain
    owed,       \* history: ids acknowledged before the chain began
    heard,      \* ids the client was sent realtime frames of
    missed      \* history: ids whose frames were sent while it was away

request == <<direction, cursor, newest, bucket, page>>
chain == <<delivered, owed, heard, missed>>
reader == <<stage, request, chain>>

\* The channel is older than every message; its day is the lower bucket.
Oldest == 0

Position(m) == [id |-> m, at |-> rows[m].at]

\* The order of the store: bucket by bucket, in a bucket by message_id.
Precedes(i, j) ==
    \/ Bucket(i.at) < Bucket(j.at)
    \/ Bucket(i.at) = Bucket(j.at) /\ i.id < j.id

\* i comes after j in the direction the client walks.
Beyond(i, j) == IF direction = "before" THEN Precedes(i, j) ELSE Precedes(j, i)

Acked == {identity[r].id : r \in {o \in Requests :
             phase[o] \in Acknowledged /\ IsCreate(o)}}

Framed == {f.id : f \in published}

-----------------------------------------------------------------------------
(* The client.                                                              *)

Disconnect ==
    /\ stage = "online"
    /\ stage' = "away"
    /\ heard' = Framed
    /\ UNCHANGED <<request, delivered, owed, missed>>

\* A boundary is unknown, or the channel is opened: the latest page first.
OpenLatest ==
    /\ stage \in {"online", "away"}
    /\ stage' = "context"
    /\ direction' = "before"
    /\ cursor' = None
    /\ owed' = Acked
    /\ UNCHANGED <<newest, bucket, page, delivered, heard, missed>>

\* Reconnect with the newest message heard as the boundary.
Reconnect ==
    /\ stage = "away"
    /\ stage' = "context"
    /\ direction' = "after"
    /\ \E m \in heard :
          /\ \A k \in heard : ~Precedes(Position(m), Position(k))
          /\ cursor' = Position(m)
          /\ owed' = {k \in Acked : Precedes(Position(m), Position(k))}
    /\ missed' = (Acked \cap Framed) \ heard
    /\ UNCHANGED <<newest, bucket, page, delivered, heard>>

-----------------------------------------------------------------------------
(* One list request.                                                        *)

LoadListContext ==
    /\ stage = "context"
    /\ \E now \in bootClock..MaxClock :
          newest' = Bucket(IF lastMessage = None THEN CreatedAt(now) ELSE lastMessage.at)
    /\ bucket' = IF cursor = None THEN newest' ELSE Bucket(cursor.at)
    /\ page' = {}
    /\ stage' = "scan"
    /\ UNCHANGED <<direction, cursor, chain>>

\* Mutant of PastCursor: the range filter is not strict.
FromCursor(m) ==
    \/ cursor = None
    \/ bucket # Bucket(cursor.at)
    \/ IF direction = "before" THEN m <= cursor.id ELSE m >= cursor.id

\* The cursor filters by message_id, and only in its own bucket.
PastCursor(m) ==
    \/ cursor = None
    \/ bucket # Bucket(cursor.at)
    \/ IF direction = "before" THEN m < cursor.id ELSE m > cursor.id

Found == {m \in MessageIds :
             rows[m] # None /\ Bucket(rows[m].at) = bucket /\ PastCursor(m)}

\* The n ids of S that come first on the way.
Nearest(S, n) ==
    {m \in S : Cardinality({k \in S : Beyond(Position(m), Position(k))}) < n}

\* Mutant of Scanning: the channel's own day does not end the way down.
ScanningPastOldest ==
    /\ Cardinality(page) <= Limit
    /\ direction = "before" \/ bucket <= newest

Scanning ==
    /\ Cardinality(page) <= Limit
    /\ IF direction = "before" THEN bucket >= Oldest ELSE bucket <= newest

\* One query.  One row more than the page holds is fetched.
ScanBucket ==
    /\ stage = "scan"
    /\ Scanning
    /\ page' = page \cup Nearest(Found, Limit + 1 - Cardinality(page))
    /\ bucket' = IF direction = "before" THEN bucket - 1 ELSE bucket + 1
    /\ UNCHANGED <<stage, direction, cursor, newest, chain>>

Kept == Nearest(page, Limit)

\* The last page carries no cursor.
LastPage ==
    /\ stage = "scan"
    /\ ~Scanning
    /\ Cardinality(page) <= Limit
    /\ delivered' = delivered \cup Kept
    /\ page' = {}
    /\ stage' = "done"
    /\ UNCHANGED <<direction, cursor, newest, bucket, owed, heard, missed>>

\* Mutant of NextPage: the cursor is taken before the extra row is cut off.
NextPageAfterExtra ==
    /\ stage = "scan"
    /\ Cardinality(page) > Limit
    /\ delivered' = delivered \cup Kept
    /\ \E m \in page :
          /\ \A k \in page \ {m} : Beyond(Position(m), Position(k))
          /\ cursor' = Position(m)
    /\ page' = {}
    /\ stage' = "context"
    /\ UNCHANGED <<direction, newest, bucket, owed, heard, missed>>

\* The client asks on from the last message of the page.
NextPage ==
    /\ stage = "scan"
    /\ Cardinality(page) > Limit
    /\ delivered' = delivered \cup Kept
    /\ \E m \in Kept :
          /\ \A k \in Kept \ {m} : Beyond(Position(m), Position(k))
          /\ cursor' = Position(m)
    /\ page' = {}
    /\ stage' = "context"
    /\ UNCHANGED <<direction, newest, bucket, owed, heard, missed>>

\* A query errors; the client repeats the request.
ListFails ==
    /\ stage = "scan"
    /\ page' = {}
    /\ stage' = "context"
    /\ UNCHANGED <<direction, cursor, newest, bucket, chain>>

\* The process restarts: sockets close and list requests are repeated.
RestartDropsClient ==
    /\ Restart
    /\ stage' = CASE stage = "online" -> "away"
                  [] stage = "scan" -> "context"
                  [] OTHER -> stage
    /\ heard' = IF stage = "online" THEN Framed ELSE heard
    /\ page' = {}
    /\ UNCHANGED <<direction, cursor, newest, bucket, delivered, owed, missed>>

-----------------------------------------------------------------------------

ListInit ==
    /\ stage = "online"
    /\ direction = "before"
    /\ cursor = None
    /\ newest = 0
    /\ bucket = 0
    /\ page = {}
    /\ delivered = {}
    /\ owed = {}
    /\ heard = {}
    /\ missed = {}

ListStep ==
    \/ Disconnect
    \/ OpenLatest
    \/ Reconnect
    \/ LoadListContext
    \/ ScanBucket
    \/ LastPage
    \/ NextPage
    \/ ListFails

HistoryInit == Init /\ ListInit

HistoryNext ==
    \/ Serve /\ UNCHANGED reader
    \/ RestartDropsClient
    \/ ListStep /\ UNCHANGED vars

HistorySpec == HistoryInit /\ [][HistoryNext]_<<vars, reader>>

-----------------------------------------------------------------------------
(* What the history promises.                                               *)

ListTypeOK ==
    /\ stage \in {"online", "away", "context", "scan", "done"}
    /\ direction \in {"before", "after"}
    /\ cursor \in Identity \cup {None}
    /\ newest \in Nat
    /\ bucket \in Nat \cup {Oldest - 1}
    /\ page \subseteq MessageIds
    /\ delivered \subseteq MessageIds
    /\ owed \subseteq MessageIds
    /\ heard \subseteq MessageIds
    /\ missed \subseteq MessageIds

\* A client that follows the cursors to the end has every message that was
\* acknowledged before it began (and lies past its boundary), whatever was
\* written, retried or restarted between its queries.
ChainMissesNothing == stage = "done" => owed \subseteq delivered

\* Paging only moves on: what a response is about to carry lies beyond all
\* that earlier responses carried, so pages neither overlap nor go back.
PagesMoveOn ==
    \A m \in page, d \in delivered : Beyond(Position(m), Position(d))

\* "Missing realtime deliveries are compensated only through this history
\* contract": after the differential fetch of a reconnect the client has every
\* message whose frame was sent while it was away.
ReconnectCompensates ==
    stage = "done" /\ direction = "after" => missed \subseteq delivered

\* "Ordering tie-break uses message_id when created_at collides": history is
\* ordered by created_at first.
HistoryOrderedByCreatedAt ==
    \A m \in page, d \in delivered :
        IF direction = "before" THEN Earlier(Position(m), Position(d))
                                ELSE Earlier(Position(d), Position(m))

=============================================================================
