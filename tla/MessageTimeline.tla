-------------------------- MODULE MessageTimeline --------------------------
(* The web client's timeline of one channel: the infinite query that caches
   its pages, the frames and answers written into that cache, and the
   optimistic edits and deletes (shared/api/message-query.ts, queries and
   mutations).  The query library is external: one fetch at a time, a refetch
   cancels the one before it, setQueryData leaves a running fetch alone and the
   fetch overwrites the cache when it ends.  Message ids are 1, 2, ..., posted
   in that order; the n-th version of a message is the n-th entry of its past. *)
EXTENDS Integers, Sequences, FiniteSetsExt

CONSTANTS
    Mutations,  \* edits and deletes this client may make
    MaxMessage, \* bound: messages of the channel
    MaxVersion, \* bound: versions of a message
    Posted,     \* messages that exist at the start
    Limit,      \* DEFAULT_MESSAGE_PAGE_LIMIT
    First,      \* the body of a message's first version
    Other,      \* the body of an update made on another device of the author
    Deleted,    \* the body of a tombstone
    None

ASSUME TimelineAssumption ==
    /\ {MaxMessage, MaxVersion, Limit} \subseteq Nat \ {0}
    /\ Posted \in 0..MaxMessage
    /\ {First, Other, Deleted} \cap Mutations = {}

VARIABLES
    past,       \* the server: every message's bodies so far
    publishing, \* committed versions whose frame is still to be published
    link,       \* the bridge's connection, as far as this channel goes
    open,       \* the channel is on display
    cache,      \* the query's pages
    fetch,      \* the query's fetch
    sending,    \* posts of this client that are not answered
    mutation,   \* edits and deletes of this client
    owed,       \* a settled mutation asked for a refetch that has not completed
    heard,      \* per message: the version delivered while nothing was under way
    confirmed,  \* per message: the version a mutation was answered with
    full        \* the newest message when the last whole refetch was read

serverVars == <<past, publishing>>
knownVars == <<heard, confirmed, full>>
timelineVars == <<past, publishing, link, open, cache, fetch, sending, mutation,
                  owed, heard, confirmed, full>>

Messages == 1..MaxMessage

Body == {First, Other, Deleted} \cup Mutations

Item == [version : 1..MaxVersion, body : Body]

\* The pages flattened, how many they are, and nextBefore of the last (0: none).
Pages == [shown : UNION {[S -> Item] : S \in SUBSET Messages},
          pages : 1..MaxMessage, cut : 0..MaxMessage]

ASSUME NoneAssumption == None \notin Pages

Exists == {m \in Messages : past[m] # <<>>}

Newest == Cardinality(Exists)

Version(m, v) == [version |-> v, body |-> past[m][v]]

Latest(m) == Version(m, Len(past[m]))

Pending == {i \in Mutations : mutation[i].at \in {"sent", "applied", "refused"}}

-----------------------------------------------------------------------------
(* The cache.                                                               *)

\* Mutant of mergeMessages: a version that is older wins.
mergeMessagesAlways(current, incoming) == incoming

mergeMessages(current, incoming) ==
    IF incoming.version < current.version THEN current ELSE incoming

NoItems == [m \in {} |-> None]

\* Items of the set S, put in front of what is shown.
Prepend(S, items, shown) ==
    [m \in S \cup DOMAIN shown |-> IF m \in S THEN items[m] ELSE shown[m]]

appendMessageToPages(c, m, item) ==
    IF c = None THEN [shown |-> [k \in {m} |-> item], pages |-> 1, cut |-> 0]
    ELSE LET merged == IF m \in DOMAIN c.shown THEN mergeMessages(c.shown[m], item)
                       ELSE item
         IN [c EXCEPT !.shown = Prepend({m}, [k \in {m} |-> merged], c.shown)]

\* A fetch of every page there is, from the newest on.
Refetch(c) ==
    [kind |-> "all", shown |-> NoItems, cut |-> MaxMessage + 1, read |-> 0,
     left |-> IF c = None THEN 1 ELSE c.pages, top |-> 0, clean |-> TRUE]

\* Mutant of Invalidate: a fetch that is under way is good enough.
InvalidateUnlessFetching(c) == IF open /\ fetch = None THEN Refetch(c) ELSE fetch

\* invalidateQueries: an active query starts over; one with no data yet lets the
\* fetch go on that it has, and one that is not on display is only marked.
Invalidate(c) ==
    IF open /\ (c # None \/ fetch = None) THEN Refetch(c) ELSE fetch

\* Mutant of Settle: the mutation does not ask for a refetch.
SettleOnly(c) == fetch' = fetch /\ owed' = owed

\* onSettled.
Settle(c) ==
    /\ owed' = TRUE
    /\ fetch' = IF open THEN Invalidate(c)
                ELSE IF fetch = None THEN None ELSE [fetch EXCEPT !.clean = FALSE]

-----------------------------------------------------------------------------
(* The server and the other devices.                                        *)

Commit(m, body) ==
    /\ past' = [past EXCEPT ![m] = Append(@, body)]
    /\ publishing' = publishing \cup {[id |-> m, version |-> Len(past[m]) + 1]}

\* Somebody posts; if it is this client, an answer will come.
Post(mine) ==
    /\ Newest < MaxMessage
    /\ mine => open
    /\ Commit(Newest + 1, First)
    /\ sending' = IF mine THEN sending \cup {Newest + 1} ELSE sending
    /\ UNCHANGED <<link, open, cache, fetch, mutation, owed>> /\ UNCHANGED knownVars

\* The author edits or deletes on another device.
UpdateElsewhere(m) ==
    /\ m \in Exists
    /\ Len(past[m]) < MaxVersion /\ Latest(m).body # Deleted
    /\ Commit(m, Other)
    /\ UNCHANGED <<link, open, cache, fetch, sending, mutation, owed>> /\ UNCHANGED knownVars

\* What reaches the client while nothing is under way.
Hears(m, v) ==
    heard' = IF fetch = None /\ Pending = {}
             THEN [heard EXCEPT ![m] = IF v > @ THEN v ELSE @] ELSE heard

\* A frame reaches the client if it is subscribed by then.
PublishFrame(f) ==
    /\ f \in publishing
    /\ publishing' = publishing \ {f}
    /\ IF link = "subscribed"
       THEN /\ cache' = appendMessageToPages(cache, f.id, Version(f.id, f.version))
            /\ Hears(f.id, f.version)
       ELSE UNCHANGED <<cache, heard>>
    /\ UNCHANGED <<past, link, open, fetch, sending, mutation, owed, confirmed, full>>

\* useSendMessage's onSuccess.
SendAnswered(m) ==
    /\ m \in sending
    /\ sending' = sending \ {m}
    /\ cache' = appendMessageToPages(cache, m, Version(m, 1))
    /\ Hears(m, 1)
    /\ UNCHANGED serverVars
    /\ UNCHANGED <<link, open, fetch, mutation, owed, confirmed, full>>

-----------------------------------------------------------------------------
(* The connection.  Every ready but the first one invalidates the messages of
   the channel on display, then the bridge subscribes.                      *)

LinkReady ==
    /\ open /\ link \in {"new", "down"}
    /\ link' = "ready"
    /\ fetch' = IF link = "down" THEN Invalidate(cache) ELSE fetch
    /\ UNCHANGED serverVars
    /\ UNCHANGED <<open, cache, sending, mutation, owed>> /\ UNCHANGED knownVars

Subscribed ==
    /\ link = "ready"
    /\ link' = "subscribed"
    /\ UNCHANGED serverVars
    /\ UNCHANGED <<open, cache, fetch, sending, mutation, owed>> /\ UNCHANGED knownVars

LinkLost ==
    /\ link \in {"ready", "subscribed"}
    /\ link' = "down"
    /\ UNCHANGED serverVars
    /\ UNCHANGED <<open, cache, fetch, sending, mutation, owed>> /\ UNCHANGED knownVars

-----------------------------------------------------------------------------
(* The query.                                                               *)

\* The channel goes off display; its cache, fetch and mutations live on.
Leave ==
    /\ open
    /\ open' = FALSE
    /\ link' = IF link = "new" THEN "new" ELSE "down"
    /\ UNCHANGED serverVars
    /\ UNCHANGED <<cache, fetch, sending, mutation, owed>> /\ UNCHANGED knownVars

\* Mounted again, focused again or back online: a stale query is fetched,
\* unless it is being fetched already.
Show(stale) ==
    /\ open' = TRUE
    /\ fetch = None /\ cache = None => stale
    /\ fetch' = IF fetch = None /\ stale THEN Refetch(cache) ELSE fetch
    /\ <<open, fetch>>' # <<open, fetch>>
    /\ UNCHANGED serverVars
    /\ UNCHANGED <<link, cache, sending, mutation, owed>> /\ UNCHANGED knownVars

\* Mutant of LoadOlder: hasNextPage is not looked at.
LoadOlderAlways ==
    /\ open /\ cache # None
    /\ fetch # None => fetch.kind = "all"
    /\ fetch' = [kind |-> "older", shown |-> cache.shown, cut |-> cache.cut,
                 read |-> cache.pages, left |-> 1, top |-> 0, clean |-> TRUE]
    /\ UNCHANGED serverVars
    /\ UNCHANGED <<link, open, cache, sending, mutation, owed>> /\ UNCHANGED knownVars

\* fetchNextPage cancels a refetch that is under way and adds to the pages there
\* are now; loadOlder waits for another fetchNextPage only.
LoadOlder ==
    /\ open /\ cache # None
    /\ cache.cut # 0
    /\ fetch # None => fetch.kind = "all"
    /\ fetch' = [kind |-> "older", shown |-> cache.shown, cut |-> cache.cut,
                 read |-> cache.pages, left |-> 1, top |-> 0, clean |-> TRUE]
    /\ UNCHANGED serverVars
    /\ UNCHANGED <<link, open, cache, sending, mutation, owed>> /\ UNCHANGED knownVars

Largest(S, n) == {m \in S : Cardinality({k \in S : k > m}) < n}

\* Mutant of PageCursor: the cursors of the cached pages are used again.
PageCursorCached ==
    IF fetch.cut > MaxMessage \/ cache = None \/ fetch.kind = "older" \/ cache.cut = 0
    THEN fetch.cut ELSE cache.cut

\* getNextPageParam looks at the page before in the same fetch.
PageCursor == fetch.cut

\* The server reads one page; the request for the next one starts from it.
ReadPage ==
    /\ fetch # None /\ fetch.left > 0
    /\ LET older == {m \in Exists : m < PageCursor}
           page == Largest(older, Limit)
           cut == IF page = older THEN 0 ELSE Min(page)
       IN fetch' = [fetch EXCEPT
              !.shown = Prepend(page, [m \in page |-> Latest(m)], fetch.shown),
              !.cut = cut,
              !.read = fetch.read + 1,
              !.left = IF cut = 0 THEN 0 ELSE fetch.left - 1,
              !.top = IF fetch.read = 0 THEN Newest ELSE fetch.top]
    /\ UNCHANGED serverVars
    /\ UNCHANGED <<link, open, cache, sending, mutation, owed>> /\ UNCHANGED knownVars

\* The last page arrives and the result replaces the cache.
FetchEnds ==
    /\ fetch # None /\ fetch.left = 0
    /\ cache' = [shown |-> fetch.shown, pages |-> fetch.read, cut |-> fetch.cut]
    /\ fetch' = None
    /\ IF fetch.kind = "all"
       THEN full' = fetch.top /\ owed' = (owed /\ ~fetch.clean)
       ELSE UNCHANGED <<full, owed>>
    /\ UNCHANGED serverVars
    /\ UNCHANGED <<link, open, sending, mutation, heard, confirmed>>

\* The request and its one retry fail.
FetchFails ==
    /\ fetch # None
    /\ fetch' = None
    /\ UNCHANGED serverVars
    /\ UNCHANGED <<link, open, cache, sending, mutation, owed>> /\ UNCHANGED knownVars

-----------------------------------------------------------------------------
(* Optimistic edits and deletes.                                            *)

Idle == [at |-> "idle", on |-> 0, expected |-> 0, body |-> First, snapshot |-> None]

\* onMutate: running fetches are cancelled, the cache is kept for a rollback and
\* shows an edit under the old version, a delete under the next.
Mutate(i, m, item, body) ==
    /\ mutation[i].at = "idle" /\ open /\ cache # None
    /\ m \in DOMAIN cache.shown /\ item.body # Deleted /\ item.version < MaxVersion
    /\ fetch' = None
    /\ mutation' = [mutation EXCEPT ![i] =
           [at |-> "sent", on |-> m, expected |-> item.version, body |-> body,
            snapshot |-> cache]]
    /\ cache' = appendMessageToPages(cache, m,
           [version |-> IF body = Deleted THEN item.version + 1 ELSE item.version,
            body |-> body])
    /\ UNCHANGED serverVars
    /\ UNCHANGED <<link, open, sending, owed>> /\ UNCHANGED knownVars

Edit(i, m) == cache # None /\ m \in DOMAIN cache.shown /\ Mutate(i, m, cache.shown[m], i)

\* The context menu keeps the message it was opened on.
Delete(i, m) ==
    /\ cache # None /\ m \in DOMAIN cache.shown
    /\ \E item \in {cache.shown[m]} \cup {Version(m, v) : v \in 1..Len(past[m])} :
           item.version <= cache.shown[m].version /\ Mutate(i, m, item, Deleted)

\* The conditional update of the message write path.
ServerMutates(i) ==
    /\ mutation[i].at = "sent"
    /\ LET m == mutation[i].on IN
       IF Len(past[m]) = mutation[i].expected /\ Latest(m).body # Deleted
       THEN Commit(m, mutation[i].body) /\ mutation' = [mutation EXCEPT ![i].at = "applied"]
       ELSE UNCHANGED serverVars /\ mutation' = [mutation EXCEPT ![i].at = "refused"]
    /\ UNCHANGED <<link, open, cache, fetch, sending, owed>> /\ UNCHANGED knownVars

\* onSuccess and onSettled.
MutationSucceeds(i) ==
    /\ mutation[i].at = "applied"
    /\ LET m == mutation[i].on
           v == mutation[i].expected + 1
       IN /\ cache' = appendMessageToPages(cache, m, Version(m, v))
          /\ confirmed' = [confirmed EXCEPT ![m] = IF v > @ THEN v ELSE @]
    /\ mutation' = [mutation EXCEPT ![i] = [Idle EXCEPT !.at = "over"]]
    /\ Settle(cache')
    /\ UNCHANGED serverVars /\ UNCHANGED <<link, open, sending, heard, full>>

\* onError and onSettled: a refusal, or a request or an answer that is lost.
MutationFails(i) ==
    /\ i \in Pending
    /\ cache' = mutation[i].snapshot
    /\ mutation' = [mutation EXCEPT ![i] = [Idle EXCEPT !.at = "over"]]
    /\ Settle(cache')
    /\ UNCHANGED serverVars /\ UNCHANGED <<link, open, sending>> /\ UNCHANGED knownVars

-----------------------------------------------------------------------------

TimelineInit ==
    /\ past = [m \in Messages |-> IF m <= Posted THEN <<First>> ELSE <<>>]
    /\ publishing = {}
    /\ link = "new"
    /\ open = TRUE
    /\ cache = None
    /\ fetch = Refetch(None)
    /\ sending = {}
    /\ mutation = [i \in Mutations |-> Idle]
    /\ owed = FALSE
    /\ heard = [m \in Messages |-> 0]
    /\ confirmed = [m \in Messages |-> 0]
    /\ full = 0

MutationStep(i) ==
    \/ \E m \in Messages : Edit(i, m) \/ Delete(i, m)
    \/ ServerMutates(i) \/ MutationSucceeds(i) \/ MutationFails(i)

TimelineNext ==
    \/ \E mine \in BOOLEAN : Post(mine)
    \/ \E f \in publishing : PublishFrame(f)
    \/ \E m \in Messages : UpdateElsewhere(m) \/ SendAnswered(m)
    \/ LinkReady \/ Subscribed \/ LinkLost
    \/ Leave \/ (\E stale \in BOOLEAN : Show(stale)) \/ LoadOlder
    \/ ReadPage \/ FetchEnds \/ FetchFails
    \/ \E i \in Mutations : MutationStep(i)

TimelineSpec == TimelineInit /\ [][TimelineNext]_timelineVars

-----------------------------------------------------------------------------
(* What the timeline promises.                                              *)

TimelineTypeOK ==
    /\ past \in [Messages -> UNION {[1..n -> Body] : n \in 0..MaxVersion}]
    /\ publishing \subseteq [id : Messages, version : 1..MaxVersion]
    /\ link \in {"new", "down", "ready", "subscribed"}
    /\ open \in BOOLEAN /\ owed \in BOOLEAN
    /\ cache = None \/ cache \in Pages
    /\ fetch = None \/
           /\ fetch.kind \in {"all", "older"} /\ DOMAIN fetch.shown \subseteq Messages
           /\ fetch.read + fetch.left \in 1..MaxMessage + 1
    /\ sending \subseteq Messages
    /\ \A i \in Mutations :
           mutation[i].at = "idle" \/ mutation[i].at = "over" \/ mutation[i].snapshot # None
    /\ {heard, confirmed} \subseteq [Messages -> 0..MaxVersion] /\ full \in 0..MaxMessage

AtRest == Pending = {} /\ ~owed /\ cache # None

\* A text that no server state had (an optimistic edit, also one that another
\* mutation's rollback brought back) is gone once the last mutation has settled
\* and the refetch it asked for has completed.
RestIsHonest ==
    AtRest => \A m \in DOMAIN cache.shown :
        \E v \in 1..Len(past[m]) : cache.shown[m] = Version(m, v)

\* By then no edit or delete that was confirmed to the user is undone on screen,
\* unless its message left the loaded pages: a frame that comes later still puts
\* it on the newest page, in the version the frame carries.
ConfirmedIsShown ==
    AtRest => \A m \in Messages :
        confirmed[m] > 0 /\ m >= cache.cut =>
            m \in DOMAIN cache.shown /\ cache.shown[m].version >= confirmed[m]

\* What a frame or an answer brought while no fetch and no mutation was under
\* way stays, at that version or a later one, unless it left the loaded pages.
HeardStays ==
    \A m \in Messages :
        heard[m] > 0 /\ m >= cache.cut =>
            m \in DOMAIN cache.shown /\ cache.shown[m].version >= heard[m]

\* The loaded pages have no hole: from the end of the last page up to the newest
\* message of the last whole refetch every message is shown.
NoHole ==
    AtRest => \A m \in Messages :
        m <= full /\ m >= cache.cut => m \in DOMAIN cache.shown

=============================================================================
