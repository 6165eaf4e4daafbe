--------------------------- MODULE MessageWrites ---------------------------
(***************************************************************************)
(* The write path of one channel's messages: create (with or without an    *)
(* Idempotency-Key), edit and tombstone delete, run by concurrent HTTP     *)
(* handlers of one API process against two stores that share no            *)
(* transaction:                                                            *)
(*                                                                         *)
(*   Scylla    rows          messages_by_channel, written only by LWT      *)
(*   Postgres  reservations  message_create_idempotency_keys               *)
(*             lastMessage   channel_last_message of the channel           *)
(*                                                                         *)
(* Every statement sent to a store is a step of its own.  A statement may  *)
(* error, its handler may be dropped and the process may restart: the      *)
(* statement is then "in flight" and the store may still apply it, at any  *)
(* later time or never.                                                    *)
(***************************************************************************)
EXTENDS Integers, FiniteSets

CONSTANTS
    Requests,    \* HTTP requests that may reach the API, one handler each
    Principals,  \* authenticated authors
    Keys,        \* Idempotency-Key values
    Contents,    \* message bodies; the payload fingerprint is a hash of it
    Commands,    \* what clients may ask for
    NoKey,       \* no Idempotency-Key header
    Empty,       \* the content of a tombstone
    None,        \* no row, no reservation, no value yet
    MaxClock,    \* bound: the last tick the wall clock can show
    MaxId,       \* bound: the largest message id handed out
    Second,      \* ticks per second: created_at is truncated to it
    Day          \* seconds per day: a day is one Scylla bucket

MessageIds == 1..MaxId

\* Mutant of CreatedAt: the reading is not truncated to the second.
CreatedAtNotTruncated(now) == now

CreatedAt(now) == now \div Second

Bucket(at) == at \div Day

Times == 0..(MaxClock \div Second)

CreateCommand ==
    [op : {"create"}, principal : Principals, key : Keys \cup {NoKey},
     content : Contents]

EditCommand ==
    [op : {"edit"}, principal : Principals, target : MessageIds,
     expected : Nat, content : Contents]

DeleteCommand ==
    [op : {"delete"}, principal : Principals, target : MessageIds,
     expected : Nat, content : {Empty}]

Identity == [id : MessageIds, at : Times]

Row == [author : Principals, content : Contents \cup {Empty}, version : Nat,
        deleted : BOOLEAN, at : Times]

Reservation == [fingerprint : Contents, state : {"reserved", "completed"},
                identity : Identity]

Slots == Principals \X Keys

ASSUME CommandsAssumption ==
    Commands \subseteq CreateCommand \cup EditCommand \cup DeleteCommand

ASSUME SentinelAssumption ==
    /\ None \notin Row \cup Reservation \cup Identity
    /\ NoKey \notin Keys
    /\ Empty \notin Contents

ASSUME BoundAssumption ==
    /\ MaxClock \in Nat \ {0}
    /\ MaxId \in Nat
    /\ Second \in Nat \ {0}
    /\ Day \in Nat \ {0}

VARIABLES
    nextMessageId,  \* the process's AtomicI64: the last id it handed out
    bootClock,      \* what the wall clock showed when the process started
    reservations,   \* [Slots -> Reservation or None]
    rows,           \* [MessageIds -> Row or None]
    lastMessage,    \* Identity or None
    phase,          \* where each handler is
    command,        \* the request each handler serves
    identity,       \* the message identity each handler works with
    snapshot,       \* the message each handler will write or answer with
    upper,          \* the newest bucket an edit or delete will look into
    inflight,       \* statements whose outcome no handler knows
    published,      \* realtime frames handed to the hub
    settled         \* history: requests whose message was acknowledged
                    \* to some client before they started

stores == <<reservations, rows, lastMessage>>
handlers == <<phase, command, identity, snapshot, upper>>
process == <<nextMessageId, bootClock>>
history == <<published, settled>>
vars == <<process, stores, handlers, inflight, history>>

Writes == {"reserve", "insert", "upsert", "complete", "update"}

Active == {"reserve", "insert", "recheck", "reinsert", "select", "upsert",
           "complete", "load", "find", "update"}

\* "publishing": the handler answered 2xx and its spawned publish task has not
\* run; "acked": answered 2xx, nothing left to publish.
Acknowledged == {"publishing", "acked"}

Refused == {"mismatch", "not_found", "forbidden", "conflict", "failed"}

Phases == {"idle"} \cup Active \cup Acknowledged \cup Refused

IsCreate(r) == command[r].op = "create"

IsKeyed(r) == IsCreate(r) /\ command[r].key # NoKey

Slot(r) == <<command[r].principal, command[r].key>>

FirstVersion(r, i) ==
    [author |-> command[r].principal, content |-> command[r].content,
     version |-> 1, deleted |-> FALSE, at |-> i.at]

\* The order UPSERT_LAST_MESSAGE_SQL keeps: created_at, then message id.
Earlier(i, j) == i.at < j.at \/ (i.at = j.at /\ i.id < j.id)

-----------------------------------------------------------------------------
(* The statements.  Each is atomic in its store, and each is applied by the *)
(* handler that sent it or, when it was left in flight, by the store alone. *)

\* Mutant of ReserveKey: the conflict clause takes the new identity.
ReserveKeyOverwriting(r) ==
    /\ reservations' = [reservations EXCEPT ![Slot(r)] =
           [fingerprint |-> command[r].content,
            state |-> IF @ = None THEN "reserved" ELSE @.state,
            identity |-> identity[r]]]
    /\ UNCHANGED <<rows, lastMessage>>

ReserveKey(r) ==
    /\ reservations' = [reservations EXCEPT ![Slot(r)] =
           IF @ = None THEN [fingerprint |-> command[r].content,
                             state |-> "reserved", identity |-> identity[r]]
                       ELSE @]
    /\ UNCHANGED <<rows, lastMessage>>

\* Mutant of InsertIfNotExists: a plain INSERT, which in Scylla is an upsert.
InsertOverwriting(r) ==
    /\ rows' = [rows EXCEPT ![identity[r].id] = FirstVersion(r, identity[r])]
    /\ UNCHANGED <<reservations, lastMessage>>

InsertIfNotExists(r) ==
    /\ rows' = [rows EXCEPT ![identity[r].id] =
           IF @ = None THEN FirstVersion(r, identity[r]) ELSE @]
    /\ UNCHANGED <<reservations, lastMessage>>

\* Mutant of UpsertLastMessage: the upsert has no WHERE clause.
UpsertLastMessageAlways(r) ==
    /\ lastMessage' = identity[r]
    /\ UNCHANGED <<reservations, rows>>

UpsertLastMessage(r) ==
    /\ lastMessage' = IF lastMessage = None \/ Earlier(lastMessage, identity[r])
                      THEN identity[r] ELSE lastMessage
    /\ UNCHANGED <<reservations, rows>>

CompleteKey(r) ==
    /\ reservations' = [reservations EXCEPT ![Slot(r)] =
           IF @ = None THEN @ ELSE [@ EXCEPT !.state = "completed"]]
    /\ UNCHANGED <<rows, lastMessage>>

UpdateIfVersion(r) ==
    /\ rows' = [rows EXCEPT ![identity[r].id] =
           IF @ # None /\ @.version = command[r].expected THEN snapshot[r] ELSE @]
    /\ UNCHANGED <<reservations, lastMessage>>

Write(r, w) ==
    \/ w = "reserve" /\ ReserveKey(r)
    \/ w = "insert" /\ InsertIfNotExists(r)
    \/ w = "upsert" /\ UpsertLastMessage(r)
    \/ w = "complete" /\ CompleteKey(r)
    \/ w = "update" /\ UpdateIfVersion(r)

\* The write a handler in phase p may have sent and not heard back about.
Unanswered(p) ==
    IF p = "reinsert" THEN {"insert"} ELSE {p} \cap Writes

GoTo(r, p) == phase' = [phase EXCEPT ![r] = p]

-----------------------------------------------------------------------------
(* Requests arrive.                                                         *)

\* History: had some client already been told that this message exists?
KeyAcknowledged(c) ==
    /\ c.key # NoKey
    /\ \E o \in Requests : /\ phase[o] \in Acknowledged
                           /\ IsKeyed(o)
                           /\ Slot(o) = <<c.principal, c.key>>

TargetAcknowledged(c) ==
    \E o \in Requests : /\ phase[o] \in Acknowledged
                        /\ IsCreate(o)
                        /\ identity[o].id = c.target

\* The wall clock may step back while the process runs, not to before its
\* start: ids come from max(clock, previous + 1).
StartCreate(r, c) ==
    /\ phase[r] = "idle"
    /\ c.op = "create"
    /\ \E now \in bootClock..MaxClock :
          LET id == IF now > nextMessageId THEN now ELSE nextMessageId + 1 IN
          /\ id <= MaxId
          /\ nextMessageId' = id
          /\ identity' = [identity EXCEPT ![r] = [id |-> id, at |-> CreatedAt(now)]]
    /\ command' = [command EXCEPT ![r] = c]
    /\ GoTo(r, IF c.key = NoKey THEN "insert" ELSE "reserve")
    /\ settled' = IF KeyAcknowledged(c) THEN settled \cup {r} ELSE settled
    /\ UNCHANGED <<bootClock, stores, snapshot, upper, inflight, published>>

StartUpdate(r, c) ==
    /\ phase[r] = "idle"
    /\ c.op # "create"
    /\ command' = [command EXCEPT ![r] = c]
    /\ GoTo(r, "load")
    /\ settled' = IF TargetAcknowledged(c) THEN settled \cup {r} ELSE settled
    /\ UNCHANGED <<process, stores, identity, snapshot, upper, inflight, published>>

-----------------------------------------------------------------------------
(* Create.                                                                  *)

\* A new key is reserved with the proposed identity; a key that is still
\* reserved is resumed with the identity stored under it.
Reserve(r) ==
    /\ phase[r] = "reserve"
    /\ ReserveKey(r)
    /\ LET stored == reservations'[Slot(r)] IN
          /\ stored.fingerprint = command[r].content
          /\ stored.state = "reserved"
          /\ identity' = [identity EXCEPT ![r] = stored.identity]
    /\ GoTo(r, "insert")
    /\ UNCHANGED <<process, command, snapshot, upper, inflight, history>>

\* A completed key answers with the stored identity and publishes nothing.
ReplayCompleted(r) ==
    /\ phase[r] = "reserve"
    /\ LET stored == reservations[Slot(r)] IN
          /\ stored # None
          /\ stored.fingerprint = command[r].content
          /\ stored.state = "completed"
          /\ identity' = [identity EXCEPT ![r] = stored.identity]
          /\ snapshot' = [snapshot EXCEPT ![r] = FirstVersion(r, stored.identity)]
    /\ GoTo(r, "acked")
    /\ UNCHANGED <<process, stores, command, upper, inflight, history>>

PayloadMismatch(r) ==
    /\ phase[r] = "reserve"
    /\ LET stored == reservations[Slot(r)] IN
          stored # None /\ stored.fingerprint # command[r].content
    /\ GoTo(r, "mismatch")
    /\ UNCHANGED <<process, stores, command, identity, snapshot, upper, inflight, history>>

Insert(r) ==
    /\ phase[r] \in {"insert", "reinsert"}
    /\ InsertIfNotExists(r)
    /\ GoTo(r, "select")
    /\ UNCHANGED <<process, command, identity, snapshot, upper, inflight, history>>

\* The first INSERT errors: its row may or may not come to exist.
InsertErrors(r) ==
    /\ phase[r] = "insert"
    /\ inflight' = inflight \cup {<<r, "insert">>}
    /\ GoTo(r, "recheck")
    /\ UNCHANGED <<process, stores, command, identity, snapshot, upper, history>>

\* Mutant of RecheckMissing: the INSERT is retried until it succeeds.
RecheckMissingForever(r) ==
    /\ phase[r] = "recheck"
    /\ rows[identity[r].id] = None
    /\ GoTo(r, "insert")
    /\ UNCHANGED <<process, stores, command, identity, snapshot, upper, inflight, history>>

RecheckMissing(r) ==
    /\ phase[r] = "recheck"
    /\ rows[identity[r].id] = None
    /\ GoTo(r, "reinsert")
    /\ UNCHANGED <<process, stores, command, identity, snapshot, upper, inflight, history>>

\* Mutant of SelectStored: a keyed create is completed before the last message
\* is upserted.
SelectStoredCompletesFirst(r) ==
    /\ phase[r] \in {"recheck", "select"}
    /\ rows[identity[r].id] # None
    /\ snapshot' = [snapshot EXCEPT ![r] = rows[identity[r].id]]
    /\ GoTo(r, IF IsKeyed(r) THEN "complete" ELSE "upsert")
    /\ UNCHANGED <<process, stores, command, identity, upper, inflight, history>>

\* The row as stored, whoever wrote it and however often it was edited since.
SelectStored(r) ==
    /\ phase[r] \in {"recheck", "select"}
    /\ rows[identity[r].id] # None
    /\ snapshot' = [snapshot EXCEPT ![r] = rows[identity[r].id]]
    /\ GoTo(r, "upsert")
    /\ UNCHANGED <<process, stores, command, identity, upper, inflight, history>>

\* Mutant of UpsertLast: the reservation is never marked completed.
UpsertLastAnswers(r) ==
    /\ phase[r] = "upsert"
    /\ UpsertLastMessage(r)
    /\ GoTo(r, "publishing")
    /\ UNCHANGED <<process, command, identity, snapshot, upper, inflight, history>>

UpsertLast(r) ==
    /\ phase[r] = "upsert"
    /\ UpsertLastMessage(r)
    /\ GoTo(r, IF IsKeyed(r) THEN "complete" ELSE "publishing")
    /\ UNCHANGED <<process, command, identity, snapshot, upper, inflight, history>>

Complete(r) ==
    /\ phase[r] = "complete"
    /\ CompleteKey(r)
    /\ GoTo(r, "publishing")
    /\ UNCHANGED <<process, command, identity, snapshot, upper, inflight, history>>

-----------------------------------------------------------------------------
(* Edit and delete.                                                         *)

\* Mutant of LoadContext: the newest bucket is always today's.
LoadContextToday(r) ==
    /\ phase[r] = "load"
    /\ \E now \in bootClock..MaxClock :
          upper' = [upper EXCEPT ![r] = Bucket(CreatedAt(now))]
    /\ GoTo(r, "find")
    /\ UNCHANGED <<process, stores, command, identity, snapshot, inflight, history>>

\* The channel context fixes the newest bucket to look into: the day of the
\* last message, or today when the channel has none yet.
LoadContext(r) ==
    /\ phase[r] = "load"
    /\ \E now \in bootClock..MaxClock :
          upper' = [upper EXCEPT ![r] =
              Bucket(IF lastMessage = None THEN CreatedAt(now) ELSE lastMessage.at)]
    /\ GoTo(r, "find")
    /\ UNCHANGED <<process, stores, command, identity, snapshot, inflight, history>>

\* The channel is older than every message: the oldest bucket hides nothing.
Visible(m, bucket) == rows[m] # None /\ Bucket(rows[m].at) <= bucket

Find(r) ==
    /\ phase[r] = "find"
    /\ LET c == command[r]
           stored == rows[c.target]
       IN /\ Visible(c.target, upper[r])
          /\ stored.author = c.principal
          /\ ~stored.deleted
          /\ stored.version = c.expected
          /\ identity' = [identity EXCEPT ![r] = [id |-> c.target, at |-> stored.at]]
          /\ snapshot' = [snapshot EXCEPT ![r] =
                 [stored EXCEPT !.content = c.content,
                                !.version = stored.version + 1,
                                !.deleted = (c.op = "delete")]]
    /\ GoTo(r, "update")
    /\ UNCHANGED <<process, stores, command, upper, inflight, history>>

FindRefuses(r) ==
    /\ phase[r] = "find"
    /\ LET c == command[r]
           stored == rows[c.target]
       IN \/ ~Visible(c.target, upper[r]) /\ GoTo(r, "not_found")
          \/ /\ Visible(c.target, upper[r])
             /\ stored.author # c.principal
             /\ GoTo(r, "forbidden")
          \/ /\ Visible(c.target, upper[r])
             /\ stored.author = c.principal
             /\ stored.deleted \/ stored.version # c.expected
             /\ GoTo(r, "conflict")
    /\ UNCHANGED <<process, stores, command, identity, snapshot, upper, inflight, history>>

\* Mutant of Update: the UPDATE has no IF clause.
UpdateUnconditionally(r) ==
    /\ phase[r] = "update"
    /\ rows' = [rows EXCEPT ![identity[r].id] = snapshot[r]]
    /\ GoTo(r, "publishing")
    /\ UNCHANGED <<reservations, lastMessage, process, command, identity, snapshot,
                   upper, inflight, history>>

Update(r) ==
    /\ phase[r] = "update"
    /\ UpdateIfVersion(r)
    /\ GoTo(r, IF rows[identity[r].id].version = command[r].expected
               THEN "publishing" ELSE "conflict")
    /\ UNCHANGED <<process, command, identity, snapshot, upper, inflight, history>>

-----------------------------------------------------------------------------
(* The spawned publish task.                                                *)

FrameKind(op) == CASE op = "create" -> "created"
                   [] op = "edit" -> "updated"
                   [] op = "delete" -> "deleted"

Publish(r) ==
    /\ phase[r] = "publishing"
    /\ published' = published \cup
           {[kind |-> FrameKind(command[r].op), id |-> identity[r].id, message |-> snapshot[r]]}
    /\ GoTo(r, "acked")
    /\ UNCHANGED <<process, stores, command, identity, snapshot, upper, inflight, settled>>

-----------------------------------------------------------------------------
(* Failures.                                                                *)

\* A statement errors and the handler answers 503, or the client hangs up and
\* the handler's future is dropped at an await.
Abort(r) ==
    /\ phase[r] \in Active
    /\ inflight' = inflight \cup ({r} \X Unanswered(phase[r]))
    /\ GoTo(r, "failed")
    /\ UNCHANGED <<process, stores, command, identity, snapshot, upper, history>>

Land(r, w) ==
    /\ <<r, w>> \in inflight
    /\ Write(r, w)
    /\ inflight' = inflight \ {<<r, w>>}
    /\ UNCHANGED <<process, handlers, history>>

\* The process restarts: handlers and publish tasks are gone and the id
\* counter is back to 0.  Assumed: by then the wall clock has passed every id
\* the process handed out.
Restart ==
    /\ \E now \in 1..MaxClock :
          /\ now > bootClock /\ now > nextMessageId
          /\ bootClock' = now
    /\ nextMessageId' = 0
    /\ inflight' = inflight \cup
           UNION {{r} \X Unanswered(phase[r]) : r \in Requests}
    /\ phase' = [r \in Requests |->
           IF phase[r] \in Active THEN "failed"
           ELSE IF phase[r] = "publishing" THEN "acked" ELSE phase[r]]
    /\ UNCHANGED <<stores, command, identity, snapshot, upper, history>>

-----------------------------------------------------------------------------

Init ==
    /\ nextMessageId = 0
    /\ bootClock = 1
    /\ reservations = [s \in Slots |-> None]
    /\ rows = [m \in MessageIds |-> None]
    /\ lastMessage = None
    /\ phase = [r \in Requests |-> "idle"]
    /\ command = [r \in Requests |-> None]
    /\ identity = [r \in Requests |-> None]
    /\ snapshot = [r \in Requests |-> None]
    /\ upper = [r \in Requests |-> 0]
    /\ inflight = {}
    /\ published = {}
    /\ settled = {}

Arrive(r) == \E c \in Commands : StartCreate(r, c) \/ StartUpdate(r, c)

CreateStep(r) ==
    \/ Reserve(r)
    \/ ReplayCompleted(r)
    \/ PayloadMismatch(r)
    \/ Insert(r)
    \/ InsertErrors(r)
    \/ RecheckMissing(r)
    \/ SelectStored(r)
    \/ UpsertLast(r)
    \/ Complete(r)

UpdateStep(r) ==
    \/ LoadContext(r)
    \/ Find(r)
    \/ FindRefuses(r)
    \/ Update(r)

Serve ==
    \/ \E r \in Requests : \/ Arrive(r)
                           \/ CreateStep(r)
                           \/ UpdateStep(r)
                           \/ Publish(r)
                           \/ Abort(r)
    \/ \E r \in Requests, w \in Writes : Land(r, w)

Next == Serve \/ Restart

Spec == Init /\ [][Next]_vars

\* A handler that is not aborted runs to its answer: the runtime polls it and
\* every statement returns or errors.  No client, failure or late statement is
\* obliged to happen.
Handle(r) == CreateStep(r) \/ UpdateStep(r) \/ Publish(r)

FairSpec == Spec /\ \A r \in Requests : WF_vars(Handle(r))

-----------------------------------------------------------------------------
(* What the write path promises.                                            *)

Frame == [kind : {"created", "updated", "deleted"}, id : MessageIds, message : Row]

TypeOK ==
    /\ nextMessageId \in 0..MaxId
    /\ bootClock \in 1..MaxClock
    /\ reservations \in [Slots -> Reservation \cup {None}]
    /\ rows \in [MessageIds -> Row \cup {None}]
    /\ lastMessage \in Identity \cup {None}
    /\ phase \in [Requests -> Phases]
    /\ command \in [Requests -> Commands \cup {None}]
    /\ identity \in [Requests -> Identity \cup {None}]
    /\ snapshot \in [Requests -> Row \cup {None}]
    /\ upper \in [Requests -> Nat]
    /\ inflight \subseteq Requests \X Writes
    /\ published \subseteq Frame
    /\ settled \subseteq Requests

Reachable(m) ==
    /\ rows[m] # None
    /\ lastMessage # None
    /\ Bucket(rows[m].at) <= Bucket(lastMessage.at)

\* An acknowledged create is in the store, in a bucket that every later
\* context read reaches: list, edit and delete start at the bucket of
\* channel_last_message and never look above it.  "Server ACK means persist
\* completed", across aborts, restarts and statements that land late.
AcknowledgedIsReachable ==
    \A r \in Requests :
        phase[r] \in Acknowledged /\ IsCreate(r) => Reachable(identity[r].id)

\* No edit or delete that started after its message was acknowledged is ever
\* answered "message_not_found".
AcknowledgedIsNeverNotFound ==
    \A r \in settled : phase[r] # "not_found"

\* A key stands for one message: two acknowledged creates of one author with
\* one key name the same identity, and every stored row belongs to a request
\* without a key or to a reservation, so retries leave no second row.
OneMessagePerKey ==
    /\ \A r, o \in Requests :
          /\ phase[r] \in Acknowledged /\ phase[o] \in Acknowledged
          /\ IsKeyed(r) /\ IsKeyed(o) /\ Slot(r) = Slot(o)
          => identity[r] = identity[o]
    /\ \A m \in MessageIds :
          rows[m] # None =>
             \/ \E s \in Slots : reservations[s] # None /\ reservations[s].identity.id = m
             \/ \E r \in Requests :
                   /\ phase[r] # "idle" /\ IsCreate(r) /\ ~IsKeyed(r)
                   /\ identity[r].id = m

\* "Completed" is a promise about both stores: a completed reservation names a
\* stored, reachable row, so a replay may answer without touching Scylla.
CompletedIsReachable ==
    \A s \in Slots :
        reservations[s] # None /\ reservations[s].state = "completed"
        => Reachable(reservations[s].identity.id)

\* Once a create was acknowledged, a later request with its key writes nothing
\* and hands no second message.created to the hub.
NoRepublishAfterAck ==
    \A r \in settled :
        IsCreate(r) => phase[r] \in {"reserve", "acked", "mismatch", "failed"}

\* "Persist must complete before publish": what a frame says was stored, can be
\* reached through history, and is superseded only by a newer version.
PublishedIsPersisted ==
    \A f \in published :
        /\ f.kind = "created" => Reachable(f.id)
        /\ rows[f.id] # None
        /\ \/ rows[f.id].version > f.message.version
           \/ rows[f.id] = f.message

\* Subscribers can order frames by version: no two frames show different
\* messages under one id and version.
FramesAgree ==
    \A f, g \in published :
        f.id = g.id /\ f.message.version = g.message.version => f.message = g.message

\* Optimistic concurrency: no two acknowledged edits or deletes of a message
\* were built on the same version.
NoLostUpdate ==
    \A r, o \in Requests :
        /\ r # o
        /\ phase[r] \in Acknowledged /\ phase[o] \in Acknowledged
        /\ ~IsCreate(r) /\ ~IsCreate(o)
        /\ identity[r].id = identity[o].id
        => snapshot[r].version # snapshot[o].version

\* Whatever fails, late or twice, a message is a register written once and then
\* moved version by version: no retry revives a tombstone or undoes an edit.
Register == INSTANCE MessageRegister
    WITH messages <- rows, Authors <- Principals

ImplementsRegister == Register!Spec

\* Every request is answered: the INSERT that errors is retried once, not for
\* ever, and no step waits for another request.
EveryRequestIsAnswered ==
    \A r \in Requests : phase[r] \in Active ~> phase[r] \notin Active

=============================================================================
