# TLA+ models of LinkLynx-AI

LinkLynx-AI is a chat service: a Rust API (REST and WebSocket), a Next.js web
client, Postgres for accounts, guilds, permissions and message metadata, Scylla
for message bodies, SpiceDB for authorization and a few skeleton services. This
directory holds TLA+ models of the parts whose correctness depends on
interleavings, failures and restarts, the TLC configurations that check them on
small instances, and TLAPS proofs for every instance.

Modules are translated from the code; `PROJECT.json` maps each definition to
the lines it stands for.

## 1. The system

### Components, their state and what makes them correct

| component (code) | state | operations | hard behaviour | correct when |
|---|---|---|---|---|
| message write path (`apps/api/src/message/service.rs`, `domains/message`, `platform/scylla/message`, `platform/postgres/message`) | Scylla `messages_by_channel`; Postgres `message_create_idempotency_keys`, `channel_last_message`; the process's id counter | create (with or without `Idempotency-Key`), edit, tombstone delete | two stores without a common transaction; retries racing the original; statements that error and are applied later; restarts; clock steps | an acknowledged message is stored and reachable; one key is one message; edits are not lost; frames can be ordered |
| message history (`platform/scylla/message`, `contracts/message-api`) | none of its own | list by latest, `before`, `after` | one context read and one query per day bucket, with writes between them; cursors over day boundaries | a chain of pages misses nothing that was acknowledged before it began, and never repeats |
| realtime hub and WebSocket sessions (`main/realtime.rs`, `main/ws_routes.rs`) | two maps (channel to sessions, session to channels), a bounded queue per session, a mode per session | identify, subscribe, unsubscribe, reauthenticate, publish, disconnect | subscribers copied, then authorized one by one across awaits; access changing; sockets closing; full queues | refused sessions hear nothing; nobody allowed is skipped; closed sessions leave no trace |
| message HTTP routes (`main/http_routes.rs`) | none | handlers call the usecase, answer, spawn the publish task | the publish task runs after the answer, in any order, or never | persist precedes publish |
| authorization service and cache (`authz/service.rs`) | decision cache with TTL and a size limit | check, invalidate | a decision computed before an invalidation is stored after it | no decision outlives its TTL; a revocation takes effect |
| SpiceDB tuple sync (`authz/tuple_sync.rs`, migration 0004) | outbox rows with status, lease and attempt count; the tuple store | claim, apply, mark sent or failed, full resync | at-least-once application, leases, retries out of order, resync racing role writes, a tuple shared by several rows | what was applied agrees with the tables; a resync repairs what did not |
| tickets and limiters (`auth/ws_ticket.rs`, `ratelimit.rs`) | one-time tickets in two maps; windows per key; a degraded flag | issue, consume, count, observe | several lock sections per operation; window boundaries; hysteresis | a ticket is used once; high-risk actions fail closed |
| principals (`auth/principal.rs`, `auth/firebase.rs`) | cached principals, users and identities, cached JWKS | resolve, provision, refresh | concurrent first logins; cache outage; key rotation | one user per subject |
| invites, DMs, moderation, guilds, channels, roles, profiles (`invite`, `dm`, `moderation`, `guild_channel`, `user_directory`, `profile`) | Postgres rows | single statements or short transactions | READ COMMITTED snapshots, unique keys, conditional updates | uses never exceed the limit; one DM per pair; a report is resolved once |
| web client: WS bridge (`app/providers/ws-auth-bridge.tsx`) | socket, attempt generation, timer, phase, banner, refs | connect, identify, subscribe, reauthenticate, reconnect, redirect, sign out | answers of attempts that were outlived, close events that come late, two sockets at once | it always gets ready or to the login page, subscribed to the page on display; nothing that arrives after a sign-out connects it again |
| web client: timeline (`shared/api/message-query.ts`, `queries`, `mutations`) | pages of an infinite query, its fetch, snapshots of optimistic mutations | frame, send, edit, delete, refetch, load older | whatever is written while a fetch runs is overwritten by its result; rollbacks of overlapping mutations | at rest every text shown is one the server had, none older than confirmed |
| web client: invite page (`app/invite/[code]`) | status shown, a join in flight | load, retry, join | a join of which the answer is lost, retried | a page that leads to the guild belongs to a member |
| web client: the rest (`src/typescript`) | form state | one request per form | none | |
| worker, gateway, contracts, infrastructure | none | health checks, data types, manifests | none | |

### How they interact

A message request is authenticated (principal resolver), rate-limited,
authorized (authorization service), runs the message usecase against Scylla and
Postgres, answers, and spawns a task that hands a frame to the realtime hub. The
hub copies the channel's subscribers, asks the authorization service about each
of them and puts the frame into the session's bounded queue; the session's task
writes it out. A client that was away is expected to compensate through the
history endpoint. Role and permission changes commit in Postgres together with
outbox events, and the handler then invalidates the decision cache; workers are
to apply the events to SpiceDB, which the next check that misses the cache is
asked of. (Nothing in the built program runs those workers yet, see TupleSync.)

In the browser, `WsAuthBridge` keeps one identified socket and subscribes it to
the page on display. Frames, answers and the history endpoint all write into one
cached timeline per channel. The invite page asks for the public status of an
invite and sends joins, which meet revocations and the guild's deletion in
Postgres.

`PROJECT.json` lists every hazard this code is exposed to, at its line, with the
properties that cover it, or why none does yet.

## 2. Modules

| module | what it models | composed from |
|---|---|---|
| `MessageWrites` | the write path of one channel, all handlers of one API process, both stores, failures and restarts | |
| `MessageRegister` | abstract: a message is a register written once, then moved version by version, ending as a tombstone | |
| `MessageHistory` | one client paging through history, away from the hub and back | extends `MessageWrites` |
| `RealtimeHub` | the hub's maps, session tasks, publish tasks, an authorizer that changes its mind | |
| `TupleSync` | permission rows, outbox, sync workers, tuple store and decision cache | |
| `Invites` | joins, revocations, expiry and the guild's deletion as Postgres runs them, and the invite pages | |
| `WsBridge` | the browser's WebSocket bridge, its sockets, routes and session | |
| `MessageTimeline` | the browser's cache of one channel: fetches, frames, optimistic mutations | |
| `MC...` | small instances: commands, limits, symmetry, constraints | extend the module they are named after |
| `MessageWritesProofs`, `MessageSafetyProofs` | theorems about `MessageWrites`: types, then safety and the refinement of `MessageRegister` | extend each other in this order |
| `MessageHistoryProofs` | theorems about `MessageHistory` | extends it and `MessageSafetyProofs` |
| `RealtimeHubProofs`, `TupleSyncProofs`, `InvitesProofs`, `WsBridgeProofs`, `MessageTimelineProofs` | theorems about the module they are named after | extend it |

### MessageWrites

State: `rows` is the Scylla table, `reservations` and `lastMessage` are the two
Postgres tables, `nextMessageId` and `bootClock` the process (the atomic
counter, and what the clock showed at its start). Each request has a handler
with a `phase`, named after the statement it will send next, the `command` it
serves, the `identity` and `snapshot` it works with and, for edit and delete,
the newest bucket (`upper`) fixed by its channel context.

Every statement sent to a store is one action: `Reserve` (with
`ReplayCompleted` and `PayloadMismatch` as its other outcomes), `Insert`
(`INSERT ... IF NOT EXISTS`), `SelectStored`, `UpsertLast`, `Complete`,
`LoadContext`, `Find`, `FindRefuses`, `Update` (`UPDATE ... IF version = ?`),
and `Publish` is the spawned task. Failures are actions too: `InsertErrors` is
the error the code rechecks and retries once (`RecheckMissing`); `Abort` is an
error that is answered 503 or a dropped handler future; `Restart` loses every
handler, every unspawned frame and the counter. A statement whose outcome no
handler knows is put into `inflight`, and `Land` may apply it at any later time,
once, or never.

A message id is `max(clock, previous + 1)` and `created_at` is the same clock
reading cut to the second (`CreatedAt`); a bucket is a day of `created_at`. The
clock of the model is a small integer, `Second` ticks make a second and `Day`
seconds a day, so both roundings are real and a boundary lies inside the bound.
The clock may show any value from the process's start on, hence also step back.

Modelling assumptions: one API process; a restarted process reads a clock that
has passed every id handed out before (ids are nanoseconds); the channel is older
than all of its messages; payload fingerprints do not collide; authorization is
decided before the handler starts and does not change what it writes.

### MessageRegister

What clients may rely on, without stores, retries or failures. The refinement
mapping is `messages <- rows`.

### MessageHistory

`Serve` (the write path) interleaves with the steps of one list request:
`LoadListContext` reads the channel context, `ScanBucket` sends one query for
one bucket and collects at most `Limit + 1` ids, `NextPage` or `LastPage` cuts
the extra row, answers and makes the cursor. The client follows cursors; before
an `after` chain it was connected (`online`), so that its boundary is the newest
message it heard of. Listing writes nothing, so one client stands for any number.
A page is a set of ids: a page holds each once, and the direction of the request
gives the order.

### RealtimeHub

`subscribers` and `subscriptions` are the two maps of the hub's mutex; every
action that touches them is one lock section. A session's task handles one
client frame at a time: `Authorize` is the access check of subscribe and
unsubscribe (stream and channel check in one step), `Subscribe` and
`Unsubscribe` the map access after it; `Reauthenticate`, `ReconcileCheck` and
`ReconcileEnd` re-authorize all subscriptions one by one; `Expire`, `HangUp`,
`WriteOut` and `Disconnect` are the arms of the select loop and its exit. A
publish task is `Publish` (copy), `CheckAccess` and `TrySend` per subscriber, and
`Cleanup`. `Grant` and `Revoke` change what the authorizer answers at any
moment; an outage is a refusal, as in the code (fail-close).

`vouched`, `barred`, `steady`, `reached` and `dropped` are history variables:
they record what the properties speak of and guard nothing.

### TupleSync

An aggregate is a permission row; the four tables a full resync reads are
represented by one row each. A row stands for tuples of its own (`Candidates`), of
which the model leaves open which ones, and a channel override also for the
`channel#guild` tuple of its channel (`LinkOf`), which all overrides of that channel
share. `Replace` is `build_replace_mutations`: it deletes the candidates and writes
the desired tuples. The candidates of an override do not contain the `channel#guild`
tuple, so no event ever removes it: it outlives the last override of a channel until
a full resync.
`Write` is a role or permission handler: rows and outbox event in one
transaction, then `Invalidate` of the decision cache in a step of its own, which
a dropped handler never takes (`DropInvalidation`). `WriteSilently` is a write
that enqueues nothing (joins, guild creation, cascades). A worker's `Claim` takes
any set of claimable events under a lease; then `Apply`, or `StartResync`,
`ReadTable` (one per table), `ListTuples` and `ApplyResync`; then `MarkSent` or
`MarkFailed`. Each store call and each mark may err with or without effect
(`ApplyErrs`, `ResyncErrs`, `MarkSentErrs`), and `GiveUp` leaves a claim to its
leases, also by stopping the process. Leases are not timed: one may end at
any moment, also under a worker that is still busy, so two workers can hold one
event. A check is `Begin` (the channel-guild consistency request, which goes past the
cache and denies when the tuple is missing), `Ask`, `WriteDecision`, its late write into
the cache, or `EndCheck`; `Forget` is TTL or eviction.

The model has the workers' code, but **no loop in the built program runs it**:
`authz/runtime.rs:163-172` validates and logs the configuration, the only sinks are
the no-op and the in-memory one, and
`docs/runbooks/authz-spicedb-tuple-sync-operations-runbook.md:36` leaves "actual service
wiring/execution loop" to follow-up work. The properties therefore assume nothing of
the workers: they say what holds whenever and however often the code runs, not that
the outbox is ever emptied.

`astray` is a history variable: the aggregates which no outstanding event is
bound to bring right. It names the cases the code does not handle (a silent
write, a write while an older event or a resync of it is outstanding) and is
left by the cases that repair them. `ConvergedUnlessAstray` is about all others: it
catches a repeated, failed or doubly claimed event, and an event of one row that harms
another's. Of an astray aggregate the code promises only what the runbook tells an
operator, that a full resync repairs it: that is `ResyncRepairs`, for a resync that no
write and no other event overlapped.

### Invites

`join_invite` is one statement, and the model follows what Postgres makes of it
under READ COMMITTED: `Begin` takes the snapshot (membership, use, expiry), `Lock`
waits for the invite's row and reads that row and no other anew, `InsertMember`
waits for an uncommitted insert of the same membership, `Commit` adds member, use
and counter; a foreign key makes it wait for a guild that is being deleted.
`StartRevoke`, `LockRevoke`, `CommitRevoke` and `CheckRevoke` are the revocation and
the second statement that explains why it found nothing. `StartDelete`,
`DropInvite` and `FinishDelete` are the deletion and its cascade, `JoinDeadlocks`,
`RevokeDeadlocks` and `AbortDelete` the deadlock detector's choice. A page goes
through `Visit`, `Load`, `Attempt` and what `Told` makes of the answer;
`Disconnect` loses the answer while the request goes on. The query planner's row
locks, `ON CONFLICT` and deadlock detection are Postgres's and follow its
documented behaviour. The page's effect that joins at once after a login
(`autoJoin`) is an attempt like the button's.

### WsBridge

The bridge's refs and state are one record, and its callbacks (`Connect`,
`RedirectToLogin`, `ScheduleReconnect`, `HandleSocketReady`, `HandleSocketClose`, ...)
are functions from that record, the sockets and the outlived ticket requests to
the same, so that an event handler and the effects of the render it causes
are one step, as React runs them before any answer can arrive. Everything
awaited ends in an action: `TicketIssued` and `TicketFailed` (for the latest
attempt or one that was outlived, which captured another page), `TokenRefreshed`,
`SignedOut`, `Closed`, `ConnectionLost`, `ServerClose`, `DeadlineClose`. `Navigate`,
`LogIn` and `Reload` are the routes. After a sign-out on a protected page the document
runs on until `Reload` (`Leaving`): tickets, refreshed tokens, timers and socket
events still arrive, and what holds them back are the code's own looks at
`shouldConnectRef` and `redirectingRef` (`StillWanted` and the guards in
`HandleSocketClose` and `ScheduleReconnect`). `Faults` says which faults the environment
may commit, and `CalmDown` ends them all; once it is calm, a close handshake is
done within the second of the shortest reconnect delay.

### MessageTimeline

`past` is the server's history of each message, `cache` the pages of the infinite
query, `fetch` the one fetch it may run: `ReadPage` is the server answering one
page, `FetchEnds` the result replacing the cache. `appendMessageToPages` merges
frames (`PublishFrame`), own sends (`SendAnswered`) and confirmed mutations by
version. `Edit` and `Delete` cancel a running fetch, keep a snapshot and show the
text at once; `MutationSucceeds`, `MutationFails` (rollback to the snapshot) and
`Settle` (ask for a refetch) follow. `LinkReady`, `Subscribed`, `LinkLost`,
`Leave`, `Show` and `LoadOlder` are the connection and the view. The query library
is external and modelled from how the code uses it.

`heard`, `confirmed`, `full` and `owed` are history variables. `heard` records
what arrived while no fetch and no mutation was under way, because whatever
arrives during a fetch is overwritten by the fetch's result. `owed` is the refetch a
settled mutation asked for, which a failed fetch or `loadOlder` may swallow. Both
exclusions describe the code: without them `HeardStays`, `RestIsHonest` and
`ConfirmedIsShown` do not hold (`PROJECT.json` lists the hazard). So does
`ConfirmedIsShown`'s restriction to the loaded pages: an instance with one mutation
and three messages that shift the pages showed that a frame of an old version,
late on its way, puts a message that has left the loaded pages back on the newest
page, in that old version, although a later one was confirmed to the user, and it
stays there while nothing else is fetched.

## 3. What the runs check

| run | instance | shows |
|---|---|---|
| `retry` | 3 requests, 2 authors, 1 key, 2 texts; 3 clock ticks, 3 ids | the safety of the write path (`AcknowledgedIsReachable`, `OneMessagePerKey`, `CompletedIsReachable`, `NoRepublishAfterAck`, `AcknowledgedIsNeverNotFound`, `PublishedIsPersisted`, `FramesAgree`, `NoLostUpdate`) and that it implements `MessageRegister`, over every placement of aborts, errors, restarts and late statements |
| `answered` | 2 requests, fair handlers | `EveryRequestIsAnswered` |
| `paging` | 3 creates over two days, pages of one message | `ChainMissesNothing`, `PagesMoveOn` |
| `queues` | 2 sessions, 1 channel, 1 frame, or 1 session, 2 channels, 2 frames; queue of 1; fair tasks | `RevokedReceivesNothing`, `FanoutIsComplete`, `ClosedIsForgotten`, `PublishEnds`, `ExpiredIsSettled` |
| `session` | 2 pages, 2 sockets, all faults, 1 outlived request, fair bridge | `NeverStranded`, `ReadyIsSubscribed`, `SignedOutIsDisconnected`, `SettlesDown` |
| `timeline` | 2 mutations, 3 messages of 2 versions, pages of 1 | `RestIsHonest`, `ConfirmedIsShown`, `HeardStays`, `NoHole` |
| `sync` | 2 overrides of one channel, each of 1 tuple and the shared one, 2 workers, 2 events, 1 watched aggregate | `ConvergedUnlessAstray`, `ResyncRepairs`, `DecisionsFollow` |
| `joins` | 2 users, 2 invites (one for a single use), 2 pages, 2 joins, 1 revocation, 1 deletion, fair statements | `LedgersAgree`, `OneUsePerMember`, `AnswersAreTrue`, `RevokedAdmitsNobody`, `JoiningEnds` |
| `reconnect` | as `paging` | a counterexample, finding 1 |
| `ordering` | as `paging`, one bucket | a counterexample, finding 2 |
| `resubscribe` | 2 sessions, 1 channel, 1 frame | a counterexample, finding 3 |
| `navigation` | 2 pages, 3 sockets, no faults | a counterexample, finding 4 |

Each passing run also checks the type invariant of its module.

### Bounds

Write path: three requests are the least that hold an original, its retry and a
third party (another retry, an edit of the result, a create in the other bucket),
and each may fail at every statement, so a late statement of a failed handler
meets two live ones. Two buckets are needed for a message to be hidden and
suffice, as the code compares neighbouring buckets only. A page of one message
gives chains of up to three pages, within and across buckets. Two ticks a second
and one second a day put both roundings inside three ticks. Hub: two sessions let
one be refused while the other must still be served; a queue of one is full after
one frame. Bridge: two sockets are the one in use and the one that replaces it; one
outlived ticket request (`MaxStale`) can still open a second socket. Timeline: two
mutations can overlap and roll back over each other; a third message shifts
page boundaries. Sync: two workers can hold one event after its lease ended, two
events of one aggregate can be applied out of order, two overrides can share a
tuple one of them gives up. Invites: two joins race for
the last use, or one user's two joins race by two invites.

Several runs share one instance between scenarios that would not fit together,
by a CONSTRAINT of the MC module:

- `OneScenario` (`retry`): all requests are creates by one author (retries), or
  creates and edits across a bucket boundary, or keyed creates with edits and
  deletes by two authors; the last scenario ends one tick earlier.
- `OneSessionOrTwo` (`queues`): one session with two channels and frames, or two
  sessions with one.
- `OverlapOrShift` (`timeline`): two mutations only while the channel stays on
  display before the first connection; a third message only without mutations and
  with one version each.
- `Bound` (`sync`): two workers at one override whose row, when there is one, has a
  tuple of its own, the second claiming one event at a time; or one worker at both
  overrides; or one worker, events of one override, checks and the cache.
- `OrderedVisits` (`joins`): both invites are issued before the first visit, tabs
  are opened in order (the first is one user's), only the first invite expires, and
  either it expires or the guild is deleted.

TLC explores no state beyond a constraint; a liveness property of such a run is
checked on the behaviours that stay within it. `retry` has 1.9 million distinct
states, `timeline` 2.1 million, `sync` 1.6, `joins` 0.5, `queues` 0.4 and `session`
0.3 million; each ends within three minutes with two workers.

`MaxClock`, `MaxId`, `MaxEvents`, `MaxMessage`, `MaxVersion` and `MaxStale` bound
counters; requests, joins, revocations, sockets, frames and mutations are bounded by
the sets they come from. `CHECK_DEADLOCK FALSE` is set throughout: the instances
stop when these are used up, as an idle system does.

### Fairness

`FairSpec` (`answered`) has weak fairness of the steps of a handler that is being
polled, and of nothing else: the async runtime polls every ready task and each
store call ends with a result or an error. It does not assume that requests
arrive, that late statements land or that the process never restarts.
`FairHubSpec` (`queues`) has weak fairness of a session's own steps, of the
deadline that closes a session whose reauthentication is pending, and of a
publish task's steps. Clients are never obliged to send anything and access need
not change. The close after the deadline, and the answer to a ping, are sends
without a timeout (`ws_routes.rs:339`, `373`), so this fairness of a session's own
steps also rests on the peer's TCP taking them or failing.
`FairBridgeSpec` (`session`): requests are answered, timers fire, sockets open,
close events arrive, the server's deadlines expire, a started navigation is
carried out. That the environment ever becomes calm is not assumed; `SettlesDown` says what
follows if it does.
`FairSyncSpec` (`sync`): cached decisions expire. Nothing is assumed of the workers,
of a check or of an invalidation. `DecisionsFollow` has as its premise that the store
comes to be right about a row and stays so, however that happens.
`FairInviteSpec` (`joins`): a statement that can go on does, and Postgres breaks
deadlocks. Pages, users and expiry owe nothing.

### Findings

1. `reconnect`: ids are allocated when a create arrives and rows appear later in
   any order. A client that heard message 2, was away when message 1 was
   published, and asks for what comes `after` 2 is never given 1; the
   history runbook says history compensates missed deliveries.
2. `ordering`: `created_at` follows the wall clock, ids only grow. When the clock
   steps back, history within a bucket is ordered by id against `created_at`,
   which the runbook names as the first sort key, and `paginate_messages`
   compares first.
3. `resubscribe`: a publish task applies its refusals at the end of its fan-out.
   A session that was refused, then allowed again, and subscribed anew in between
   loses the new, acknowledged subscription.

4. `navigation`: after its ticket arrives, a `connect()` that a newer one has
   outlived opens a socket all the same and replaces the newer one's. The socket
   that was replaced never identifies, the server closes it with 1008, and the
   bridge, which takes any 1008 for a refused session, signs the user out. Two
   quick navigations suffice.

Divergences noticed that no run is spent on: a user's second join that waits for
the row while the first takes its last use is answered invalid, while
`docs/agent_runs/LIN-912/Documentation.md:11` wants a duplicate join to succeed
as `already_member` (the model has the behaviour: `Lock` reads the membership
from the snapshot; `AnswersAreTrue` does not state that sentence); the swallowed refetch
described under MessageTimeline; the `channel#guild` tuple that outlives the overrides
of a channel; and its absence for a channel that has no override, which
`ensure_guild_channel_consistency` answers with a denial, while section 5.3 of
`database/contracts/lin862_spicedb_namespace_relation_permission_contract.md` (line 153)
allows `can_view` when only the guild role's baseline speaks (the tuple is the one
line 154 names).

## 4. What is proved

The theorems about `MessageWrites` hold for any sets of requests, authors, keys, contents and commands
and any bounds; they assume `CommandsAssumption` (commands are well formed),
`SentinelAssumption` (the sentinels are no values) and `BoundAssumption` (the
bounds are naturals, the divisors positive).

* `TypeCorrect` (`MessageWritesProofs`): `Spec => []TypeOK`. `TypeOK` alone is not
  inductive, since a handler in phase `update` needs a command that is an edit and
  an identity that is set. `TypeInv` adds `HandlerOK` (which of a handler's variables
  are set in which phase) and `FlightOK` (what is in flight was sent by a handler
  that had got that far).
* `AckedReachable`, `CompletedReachable`, `KeyNamesOneMessage`,
  `PublishedPersisted`, `FramesConsistent`, `LostUpdatesNever`
  (`MessageSafetyProofs`) follow from one inductive invariant, `SafetyInv`:
  - `TypeInv`;
  - `IdentitiesAgree`: two uses of an id anywhere (handlers, reservations, rows)
    agree on `created_at`. Without it a late INSERT could put an id into another bucket;
  - `ProgressInv`: what a handler has passed stays done. A handler beyond
    `select` has its row, beyond `upsert` it has a `lastMessage` not earlier than its own
    identity, and a write in flight was preceded by what its sender had done. This
    carries reachability through aborts and restarts;
  - `VersionInv`: rows only move to higher versions, every snapshot, frame and
    update in flight is either the row of its version or superseded, and an
    acknowledged update's version is taken.
  The step lemmas say what each of the five writes does to the stores
  (`WriteGrows`, `KnownStays`, `DoneStays`), so the proof treats a write sent by a
  handler and the same write landing late alike.
* `RetriesOnlyReplay`, `AcknowledgedFound` (`MessageSafetyProofs`) are about requests
  that start after another was answered, which the history variable `settled` records.
  `SettledInv` is inductive together with `SafetyInv`: the key of an acknowledged
  create is completed, and a request in `settled` is only in phases that a completed
  key leaves open (a retry never gets beyond `reserve`), or looks for a message
  that is stored in a bucket not beyond its `upper`.
* `RegisterImplemented` (`MessageSafetyProofs`): every step of the write path is a
  `Post`, `Edit` or `Tombstone` of the register or leaves `rows` alone. It needs
  `SafetyInv` for the update in flight: what it writes is the row it was built on, one
  version further.

* `ListTypeCorrect`, `ChainsMissNothing`, `PagesOnlyMoveOn` (`MessageHistoryProofs`)
  hold for any page size, any day length and both directions, on top of `SafetyInv`,
  as the writes go on under the reader. `ListInv` adds to the types:
  - `HoldsStored`: the reader's messages are stored, its cursor is one's position,
    and what is owed to it was `Done` (hence reachable) when the chain began;
  - `WalkOK`: between two pages what was delivered lies up to the cursor and what
    is still owed lies beyond it;
  - `ScanOK`: within a page, what is owed is on the page, or in a bucket still to be
    asked, or cut off by a page that is full of messages nearer than it. Without the
    last case the step that drops the surplus row would break it.
  `NearestIsNearest` says what a `LIMIT n` query returns: whatever it leaves out has n
  nearer rows before it. Ranks (how many rows lie before one) are an injection of the
  rows into an interval, so that the library's facts on cardinalities give it without
  an induction.

* `HubTypeCorrect`, `ClosedForgotten`, `NothingToRevoked`, `FanoutCompletes`
  (`RealtimeHubProofs`) hold for any sessions, channels, frames and capacity, under
  `HubAssumption` (the capacity is positive, `Nobody` is no session). Their inductive
  invariant `HubInv` adds to the types:
  - `MapsAgree`: the two maps are each other's inverse;
  - `LeavingInv`: a session leaves its loop only between two client frames and takes
    its subscriptions along. Together with `MapsAgree` it says that a publish copies
    no closed session;
  - `TaskInv`: a task that has not begun, or has ended, holds nobody;
  - `BarredInv`: a session refused since before the publish is neither cleared nor
    served. Without the clause on `cleared` the step that sends would break it;
  - `SteadyInv`: a session that stayed subscribed, allowed and open is still to be
    asked about, cleared, served or was dropped by its full queue.

* `SyncTypeCorrect`, `SyncConverges`, `UndisturbedResyncRepairs` (`TupleSyncProofs`)
  hold for any number of tables, workers and events, any tuples and any sharing of
  `channel#guild` tuples, under `SyncAssumption`.
  `ConvergedUnlessAstray` is about a state in which nothing is outstanding, so it
  needs to know what is true on the way there. `SyncInv` adds:
  - `HoldsInv`: a worker's event is of its claim and exists, a resync's reads are as
    long as its stage says;
  - `FootInv`: rows, events and what a resync read stand for tuples of their own and
    the channel's only, so an event of one row cannot take a tuple from another
    (`OthersApart`);
  - `CleanInv`: nothing is outstanding of an aggregate a resync is clean for;
  - `CarriesRow`: the outstanding events of a tracked aggregate (not astray, or to be
    brought back by a clean resync) carry its row, so applying one again, early or
    late, does no harm;
  - `ReadsRow`, `SeesStore`: what a resync has read of it is its row, and the store
    has lost none of its row's tuples, nor gained one of its own, since it was listed;
  - `AppliedInv`: an event that was applied, or that is sent while somebody still
    holds it, has made the store right about the row. This carries convergence through
    lost leases, double claims and errors with effect;
  - `ListedAll`: since a resync that is clean for everything listed the store, only
    tuples of rows were added to it. This is what `ResyncRepairs` needs, as a resync
    deletes only what it listed.
* `InviteTypeCorrect`, `LedgersAlwaysAgree`, `MembersCostOneUse`, `AnswersStayTrue`,
  `NobodyAfterRevocation` (`InvitesProofs`) hold for any users, invites, limits,
  requests, revocations and pages under `InviteAssumption` (users are finitely many, limits
  positive, identifiers distinct). `InviteInv` adds to the types and `LocksAreHeld`:
  - `JoinsOK`: a join that waits for the row saw at worst an older state (`Waits`: who
    was a member then is one now, what had expired is dead now), one that holds the row
    may rely on what it found (`Holds`: there, not disabled, a use left);
  - `InsertsOK`: one uncommitted insert per user, and none of a member. With `OneUse`
    (a member's use is of exactly one invite) it makes the insert, not the snapshot's
    view of earlier uses, decide whether a use is counted;
  - `RevokesOK`: a revocation that found nothing found a dead invite, and dead invites
    stay dead;
  - `TabsOK`, `PagesOK`: a request that still has a page is its only one, and a refused
    page's invite is dead.
  `JoinCases` reduces all join actions to five shapes (ended, started, row taken,
  inserted, admitted), and `AgesStep` says once what any step may do to an invite that
  stays; the action property `RevokedAdmitsNobody` follows from it.

* `BridgeTypeCorrect`, `BridgeNeverStranded`, `ReadyMeansSubscribed`,
  `SignedOutDisconnects` (`WsBridgeProofs`) hold for any pages, sockets, faults and
  bound on outlived requests. `BridgeInv` has three modes: at the login page the bridge is
  `Asleep`; for a user who is signed in, on a protected page, it is `Lively`; between a
  sign-out and the unload of the document (`Leaving`) it is `Dismissed`, and the lemmas
  `LeavingSocketStep` and `LeavingAnswerStep` show of every callback that can still run
  that it stays so: a late answer opens no socket, a close signs nobody out and times
  nothing, a failed refresh redirects with nothing left to cancel. `Lively` is `RefsOK` (`socketRef` holds a socket that
  works, `intentionallyClosingSocketRef` one whose close event is to come, and
  `connectInFlightRef` belongs to a request or socket that will still report),
  `Subscribed`, `Bounded`, and `Moving`, or `Idle` once a redirect has begun.
  `NeverStranded` alone is not inductive: that a held `inFlight` will be released is
  what `RefsOK` adds. The lemmas say what each callback keeps (`CloseSound`,
  `ScheduleLively`, `ConnectLively`, ...), so an action's lemma follows its handler's calls.

* `TimelineTypeCorrect`, `RestingTimelineIsHonest`, `ConfirmedStaysShown`,
  `HeardIsKept`, `TimelineHasNoHole` (`MessageTimelineProofs`) hold for any number of
  messages, versions and mutations and any page size. Three predicates on a set of pages
  carry the proof: `Honest` (every item is a version the server had), `Holds` (the
  loaded part has what is known, at that version or a later one) and `Reaches` (no hole up to
  a message). `TimelineInv` asks them of everything that can become the cache: the
  cache itself, the snapshot of each mutation under way, the fetch under way.
  - Nothing is heard while a fetch or a mutation is under way, so a snapshot that
    held all that was heard still does when a rollback brings it back.
  - A fetch that began before a mutation settled is not `clean`, and then a refetch is
    owed: when nothing is owed, the last whole refetch began after the last
    confirmation.
  - A fetch of older pages starts from the cache, so at rest it holds what
    the cache holds.
  `PageLemma` says that a page of the server is the upper end of what is older than
  its cursor, so no message falls between two pages, also when pages shift under
  the fetch. `CutOK` (a cursor leaves at least one message out, so there are never more
  pages than messages) bounds the number of pages.

The inductive invariants were checked by TLC on the instances of the runs before they
were proved. Every invariant and the refinement that a passing run checks is stated by a
theorem.

Only model-checked: liveness under fairness (`EveryRequestIsAnswered`, `PublishEnds`,
`ExpiredIsSettled`, `SettlesDown`, `DecisionsFollow`, `JoiningEnds`), which needs
ENABLED and is out of the prover's reach; and the four violations, which are
counterexamples.

## 5. What is not modelled

Not modelled: token verification, serialization, media URLs, rendering,
infrastructure, the skeleton services; forms of the web client, which send one
request each, where the last writer wins. In the message path: two API processes,
a channel younger than its messages (clock skew between processes), deletion of
the channel under way. In the hub: the limit on unidentified sockets, ping and
echo, the one-time ticket. In the bridge: frames (they are MessageTimeline's)
and the delays of the backoff, which only order what the model leaves unordered.
In tuple sync: the loop that is to run the workers and a sink that reaches SpiceDB,
which the code does not have either; a payload that does not parse, which is retried for ever, and retries
with backoff inside one check. In the invites: listing, which only reads. The
components marked `not_modelled` in `PROJECT.json` say why, or what is left.

What is left, the most important first:

1. `WsTickets`: one-time tickets with cleanup, identify rate limit; composed with
   `RealtimeHub`'s `Identify`.
2. `PrincipalResolver`: concurrent first logins under a cache outage.
3. DM get-or-create and moderation: short transactions under READ COMMITTED.
4. Two API processes in `MessageWrites`.

Next theorems: an abstract specification of the timeline and of the hub, with the
refinements proved from `TimelineInv` and `HubInv`; and the steps that the liveness
properties rest on (each fair step brings a publish task, a join or a handler nearer to
its end), which are action properties.
