------------------------------ MODULE TupleSync ------------------------------
(* From permission rows to authorization decisions.  A role or permission write
   commits its rows and an outbox event in one transaction and then invalidates
   the decision cache (user_directory/postgres.rs, main/http_routes.rs); workers
   claim events under a lease, apply them to the tuple store and mark them
   (authz/tuple_sync.rs, the SQL functions of migration 0004); a check reads
   the cache, asks the store and caches the answer (authz/service.rs).
   An aggregate is a row, the n-th of them stands for the n-th of the four
   tables a full resync reads.  A transaction that writes several aggregates is
   several writes with nothing in between.  A row stands for tuples of its own;
   an override of a channel also stands for the tuple that says which guild the
   channel is of, and every override of that channel stands for the same one.  *)
EXTENDS Integers, Sequences

CONSTANTS
    Tables,     \* permission tables, read in this order by a full resync
    Tuples,     \* what a row may say, each a tuple of its own per aggregate
    Links,      \* the channel#guild tuples
    LinkOf,     \* per aggregate: the channel#guild tuple of an override, or none
    Workers,    \* concurrent runs of run_sync_once
    MaxEvents,  \* bound: outbox events
    Watched,    \* the aggregates decisions are taken about
    All         \* what a full resync event is about

Aggregates == 1..Tables

Events == 1..MaxEvents

\* The candidate tuples of an aggregate: its own.  The override rows' channel#guild
\* tuple is not among them.
Candidates(a) == {a} \X Tuples

\* What the row of a may stand for: nothing when there is none.
Standing(a) == {{}} \cup {({a} \X T) \cup LinkOf[a] : T \in SUBSET Tuples}

Storable == (Aggregates \X Tuples) \cup Links

ASSUME SyncAssumption ==
    /\ Tables \in Nat /\ MaxEvents \in Nat
    /\ Watched \subseteq Aggregates /\ All \notin Aggregates
    /\ LinkOf \in [Aggregates -> SUBSET Links]
    /\ Links \cap (Aggregates \X Tuples) = {}

VARIABLES
    rows,       \* Postgres: the tuples each row stands for
    store,      \* the tuple store
    outbox,     \* Postgres: outbox_events
    worker,     \* per worker: what is left of its claim and how far it is
    announcing, \* writes that have committed and not yet invalidated the cache
    decision,   \* the decision cache
    check,      \* per watched aggregate: a check between the answer and the cache
    astray      \* aggregates which no outstanding event is bound to bring right

syncVars == <<rows, store, outbox, worker, announcing, decision, check, astray>>

\* next_retry_at is null or set; "none" is an event that does not exist yet.
Event ==
    [on : Aggregates \cup {All}, tuples : SUBSET Storable,
     status : {"none", "PENDING", "FAILED", "SENT"}, retry : {"null", "set"}]

\* The events left of a claim, the one at work and, of a resync, what was read.
WorkerState ==
    [batch : SUBSET Events, event : Events \cup {0},
     stage : {"next", "reading", "listed", "applied", "failed"},
     read : Seq(SUBSET Storable), observed : SUBSET Storable,
     clean : SUBSET Aggregates]

Unsent(e) == outbox[e].status \in {"PENDING", "FAILED"}

Outstanding(e) == Unsent(e) \/ \E w \in Workers : e \in worker[w].batch

Resting ==
    [batch |-> {}, event |-> 0, stage |-> "next", read |-> <<>>,
     observed |-> {}, clean |-> {}]

-----------------------------------------------------------------------------
(* Writes.                                                                   *)

\* One event enters the outbox.
Enqueue(on, tuples) ==
    \E e \in Events :
        /\ outbox[e].status = "none" /\ \A d \in Events : d < e => outbox[d].status # "none"
        /\ outbox' = [outbox EXCEPT ![e] =
               [on |-> on, tuples |-> tuples, status |-> "PENDING", retry |-> "null"]]

\* A resync under way is not clean for an aggregate that is written meanwhile.
Disturb(a) == worker' = [w \in Workers |-> [worker[w] EXCEPT !.clean = @ \ {a}]]

\* The role and permission handlers.  (The history variable: an earlier event of
\* the aggregate, or a resync, may be applied after this one's.)
Write(a, tuples) ==
    /\ rows' = [rows EXCEPT ![a] = tuples]
    /\ Enqueue(a, tuples)
    /\ Disturb(a)
    /\ announcing' = announcing \cup ({a} \cap Watched)
    /\ astray' = IF \E e \in Events : outbox[e].on \in {a, All} /\ Outstanding(e)
                 THEN astray \cup {a} ELSE astray \ {a}
    /\ UNCHANGED <<store, decision, check>>

\* Guild creation, joining by invite and foreign keys that cascade change rows
\* and tell neither the outbox nor the cache.
WriteSilently(a, tuples) ==
    /\ rows[a] # tuples
    /\ rows' = [rows EXCEPT ![a] = tuples]
    /\ Disturb(a)
    /\ astray' = astray \cup {a}
    /\ UNCHANGED <<store, outbox, announcing, decision, check>>

\* An operator's answer to drift.
RequestResync ==
    /\ Enqueue(All, {})
    /\ UNCHANGED <<rows, store, worker, announcing, decision, check, astray>>

-----------------------------------------------------------------------------
(* The outbox.                                                               *)

\* A lease or a retry delay may have passed, also while a worker is still at the
\* event, so a time that is set holds nothing back for good.
Claimable(e) ==
    \/ outbox[e].status = "PENDING"
    \/ outbox[e].status = "FAILED" /\ outbox[e].retry = "set"

\* claim_outbox_events: rows locked by another claim are skipped.
Claim(w, batch) ==
    /\ worker[w].stage = "next" /\ worker[w].batch = {}
    /\ batch # {} /\ \A e \in batch : Claimable(e)
    /\ worker' = [worker EXCEPT ![w].batch = batch]
    /\ outbox' = [e \in Events |->
           IF e \in batch THEN [outbox[e] EXCEPT !.retry = "set"] ELSE outbox[e]]
    /\ UNCHANGED <<rows, store, announcing, decision, check, astray>>

\* Mutant of Sent: the lease stays on the event.
SentLeased(event) == [event EXCEPT !.status = "SENT"]

\* mark_outbox_event_sent and mark_outbox_event_failed, whatever the event was.
Sent(event) == [event EXCEPT !.status = "SENT", !.retry = "null"]

Failed(event) == [event EXCEPT !.status = "FAILED", !.retry = "set"]

Done(w) == [Resting EXCEPT !.batch = worker[w].batch \ {worker[w].event}]

MarkSent(w) ==
    /\ worker[w].stage = "applied"
    /\ outbox' = [outbox EXCEPT ![worker[w].event] = Sent(@)]
    /\ worker' = [worker EXCEPT ![w] = Done(w)]
    /\ UNCHANGED <<rows, store, announcing, decision, check, astray>>

\* Marking errs, with or without effect; the event is then marked failed.
MarkSentErrs(w) ==
    /\ worker[w].stage = "applied"
    /\ \/ UNCHANGED outbox
       \/ outbox' = [outbox EXCEPT ![worker[w].event] = Sent(@)]
    /\ worker' = [worker EXCEPT ![w].stage = "failed"]
    /\ UNCHANGED <<rows, store, announcing, decision, check, astray>>

MarkFailed(w) ==
    /\ worker[w].stage = "failed"
    /\ outbox' = [outbox EXCEPT ![worker[w].event] = Failed(@)]
    /\ worker' = [worker EXCEPT ![w] = Done(w)]
    /\ UNCHANGED <<rows, store, announcing, decision, check, astray>>

\* Marking it failed errs too, or the process stops: the rest of the claim is
\* left to its leases.
GiveUp(w) ==
    /\ worker[w].batch # {}
    /\ \/ UNCHANGED outbox
       \/ /\ worker[w].stage = "failed"
          /\ outbox' = [outbox EXCEPT ![worker[w].event] = Failed(@)]
    /\ worker' = [worker EXCEPT ![w] = Resting]
    /\ UNCHANGED <<rows, store, announcing, decision, check, astray>>

-----------------------------------------------------------------------------
(* One claimed event.                                                        *)

\* Mutant of Replace: the channel#guild tuple is deleted too.
ReplaceLinkToo(current, a, desired) ==
    (current \ (Candidates(a) \cup LinkOf[a])) \cup desired

\* build_replace_mutations deletes every candidate and writes the desired ones;
\* build_delete_mutations desires none.
Replace(current, a, desired) == (current \ Candidates(a)) \cup desired

Applied(e) == Replace(store, outbox[e].on, outbox[e].tuples)

Apply(w, e) ==
    /\ worker[w].stage = "next" /\ e \in worker[w].batch /\ outbox[e].on # All
    /\ store' = Applied(e)
    /\ worker' = [worker EXCEPT ![w].event = e, ![w].stage = "applied"]
    /\ UNCHANGED <<rows, outbox, announcing, decision, check, astray>>

\* The store errs, with or without effect.
ApplyErrs(w, e) ==
    /\ worker[w].stage = "next" /\ e \in worker[w].batch /\ outbox[e].on # All
    /\ store' \in {store, Applied(e)}
    /\ worker' = [worker EXCEPT ![w].event = e, ![w].stage = "failed"]
    /\ UNCHANGED <<rows, outbox, announcing, decision, check, astray>>

\* run_backfill_once.  The resync is clean for the aggregates of which nothing
\* else is outstanding.
StartResync(w, e) ==
    /\ worker[w].stage = "next" /\ e \in worker[w].batch /\ outbox[e].on = All
    /\ worker' = [worker EXCEPT ![w] =
           [@ EXCEPT !.event = e, !.stage = "reading", !.read = <<>>,
                     !.clean = {a \in Aggregates :
                         /\ \A d \in Events \ {e} :
                                outbox[d].on \in {a, All} => ~Outstanding(d)
                         /\ \A v \in Workers \ {w} : e \notin worker[v].batch}]]
    /\ UNCHANGED <<rows, store, outbox, announcing, decision, check, astray>>

ReadTable(w) ==
    /\ worker[w].stage = "reading" /\ Len(worker[w].read) < Tables
    /\ worker' = [worker EXCEPT ![w].read = Append(@, rows[Len(@) + 1])]
    /\ UNCHANGED <<rows, store, outbox, announcing, decision, check, astray>>

ListTuples(w) ==
    /\ worker[w].stage = "reading" /\ Len(worker[w].read) = Tables
    /\ worker' = [worker EXCEPT ![w].observed = store, ![w].stage = "listed"]
    /\ UNCHANGED <<rows, store, outbox, announcing, decision, check, astray>>

\* The resync is over, its event is to be marked.
At(w, stage) ==
    [Resting EXCEPT !.batch = worker[w].batch, !.event = worker[w].event, !.stage = stage]

\* What the rows that were read stand for.
Expected(w) == UNION {worker[w].read[a] : a \in Aggregates}

\* Mutant of Resynced: only what was missing is written.
ResyncedMissing(w) == store \cup (Expected(w) \ worker[w].observed)

\* Deletes what was unexpected, writes what was missing.
Resynced(w) ==
    (store \ (worker[w].observed \ Expected(w))) \cup (Expected(w) \ worker[w].observed)

ApplyResync(w) ==
    /\ worker[w].stage = "listed"
    /\ store' = Resynced(w)
    /\ worker' = [worker EXCEPT ![w] = At(w, "applied")]
    /\ astray' = astray \ worker[w].clean
    /\ UNCHANGED <<rows, outbox, announcing, decision, check>>

ResyncErrs(w) ==
    /\ \/ worker[w].stage \in {"reading", "listed"} /\ UNCHANGED store
       \/ worker[w].stage = "listed" /\ store' = Resynced(w)
    /\ worker' = [worker EXCEPT ![w] = At(w, "failed")]
    /\ UNCHANGED <<rows, outbox, announcing, decision, check, astray>>

-----------------------------------------------------------------------------
(* Decisions.                                                                *)

Unknown == [known |-> FALSE, tuples |-> {}]

Idle == [stage |-> "idle", tuples |-> {}]

\* ensure_guild_channel_consistency: a check of a channel first asks, past the
\* cache, for the channel#guild tuple, and is denied when there is none.
Begin(a) ==
    /\ check[a].stage = "idle" /\ LinkOf[a] \subseteq store
    /\ check' = [check EXCEPT ![a].stage = "linked"]
    /\ UNCHANGED <<rows, store, outbox, worker, announcing, decision, astray>>

\* The check misses the cache and the store answers.
Ask(a) ==
    /\ ~decision[a].known /\ check[a].stage = "linked"
    /\ check' = [check EXCEPT ![a] =
           [stage |-> "answered", tuples |-> store \cap Candidates(a)]]
    /\ UNCHANGED <<rows, store, outbox, worker, announcing, decision, astray>>

WriteDecision(a) ==
    /\ check[a].stage = "answered"
    /\ decision' = [decision EXCEPT ![a] = [known |-> TRUE, tuples |-> check[a].tuples]]
    /\ check' = [check EXCEPT ![a] = Idle]
    /\ UNCHANGED <<rows, store, outbox, worker, announcing, astray>>

\* The cache answers, the store errs, or the request is dropped.
EndCheck(a) ==
    /\ check[a].stage # "idle"
    /\ check' = [check EXCEPT ![a] = Idle]
    /\ UNCHANGED <<rows, store, outbox, worker, announcing, decision, astray>>

\* After the commit, before any worker has seen the event; a handler that is
\* dropped in between invalidates nothing.
Invalidate(a) ==
    /\ a \in announcing
    /\ announcing' = announcing \ {a}
    /\ decision' = [decision EXCEPT ![a] = Unknown]
    /\ UNCHANGED <<rows, store, outbox, worker, check, astray>>

DropInvalidation(a) ==
    /\ a \in announcing
    /\ announcing' = announcing \ {a}
    /\ UNCHANGED <<rows, store, outbox, worker, decision, check, astray>>

\* Mutant of Forget: only a denial has a TTL.
ForgetDenial(a) ==
    /\ decision[a].known /\ decision[a].tuples = {}
    /\ decision' = [decision EXCEPT ![a] = Unknown]
    /\ UNCHANGED <<rows, store, outbox, worker, announcing, check, astray>>

\* The TTL ends, or the entry is the oldest of a full cache.
Forget(a) ==
    /\ decision[a].known
    /\ decision' = [decision EXCEPT ![a] = Unknown]
    /\ UNCHANGED <<rows, store, outbox, worker, announcing, check, astray>>

-----------------------------------------------------------------------------

SyncInit ==
    /\ rows \in [Aggregates -> SUBSET Storable]
    /\ \A a \in Aggregates : rows[a] \in Standing(a)
    /\ store = {}
    /\ outbox = [e \in Events |->
           [on |-> All, tuples |-> {}, status |-> "none", retry |-> "null"]]
    /\ worker = [w \in Workers |-> Resting]
    /\ announcing = {}
    /\ decision = [a \in Watched |-> Unknown]
    /\ check = [a \in Watched |-> Idle]
    /\ astray = {a \in Aggregates : rows[a] # {}}

WorkerStep(w) ==
    \/ \E batch \in SUBSET Events : Claim(w, batch)
    \/ \E e \in Events : Apply(w, e) \/ StartResync(w, e)
    \/ ReadTable(w) \/ ListTuples(w) \/ ApplyResync(w)
    \/ MarkSent(w) \/ MarkFailed(w)

WorkerFault(w) ==
    \/ \E e \in Events : ApplyErrs(w, e)
    \/ ResyncErrs(w) \/ MarkSentErrs(w) \/ GiveUp(w)

SyncNext ==
    \/ \E a \in Aggregates : \E tuples \in Standing(a) :
           Write(a, tuples) \/ WriteSilently(a, tuples)
    \/ RequestResync
    \/ \E w \in Workers : WorkerStep(w) \/ WorkerFault(w)
    \/ \E a \in Watched :
           \/ Begin(a) \/ Ask(a) \/ WriteDecision(a) \/ EndCheck(a)
           \/ Invalidate(a) \/ DropInvalidation(a) \/ Forget(a)

SyncSpec == SyncInit /\ [][SyncNext]_syncVars

\* A cached decision expires.  Nothing is assumed of the workers: no loop in the
\* program calls run_sync_once yet.
FairSyncSpec == SyncSpec /\ \A a \in Watched : WF_syncVars(Forget(a))

-----------------------------------------------------------------------------
(* What tuple sync promises.                                                 *)

SyncTypeOK ==
    /\ rows \in [Aggregates -> SUBSET Storable]
    /\ store \subseteq Storable
    /\ outbox \in [Events -> Event]
    /\ \A e \in Events : outbox[e].status \in {"none", "SENT"} => outbox[e].retry = "null"
    /\ \A e \in Events : outbox[e].status = "FAILED" => outbox[e].retry # "null"
    /\ worker \in [Workers -> WorkerState]
    /\ announcing \subseteq Watched
    /\ decision \in [Watched -> [known : BOOLEAN, tuples : SUBSET Storable]]
    /\ check \in [Watched ->
           [stage : {"idle", "linked", "answered"}, tuples : SUBSET Storable]]
    /\ astray \subseteq Aggregates

\* The store has every tuple the row of a stands for, and of its own no other.
\* (Only the channel#guild tuple may outlive the rows: no event deletes it.)
Right(a) == rows[a] \subseteq store /\ store \cap Candidates(a) \subseteq rows[a]

\* Once every event of an aggregate is marked sent and no worker holds one, the
\* store is right about its row, however often the events were applied, however
\* leases ended and resyncs interleaved, and whatever was deleted for another
\* row of the same channel: unless the aggregate was written silently, or while
\* an event or a resync that concerns it was outstanding, and no undisturbed
\* resync came since.
ConvergedUnlessAstray ==
    \A a \in Aggregates \ astray :
        (\A e \in Events : outbox[e].on = a => ~Outstanding(e)) => Right(a)

\* A full resync that nobody disturbed leaves exactly the tuples of the rows,
\* whatever the store had become before: silent writes, events applied in the
\* wrong order, resyncs that overlapped a write, channel#guild tuples left over.
\* This is what the runbook has an operator rely on.
ResyncRepairs ==
    [][\A w \in Workers :
           ApplyResync(w) /\ worker[w].clean = Aggregates =>
               store' = UNION {rows[a] : a \in Aggregates}]_syncVars

\* If the store stays right about a row, so do the decisions about it in the end:
\* no cached answer is older than its TTL, also one that was computed before an
\* invalidation and cached after it, or whose invalidation never came.
DecisionsFollow ==
    \A a \in Watched :
        <>[]Right(a) =>
            <>[](decision[a].known => decision[a].tuples = rows[a] \cap Candidates(a))

=============================================================================
