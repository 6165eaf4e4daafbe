--------------------------- MODULE TupleSyncProofs ---------------------------
(***************************************************************************)
(* Theorems about TupleSync, for any number of tables and events and any   *)
(* tuples and workers.  SyncInv is inductive; the safety properties the    *)
(* run checks follow from it.                                              *)
(***************************************************************************)
EXTENDS TupleSync, TLAPS

Resyncing(w) == worker[w].stage \in {"reading", "listed"}

(* A worker at an event holds it; what it has read is a part of the tables. *)
HoldsInv ==
    \A w \in Workers :
        /\ \A e \in worker[w].batch : outbox[e].status # "none"
        /\ worker[w].stage # "next" => worker[w].event \in worker[w].batch
        /\ Resyncing(w) => outbox[worker[w].event].on = All
        /\ Len(worker[w].read) <= Tables
        /\ worker[w].stage = "listed" => Len(worker[w].read) = Tables

(* Nothing is outstanding of an aggregate a resync is clean for.            *)
CleanInv ==
    \A w \in Workers : \A a \in worker[w].clean :
        \A e \in Events : outbox[e].on = a => ~Outstanding(e)

(* An aggregate that is not astray, or that a clean resync will bring back. *)
Tracked(a) == a \notin astray \/ \E w \in Workers : a \in worker[w].clean

(* Its outstanding events carry its row.                                    *)
CarriesRow ==
    \A a \in Aggregates : Tracked(a) =>
        \A e \in Events : outbox[e].on = a /\ Outstanding(e) => outbox[e].tuples = rows[a]

(* What a resync has read of it is its row.                                 *)
ReadsRow ==
    \A a \in Aggregates : Tracked(a) =>
        \A w \in Workers :
            Resyncing(w) /\ a <= Len(worker[w].read) => worker[w].read[a] = rows[a]

(* What the row of a may stand for, at most.                                *)
Foot(a) == Candidates(a) \cup LinkOf[a]

FootInv ==
    /\ \A a \in Aggregates : rows[a] \subseteq Foot(a)
    /\ \A e \in Events : outbox[e].on \in Aggregates =>
           outbox[e].tuples \subseteq Foot(outbox[e].on)
    /\ \A w \in Workers, a \in Aggregates :
           a <= Len(worker[w].read) => worker[w].read[a] \subseteq Foot(a)

(* The store has not been turned back since a resync listed it.             *)
SeesStore ==
    \A a \in Aggregates : Tracked(a) =>
        \A w \in Workers :
            worker[w].stage = "listed" =>
                /\ rows[a] \cap worker[w].observed \subseteq store
                /\ (store \cap Candidates(a)) \ rows[a] \subseteq worker[w].observed

(* An event that was applied, by whoever still holds it, has brought the    *)
(* store to the row.                                                        *)
AppliedInv ==
    \A a \in Aggregates \ astray, w \in Workers :
        /\ worker[w].stage = "applied" /\ outbox[worker[w].event].on = a => Right(a)
        /\ \A e \in worker[w].batch :
               outbox[e].on = a /\ outbox[e].status = "SENT" => Right(a)

RowTuples == UNION {rows[a] : a \in Aggregates}

(* Since a resync that nobody disturbed listed the store, nothing but what  *)
(* the rows stand for was added.                                            *)
ListedAll ==
    \A w \in Workers :
        worker[w].stage = "listed" /\ worker[w].clean = Aggregates =>
            store \subseteq worker[w].observed \cup RowTuples

TypeInv == SyncTypeOK /\ HoldsInv

StoreInv ==
    /\ CleanInv /\ CarriesRow /\ ReadsRow /\ SeesStore /\ AppliedInv /\ ListedAll
    /\ ConvergedUnlessAstray

SyncInv == TypeInv /\ FootInv /\ StoreInv

-----------------------------------------------------------------------------
(* Types and what a worker holds.                                          *)

Decision == [known : BOOLEAN, tuples : SUBSET Storable]

Check == [stage : {"idle", "linked", "answered"}, tuples : SUBSET Storable]

(* What a row may stand for is its own tuples and the channel's, and it does *)
(* not meet another row's own tuples.                                       *)
LEMMA StandingFoot ==
    ASSUME NEW a \in Aggregates, NEW tuples \in Standing(a)
    PROVE  tuples \subseteq Foot(a) /\ tuples \in SUBSET Storable
  BY SyncAssumption DEF Standing, Foot, Candidates, Storable

LEMMA OthersApart ==
    ASSUME NEW a \in Aggregates, NEW b \in Aggregates, a # b
    PROVE  Foot(b) \cap Candidates(a) = {}
  BY SyncAssumption DEF Foot, Candidates

LEMMA RestingType ==
    /\ Resting \in WorkerState
    /\ Resting.batch = {} /\ Resting.stage = "next" /\ Resting.read = <<>>
    /\ Resting.clean = {}
  BY DEF Resting, WorkerState

LEMMA InitTypes == SyncInit => TypeInv
  <1> SUFFICES ASSUME SyncInit PROVE TypeInv
    OBVIOUS
  <1>1. outbox \in [Events -> Event]
    BY DEF SyncInit, Event
  <1>2. worker \in [Workers -> WorkerState]
    BY RestingType DEF SyncInit
  <1>3. decision \in [Watched -> Decision]
        /\ check \in [Watched -> Check]
    BY DEF SyncInit, Unknown, Idle, Decision, Check
  <1>4. SyncTypeOK
    BY <1>1, <1>2, <1>3 DEF SyncInit, SyncTypeOK, Decision, Check
  <1>5. HoldsInv
    BY RestingType, SyncAssumption DEF SyncInit, HoldsInv, Resyncing
  <1> QED BY <1>4, <1>5 DEF TypeInv

LEMMA EnqueueType ==
    ASSUME TypeInv, NEW on \in Aggregates \cup {All}, NEW tuples \in SUBSET Storable,
           Enqueue(on, tuples)
    PROVE  /\ outbox' \in [Events -> Event]
           /\ \A e \in Events : outbox'[e].status \in {"none", "SENT"} => outbox'[e].retry = "null"
           /\ \A e \in Events : outbox'[e].status = "FAILED" => outbox'[e].retry # "null"
           /\ \A e \in Events : outbox[e].status # "none" => outbox'[e] = outbox[e]
  BY DEF TypeInv, SyncTypeOK, Enqueue, Event

LEMMA DisturbType ==
    ASSUME TypeInv, NEW a \in Aggregates, Disturb(a)
    PROVE  /\ worker' \in [Workers -> WorkerState]
           /\ \A w \in Workers :
                  /\ worker'[w].batch = worker[w].batch
                  /\ worker'[w].event = worker[w].event
                  /\ worker'[w].stage = worker[w].stage
                  /\ worker'[w].read = worker[w].read
                  /\ worker'[w].observed = worker[w].observed
                  /\ worker'[w].clean = worker[w].clean \ {a}
  <1>1. ASSUME NEW w \in Workers
        PROVE  /\ worker[w] \in WorkerState
               /\ worker'[w] = [worker[w] EXCEPT !.clean = worker[w].clean \ {a}]
    BY DEF TypeInv, SyncTypeOK, Disturb
  <1>2. ASSUME NEW x \in WorkerState
        PROVE  [x EXCEPT !.clean = x.clean \ {a}] \in WorkerState
    BY DEF WorkerState
  <1>3. worker' \in [Workers -> WorkerState]
    BY <1>1, <1>2 DEF Disturb
  <1> QED BY <1>1, <1>3 DEF WorkerState

LEMMA WriteTypes ==
    ASSUME TypeInv, NEW a \in Aggregates, NEW tuples \in Standing(a),
           Write(a, tuples) \/ WriteSilently(a, tuples)
    PROVE  TypeInv'
  <1>1. rows' \in [Aggregates -> SUBSET Storable] /\ astray' \subseteq Aggregates
        /\ announcing' \subseteq Watched
    BY StandingFoot DEF TypeInv, SyncTypeOK, Write, WriteSilently
  <1>2. Disturb(a)
    BY DEF Write, WriteSilently
  <1>3. /\ outbox' \in [Events -> Event]
        /\ \A e \in Events : outbox'[e].status \in {"none", "SENT"} => outbox'[e].retry = "null"
        /\ \A e \in Events : outbox'[e].status = "FAILED" => outbox'[e].retry # "null"
        /\ \A e \in Events : outbox[e].status # "none" => outbox'[e] = outbox[e]
    <2>1. CASE Write(a, tuples)
      <3>1. Enqueue(a, tuples)
        BY <2>1 DEF Write
      <3> QED BY <3>1, StandingFoot, EnqueueType
    <2>2. CASE WriteSilently(a, tuples)
      BY <2>2 DEF TypeInv, SyncTypeOK, WriteSilently
    <2> QED BY <2>1, <2>2
  <1>4. SyncTypeOK'
    BY <1>1, <1>2, <1>3, DisturbType DEF TypeInv, SyncTypeOK, Write, WriteSilently
  <1>5. HoldsInv'
    BY <1>2, <1>3, DisturbType DEF TypeInv, SyncTypeOK, WorkerState, HoldsInv, Resyncing
  <1> QED BY <1>4, <1>5 DEF TypeInv

LEMMA RequestTypes ==
    ASSUME TypeInv, RequestResync
    PROVE  TypeInv'
  <1>1. Enqueue(All, {})
    BY DEF RequestResync
  <1>2. /\ outbox' \in [Events -> Event]
        /\ \A e \in Events : outbox'[e].status \in {"none", "SENT"} => outbox'[e].retry = "null"
        /\ \A e \in Events : outbox'[e].status = "FAILED" => outbox'[e].retry # "null"
        /\ \A e \in Events : outbox[e].status # "none" => outbox'[e] = outbox[e]
    BY <1>1, EnqueueType, {} \in SUBSET Storable
  <1>3. SyncTypeOK'
    BY <1>2 DEF TypeInv, SyncTypeOK, RequestResync
  <1>4. worker \in [Workers -> WorkerState] /\ worker' = worker
    BY DEF TypeInv, SyncTypeOK, RequestResync
  <1>5. HoldsInv'
    BY <1>2, <1>4 DEF TypeInv, WorkerState, HoldsInv, Resyncing
  <1> QED BY <1>3, <1>5 DEF TypeInv

(* A worker's step: what the worker becomes and what it does to the outbox. *)
LEMMA WorkerTypes ==
    ASSUME TypeInv, NEW w \in Workers, NEW x \in WorkerState,
           worker' = [worker EXCEPT ![w] = x],
           outbox' \in [Events -> Event],
           \A e \in Events :
               /\ outbox'[e].on = outbox[e].on
               /\ outbox[e].status # "none" => outbox'[e].status # "none"
               /\ outbox'[e].status \in {"none", "SENT"} => outbox'[e].retry = "null"
               /\ outbox'[e].status = "FAILED" => outbox'[e].retry # "null",
           store' \subseteq Storable,
           \A e \in x.batch : outbox'[e].status # "none",
           x.stage # "next" => x.event \in x.batch,
           x.stage \in {"reading", "listed"} => outbox[x.event].on = All,
           Len(x.read) <= Tables,
           x.stage = "listed" => Len(x.read) = Tables,
           astray' \subseteq Aggregates,
           UNCHANGED <<rows, announcing, decision, check>>
    PROVE  TypeInv'
  <1>1. SyncTypeOK'
    BY DEF TypeInv, SyncTypeOK
  <1>2. HoldsInv'
    <2> SUFFICES ASSUME NEW v \in Workers
                 PROVE  /\ \A e \in worker'[v].batch : outbox'[e].status # "none"
                        /\ worker'[v].stage # "next" => worker'[v].event \in worker'[v].batch
                        /\ worker'[v].stage \in {"reading", "listed"} =>
                               outbox'[worker'[v].event].on = All
                        /\ Len(worker'[v].read) <= Tables
                        /\ worker'[v].stage = "listed" => Len(worker'[v].read) = Tables
      BY DEF HoldsInv, Resyncing
    <2>1. worker'[v] = IF v = w THEN x ELSE worker[v]
      BY DEF TypeInv, SyncTypeOK
    <2>2. worker[v] \in WorkerState
      BY DEF TypeInv, SyncTypeOK
    <2>3. CASE v = w
      BY <2>1, <2>3 DEF WorkerState
    <2>4. CASE v # w
      BY <2>1, <2>2, <2>4 DEF TypeInv, HoldsInv, Resyncing, WorkerState
    <2> QED BY <2>3, <2>4
  <1> QED BY <1>1, <1>2 DEF TypeInv

(* What a worker's step does to its own state, when it is not a claim.      *)
LEMMA WorkerShape ==
    ASSUME TypeInv, NEW w \in Workers
    PROVE  /\ worker[w] \in WorkerState
           /\ Done(w) \in WorkerState
           /\ Done(w).batch = worker[w].batch \ {worker[w].event}
           /\ Done(w).stage = "next" /\ Done(w).read = <<>> /\ Done(w).clean = {}
           /\ \A stage \in {"applied", "failed"} :
                  /\ At(w, stage) \in WorkerState
                  /\ At(w, stage).batch = worker[w].batch
                  /\ At(w, stage).event = worker[w].event
                  /\ At(w, stage).stage = stage
                  /\ At(w, stage).read = <<>> /\ At(w, stage).clean = {}
  <1>1. worker[w] \in WorkerState
    BY DEF TypeInv, SyncTypeOK
  <1> QED BY <1>1, RestingType DEF Done, At, Resting, WorkerState

(* An event of a claim and what marking makes of it.                        *)
LEMMA MarkShape ==
    ASSUME TypeInv, NEW w \in Workers, worker[w].stage # "next"
    PROVE  LET e == worker[w].event IN
           /\ e \in Events /\ e \in worker[w].batch /\ outbox[e].status # "none"
           /\ \A mark \in {Sent(outbox[e]), Failed(outbox[e])} :
                  LET after == [outbox EXCEPT ![e] = mark] IN
                  /\ after \in [Events -> Event]
                  /\ \A d \in Events :
                         /\ after[d].on = outbox[d].on /\ after[d].tuples = outbox[d].tuples
                         /\ outbox[d].status # "none" => after[d].status # "none"
                         /\ after[d].status \in {"none", "SENT"} => after[d].retry = "null"
                         /\ after[d].status = "FAILED" => after[d].retry # "null"
                         /\ d # e => after[d] = outbox[d]
           /\ [outbox EXCEPT ![e] = Sent(outbox[e])][e].status = "SENT"
           /\ [outbox EXCEPT ![e] = Failed(outbox[e])][e].status = "FAILED"
  <1> DEFINE e == worker[w].event
  <1>1. e \in worker[w].batch /\ outbox[e].status # "none" /\ e \in Events
    BY DEF TypeInv, SyncTypeOK, HoldsInv, WorkerState
  <1>2. outbox[e] \in Event
    BY <1>1 DEF TypeInv, SyncTypeOK
  <1>3. /\ Sent(outbox[e]) \in Event /\ Failed(outbox[e]) \in Event
        /\ Sent(outbox[e]).on = outbox[e].on /\ Failed(outbox[e]).on = outbox[e].on
        /\ Sent(outbox[e]).tuples = outbox[e].tuples /\ Failed(outbox[e]).tuples = outbox[e].tuples
        /\ Sent(outbox[e]).status = "SENT" /\ Failed(outbox[e]).status = "FAILED"
        /\ Sent(outbox[e]).retry = "null" /\ Failed(outbox[e]).retry = "set"
    BY <1>2 DEF Sent, Failed, Event
  <1> QED BY <1>1, <1>3 DEF TypeInv, SyncTypeOK

LEMMA ClaimTypes ==
    ASSUME TypeInv, NEW w \in Workers, NEW batch \in SUBSET Events, Claim(w, batch)
    PROVE  TypeInv'
  <1> DEFINE x == [worker[w] EXCEPT !.batch = batch]
  <1>1. worker[w] \in WorkerState /\ worker[w].stage = "next"
    BY DEF TypeInv, SyncTypeOK, Claim
  <1>2. /\ x \in WorkerState /\ x.batch = batch /\ x.stage = "next"
        /\ x.read = worker[w].read
    BY <1>1 DEF WorkerState
  <1>3. worker' = [worker EXCEPT ![w] = x]
    BY DEF Claim
  <1>4. \A e \in Events :
            outbox'[e] = IF e \in batch THEN [outbox[e] EXCEPT !.retry = "set"] ELSE outbox[e]
    BY DEF Claim
  <1>5. ASSUME NEW e \in Events
        PROVE  /\ outbox'[e] \in Event
               /\ outbox'[e].on = outbox[e].on /\ outbox'[e].status = outbox[e].status
               /\ outbox'[e].status \in {"none", "SENT"} => outbox'[e].retry = "null"
               /\ outbox'[e].status = "FAILED" => outbox'[e].retry # "null"
               /\ e \in batch => outbox[e].status # "none"
    <2>1. outbox[e] \in Event
      BY DEF TypeInv, SyncTypeOK
    <2>2. e \in batch => outbox[e].status \in {"PENDING", "FAILED"}
      BY DEF Claim, Claimable
    <2> QED BY <1>4, <2>1, <2>2 DEF TypeInv, SyncTypeOK, Event
  <1>6. outbox' \in [Events -> Event]
    BY <1>5 DEF Claim
  <1>7. Len(x.read) <= Tables
    BY <1>2 DEF TypeInv, HoldsInv
  <1>8. UNCHANGED <<rows, store, announcing, decision, check, astray>>
    BY DEF Claim
  <1>9. \A e \in x.batch : outbox'[e].status # "none"
    BY <1>2, <1>5
  <1> HIDE DEF x
  <1> QED BY <1>2, <1>3, <1>5, <1>6, <1>7, <1>8, <1>9, WorkerTypes DEF TypeInv, SyncTypeOK

LEMMA MarkTypes ==
    ASSUME TypeInv, NEW w \in Workers,
           MarkSent(w) \/ MarkSentErrs(w) \/ MarkFailed(w) \/ GiveUp(w)
    PROVE  TypeInv'
  <1> DEFINE e == worker[w].event
  <1>1. Len(<<>>) <= Tables
    BY SyncAssumption
  <1>2. /\ outbox' \in [Events -> Event]
        /\ \A d \in Events :
               /\ outbox'[d].on = outbox[d].on
               /\ outbox[d].status # "none" => outbox'[d].status # "none"
               /\ outbox'[d].status \in {"none", "SENT"} => outbox'[d].retry = "null"
               /\ outbox'[d].status = "FAILED" => outbox'[d].retry # "null"
    <2>1. CASE UNCHANGED outbox
      BY <2>1 DEF TypeInv, SyncTypeOK
    <2>2. CASE ~UNCHANGED outbox
      <3>1. worker[w].stage # "next"
        BY <2>2 DEF MarkSent, MarkSentErrs, MarkFailed, GiveUp
      <3>2. PICK mark \in {Sent(outbox[e]), Failed(outbox[e])} :
                outbox' = [outbox EXCEPT ![e] = mark]
        BY <2>2 DEF MarkSent, MarkSentErrs, MarkFailed, GiveUp
      <3> QED BY <3>1, <3>2, MarkShape
    <2> QED BY <2>1, <2>2
  <1>3. UNCHANGED <<rows, store, announcing, decision, check, astray>>
    BY DEF MarkSent, MarkSentErrs, MarkFailed, GiveUp
  <1>4. \A d \in worker[w].batch : d \in Events /\ outbox'[d].status # "none"
    BY <1>2 DEF TypeInv, SyncTypeOK, HoldsInv, WorkerState
  <1>8. store' \subseteq Storable /\ astray' \subseteq Aggregates
    BY <1>3 DEF TypeInv, SyncTypeOK
  <1>5. CASE MarkSent(w) \/ MarkFailed(w)
    <2>1. worker' = [worker EXCEPT ![w] = Done(w)]
      BY <1>5 DEF MarkSent, MarkFailed
    <2>2. /\ Done(w) \in WorkerState /\ Done(w).batch \subseteq worker[w].batch
          /\ Done(w).stage = "next" /\ Len(Done(w).read) <= Tables
      BY <1>1, WorkerShape
    <2>3. \A d \in Done(w).batch : outbox'[d].status # "none"
      BY <1>4, <2>2
    <2> QED BY <1>2, <1>3, <1>8, <2>1, <2>2, <2>3, WorkerTypes
  <1>6. CASE MarkSentErrs(w)
    <2> DEFINE x == [worker[w] EXCEPT !.stage = "failed"]
    <2>1. worker' = [worker EXCEPT ![w] = x] /\ worker[w].stage = "applied"
      BY <1>6 DEF MarkSentErrs
    <2>2. x \in WorkerState /\ x.stage = "failed" /\ x.batch = worker[w].batch
          /\ x.read = worker[w].read /\ x.event = worker[w].event
      BY WorkerShape DEF WorkerState
    <2>3. Len(x.read) <= Tables /\ x.event \in x.batch
      BY <2>1, <2>2 DEF TypeInv, HoldsInv
    <2>4. \A d \in x.batch : outbox'[d].status # "none"
      BY <1>4, <2>2
    <2> HIDE DEF x
    <2> QED BY <1>2, <1>3, <2>1, <2>2, <2>3, <2>4, WorkerTypes DEF TypeInv, SyncTypeOK
  <1>7. CASE GiveUp(w)
    <2>1. worker' = [worker EXCEPT ![w] = Resting]
      BY <1>7 DEF GiveUp
    <2>2. Resting.batch = {} /\ Resting.stage = "next" /\ Len(Resting.read) <= Tables
      BY <1>1, RestingType
    <2> QED BY <1>2, <1>3, <1>8, <2>1, <2>2, RestingType, WorkerTypes
  <1> QED BY <1>5, <1>6, <1>7

LEMMA ApplyTypes ==
    ASSUME TypeInv, NEW w \in Workers, NEW e \in Events, Apply(w, e) \/ ApplyErrs(w, e)
    PROVE  TypeInv'
  <1> DEFINE stage == worker'[w].stage
  <1>1. PICK st \in {"applied", "failed"} :
            worker' = [worker EXCEPT ![w] = [worker[w] EXCEPT !.event = e, !.stage = st]]
    BY DEF Apply, ApplyErrs
  <1> DEFINE x == [worker[w] EXCEPT !.event = e, !.stage = st]
  <1>2. worker[w] \in WorkerState /\ e \in worker[w].batch
    BY WorkerShape DEF Apply, ApplyErrs
  <1>3. /\ x \in WorkerState /\ x.batch = worker[w].batch /\ x.event = e
        /\ x.stage = st /\ x.read = worker[w].read
    BY <1>2 DEF WorkerState
  <1>4. outbox[e].on \in Aggregates /\ outbox[e].tuples \in SUBSET Storable
    BY DEF TypeInv, SyncTypeOK, Event, Apply, ApplyErrs
  <1>5. store' \subseteq Storable
    BY <1>4 DEF TypeInv, SyncTypeOK, Apply, ApplyErrs, Applied, Replace
  <1>6. UNCHANGED <<rows, outbox, announcing, decision, check, astray>>
    BY DEF Apply, ApplyErrs
  <1>7. Len(x.read) <= Tables /\ \A d \in x.batch : outbox[d].status # "none"
    BY <1>3 DEF TypeInv, HoldsInv
  <1> HIDE DEF x
  <1> QED BY <1>1, <1>2, <1>3, <1>5, <1>6, <1>7, WorkerTypes DEF x, TypeInv, SyncTypeOK

LEMMA ResyncTypes ==
    ASSUME TypeInv, NEW w \in Workers,
           \/ \E e \in Events : StartResync(w, e)
           \/ ReadTable(w) \/ ListTuples(w) \/ ApplyResync(w) \/ ResyncErrs(w)
    PROVE  TypeInv'
  <1>1. /\ worker[w] \in WorkerState
        /\ \A d \in worker[w].batch : outbox[d].status # "none"
        /\ Len(worker[w].read) <= Tables
    BY WorkerShape DEF TypeInv, HoldsInv
  <1>2. UNCHANGED <<rows, outbox, announcing, decision, check>>
    BY DEF StartResync, ReadTable, ListTuples, ApplyResync, ResyncErrs
  <1>3. /\ outbox' \in [Events -> Event]
        /\ \A e \in Events :
               /\ outbox'[e] = outbox[e]
               /\ outbox'[e].status \in {"none", "SENT"} => outbox'[e].retry = "null"
               /\ outbox'[e].status = "FAILED" => outbox'[e].retry # "null"
    BY <1>2 DEF TypeInv, SyncTypeOK
  <1>4. Len(<<>>) <= Tables
    BY SyncAssumption
  <1>5. ASSUME NEW e \in Events, StartResync(w, e)
        PROVE  TypeInv'
    <2> DEFINE C == {a \in Aggregates :
                         /\ \A d \in Events \ {e} :
                                outbox[d].on \in {a, All} => ~Outstanding(d)
                         /\ \A v \in Workers \ {w} : e \notin worker[v].batch}
               x == [worker[w] EXCEPT !.event = e, !.stage = "reading", !.read = <<>>,
                                      !.clean = C]
    <2>1. /\ worker' = [worker EXCEPT ![w] = x]
          /\ e \in worker[w].batch /\ outbox[e].on = All
          /\ UNCHANGED <<store, astray>>
      BY <1>5 DEF StartResync
    <2> HIDE DEF C
    <2>2. C \subseteq Aggregates
      BY DEF C
    <2>3. /\ x \in WorkerState /\ x.batch = worker[w].batch /\ x.event = e
          /\ x.stage = "reading" /\ x.read = <<>>
      <3>1. e \in Events /\ <<>> \in Seq(SUBSET Storable)
        OBVIOUS
      <3> QED BY <1>1, <2>2, <3>1 DEF WorkerState
    <2> HIDE DEF x
    <2>4. store' \subseteq Storable /\ astray' \subseteq Aggregates
      BY <2>1 DEF TypeInv, SyncTypeOK
    <2> QED BY <1>1, <1>2, <1>3, <1>4, <2>1, <2>3, <2>4, WorkerTypes
  <1>6. ASSUME ReadTable(w)
        PROVE  TypeInv'
    <2> DEFINE x == [worker[w] EXCEPT !.read = Append(worker[w].read, rows[Len(worker[w].read) + 1])]
    <2>1. /\ worker' = [worker EXCEPT ![w] = x]
          /\ worker[w].stage = "reading" /\ Len(worker[w].read) < Tables
          /\ UNCHANGED <<store, astray>>
      BY <1>6 DEF ReadTable
    <2>2. /\ worker[w].read \in Seq(SUBSET Storable)
          /\ rows[Len(worker[w].read) + 1] \in SUBSET Storable
      BY <1>1, <2>1, SyncAssumption DEF WorkerState, TypeInv, SyncTypeOK, Aggregates
    <2>3. /\ Append(worker[w].read, rows[Len(worker[w].read) + 1]) \in Seq(SUBSET Storable)
          /\ Len(Append(worker[w].read, rows[Len(worker[w].read) + 1])) <= Tables
      BY <2>1, <2>2, SyncAssumption
    <2>4. /\ x \in WorkerState /\ x.batch = worker[w].batch /\ x.event = worker[w].event
          /\ x.stage = "reading" /\ Len(x.read) <= Tables
      BY <1>1, <2>1, <2>3 DEF WorkerState
    <2>5. x.event \in x.batch /\ outbox[x.event].on = All
      BY <2>1, <2>4 DEF TypeInv, HoldsInv, Resyncing
    <2> HIDE DEF x
    <2>6. store' \subseteq Storable /\ astray' \subseteq Aggregates
      BY <2>1 DEF TypeInv, SyncTypeOK
    <2> QED BY <1>1, <1>2, <1>3, <2>1, <2>4, <2>5, <2>6, WorkerTypes
  <1>7. ASSUME ListTuples(w)
        PROVE  TypeInv'
    <2> DEFINE x == [worker[w] EXCEPT !.observed = store, !.stage = "listed"]
    <2>1. /\ worker' = [worker EXCEPT ![w] = x]
          /\ worker[w].stage = "reading" /\ Len(worker[w].read) = Tables
          /\ UNCHANGED <<store, astray>>
      BY <1>7 DEF ListTuples
    <2>2. store \subseteq Storable
      BY DEF TypeInv, SyncTypeOK
    <2>3. /\ x \in WorkerState /\ x.batch = worker[w].batch /\ x.event = worker[w].event
          /\ x.stage = "listed" /\ Len(x.read) = Tables
      BY <1>1, <2>1, <2>2 DEF WorkerState
    <2>4. x.event \in x.batch /\ outbox[x.event].on = All /\ Len(x.read) <= Tables
      BY <1>1, <2>1, <2>3 DEF TypeInv, HoldsInv, Resyncing
    <2> HIDE DEF x
    <2>5. store' \subseteq Storable /\ astray' \subseteq Aggregates
      BY <2>1 DEF TypeInv, SyncTypeOK
    <2> QED BY <1>1, <1>2, <1>3, <2>1, <2>3, <2>4, <2>5, WorkerTypes
  <1>8. Resynced(w) \subseteq Storable \/ ~(worker[w].stage = "listed")
    <2> SUFFICES ASSUME worker[w].stage = "listed", NEW a \in Aggregates
                 PROVE  worker[w].read[a] \in SUBSET Storable
      BY DEF Resynced, Expected, TypeInv, SyncTypeOK
    <2>1. a \in 1..Len(worker[w].read)
      BY SyncAssumption DEF TypeInv, HoldsInv, Aggregates
    <2> QED BY <1>1, <2>1 DEF WorkerState
  <1>9. ASSUME ApplyResync(w) \/ ResyncErrs(w)
        PROVE  TypeInv'
    <2>1. PICK stage \in {"applied", "failed"} : worker' = [worker EXCEPT ![w] = At(w, stage)]
      BY <1>9 DEF ApplyResync, ResyncErrs
    <2>2. worker[w].stage \in {"reading", "listed"}
      BY <1>9 DEF ApplyResync, ResyncErrs
    <2>3. astray' \subseteq Aggregates
      BY <1>9 DEF ApplyResync, ResyncErrs, TypeInv, SyncTypeOK
    <2>4. store' \subseteq Storable
      <3>1. CASE store' = store
        BY <3>1 DEF TypeInv, SyncTypeOK
      <3>2. CASE store' = Resynced(w) /\ worker[w].stage = "listed"
        BY <1>8, <3>2
      <3> QED BY <1>9, <3>1, <3>2 DEF ApplyResync, ResyncErrs
    <2>5. worker[w].event \in worker[w].batch
      BY <2>2 DEF TypeInv, HoldsInv
    <2>6. /\ At(w, stage) \in WorkerState /\ At(w, stage).batch = worker[w].batch
          /\ At(w, stage).event = worker[w].event /\ At(w, stage).stage = stage
          /\ Len(At(w, stage).read) <= Tables
      BY <1>4, WorkerShape
    <2> QED BY <1>1, <1>2, <1>3, <2>1, <2>3, <2>4, <2>5, <2>6, WorkerTypes
  <1> QED BY <1>5, <1>6, <1>7, <1>9

Deciding ==
    \E a \in Watched :
        \/ Begin(a) \/ Ask(a) \/ WriteDecision(a) \/ EndCheck(a)
        \/ Invalidate(a) \/ DropInvalidation(a) \/ Forget(a)

LEMMA DecisionTypes ==
    ASSUME TypeInv, Deciding
    PROVE  TypeInv' /\ UNCHANGED <<rows, store, outbox, worker, astray>>
  <1>1. UNCHANGED <<rows, store, outbox, worker, astray>>
    BY DEF Deciding, Begin, Ask, WriteDecision, EndCheck, Invalidate, DropInvalidation, Forget
  <1>2. Unknown \in Decision /\ Idle \in Check
    BY DEF Unknown, Idle, Decision, Check
  <1>3. /\ decision \in [Watched -> Decision] /\ check \in [Watched -> Check]
        /\ announcing \subseteq Watched /\ store \subseteq Storable
    BY DEF TypeInv, SyncTypeOK, Decision, Check
  <1> DEFINE Typed ==
                 /\ announcing' \subseteq Watched
                 /\ decision' \in [Watched -> Decision]
                 /\ check' \in [Watched -> Check]
  <1>4. Typed
    <2>1. ASSUME NEW a \in Watched, Begin(a) PROVE Typed
      BY <1>3, <2>1 DEF Begin, Check
    <2>2. ASSUME NEW a \in Watched, Ask(a) PROVE Typed
      <3>1. [stage |-> "answered", tuples |-> store \cap Candidates(a)] \in Check
        BY <1>3 DEF Check
      <3> QED BY <1>3, <2>2, <3>1 DEF Ask
    <2>3. ASSUME NEW a \in Watched, WriteDecision(a) PROVE Typed
      <3>1. [known |-> TRUE, tuples |-> check[a].tuples] \in Decision
        BY <1>3 DEF Decision, Check
      <3> QED BY <1>2, <1>3, <2>3, <3>1 DEF WriteDecision
    <2>4. ASSUME NEW a \in Watched,
                 EndCheck(a) \/ Invalidate(a) \/ DropInvalidation(a) \/ Forget(a)
          PROVE Typed
      BY <1>2, <1>3, <2>4 DEF EndCheck, Invalidate, DropInvalidation, Forget
    <2> QED BY <2>1, <2>2, <2>3, <2>4 DEF Deciding
  <1>5. SyncTypeOK'
    BY <1>1, <1>4 DEF TypeInv, SyncTypeOK, Decision, Check
  <1>6. HoldsInv'
    BY <1>1 DEF TypeInv, HoldsInv, Resyncing
  <1> QED BY <1>1, <1>5, <1>6 DEF TypeInv

LEMMA StepTypes ==
    ASSUME TypeInv, [SyncNext]_syncVars
    PROVE  TypeInv'
  <1>1. CASE SyncNext
    <2>1. ASSUME NEW a \in Aggregates, NEW tuples \in Standing(a),
                 Write(a, tuples) \/ WriteSilently(a, tuples)
          PROVE  TypeInv'
      BY <2>1, WriteTypes
    <2>2. CASE RequestResync
      BY <2>2, RequestTypes
    <2>3. ASSUME NEW w \in Workers, WorkerStep(w) \/ WorkerFault(w)
          PROVE  TypeInv'
      BY <2>3, ClaimTypes, MarkTypes, ApplyTypes, ResyncTypes DEF WorkerStep, WorkerFault
    <2>4. CASE Deciding
      BY <2>4, DecisionTypes
    <2> QED BY <1>1, <2>1, <2>2, <2>3, <2>4 DEF SyncNext, Deciding
  <1>2. CASE UNCHANGED syncVars
    BY <1>2 DEF syncVars, TypeInv, SyncTypeOK, HoldsInv, Resyncing
  <1> QED BY <1>1, <1>2

-----------------------------------------------------------------------------
(* The store.                                                              *)

(* What is worked on is outstanding, a resync by an event about all.        *)
LEMMA HeldIsOutstanding ==
    ASSUME TypeInv, NEW w \in Workers
    PROVE  /\ worker[w].batch \subseteq Events
           /\ \A e \in worker[w].batch : Outstanding(e)
           /\ worker[w].stage # "next" =>
                  worker[w].event \in Events /\ Outstanding(worker[w].event)
           /\ Resyncing(w) => outbox[worker[w].event].on = All
  <1>1. worker[w].batch \subseteq Events
    BY DEF TypeInv, SyncTypeOK, WorkerState
  <1> QED BY <1>1 DEF Outstanding, TypeInv, HoldsInv, Resyncing

(* The new event is the only one whose standing changes.                    *)
LEMMA EnqueueShape ==
    ASSUME TypeInv, NEW on \in Aggregates \cup {All}, NEW tuples \in SUBSET Storable,
           Enqueue(on, tuples), \A w \in Workers : worker'[w].batch = worker[w].batch
    PROVE  \E n \in Events :
               /\ outbox'[n].on = on /\ outbox'[n].tuples = tuples
               /\ outbox'[n].status = "PENDING" /\ ~Outstanding(n)
               /\ \A w \in Workers : n \notin worker[w].batch
               /\ \A e \in Events \ {n} :
                      outbox'[e] = outbox[e] /\ (Outstanding(e)' <=> Outstanding(e))
  <1>1. PICK n \in Events :
            /\ outbox[n].status = "none"
            /\ outbox' = [outbox EXCEPT ![n] =
                   [on |-> on, tuples |-> tuples, status |-> "PENDING", retry |-> "null"]]
    BY DEF Enqueue
  <1>2. \A w \in Workers : n \notin worker[w].batch
    BY <1>1 DEF TypeInv, HoldsInv
  <1>3. \A e \in Events \ {n} : outbox'[e] = outbox[e]
    BY <1>1 DEF TypeInv, SyncTypeOK
  <1>4. \A e \in Events \ {n} : Outstanding(e)' <=> Outstanding(e)
    BY <1>3 DEF Outstanding, Unsent
  <1>5. /\ outbox'[n].on = on /\ outbox'[n].tuples = tuples
        /\ outbox'[n].status = "PENDING"
    BY <1>1 DEF TypeInv, SyncTypeOK
  <1>6. ~Outstanding(n)
    BY <1>1, <1>2 DEF Outstanding, Unsent
  <1> QED BY <1>2, <1>3, <1>4, <1>5, <1>6

(* Rows, events and what was read keep to what an aggregate may stand for.  *)
LEMMA FootKept ==
    ASSUME TypeInv, FootInv, [SyncNext]_syncVars
    PROVE  FootInv'
  <1> USE DEF FootInv
  <1>1. \A w \in Workers : worker[w] \in WorkerState
    BY DEF TypeInv, SyncTypeOK
  <1>2. ASSUME NEW a \in Aggregates, NEW tuples \in Standing(a),
               Write(a, tuples) \/ WriteSilently(a, tuples)
        PROVE  FootInv'
    <2>1. rows' = [rows EXCEPT ![a] = tuples] /\ Disturb(a)
      BY <1>2 DEF Write, WriteSilently
    <2>2. \A b \in Aggregates : rows'[b] \subseteq Foot(b)
      BY <2>1, StandingFoot DEF TypeInv, SyncTypeOK
    <2>3. \A w \in Workers : worker'[w].read = worker[w].read
      BY <2>1, DisturbType
    <2>4. ASSUME NEW e \in Events, outbox'[e].on \in Aggregates
          PROVE  outbox'[e].tuples \subseteq Foot(outbox'[e].on)
      <3>1. CASE outbox' = outbox
        BY <2>4, <3>1
      <3>2. CASE Write(a, tuples)
        <4>1. PICK n \in Events :
                  /\ outbox'[n].on = a /\ outbox'[n].tuples = tuples
                  /\ \A d \in Events \ {n} : outbox'[d] = outbox[d]
          BY <3>2 DEF Write, Enqueue, TypeInv, SyncTypeOK
        <4> QED BY <2>4, <4>1, StandingFoot
      <3> QED BY <1>2, <3>1, <3>2 DEF WriteSilently
    <2> QED BY <2>2, <2>3, <2>4
  <1>3. CASE RequestResync
    <2>1. PICK n \in Events :
              outbox'[n].on = All /\ \A d \in Events \ {n} : outbox'[d] = outbox[d]
      BY <1>3 DEF RequestResync, Enqueue, TypeInv, SyncTypeOK
    <2>2. UNCHANGED <<rows, worker>>
      BY <1>3 DEF RequestResync
    <2> QED BY <2>1, <2>2, SyncAssumption
  <1>4. ASSUME NEW w \in Workers, WorkerStep(w) \/ WorkerFault(w)
        PROVE  FootInv'
    <2>1. rows' = rows
      BY <1>4 DEF WorkerStep, WorkerFault, Claim, Apply, StartResync, ReadTable, ListTuples,
                  ApplyResync, MarkSent, MarkFailed, ApplyErrs, ResyncErrs, MarkSentErrs, GiveUp
    <2>2. \A e \in Events :
              outbox'[e].on = outbox[e].on /\ outbox'[e].tuples = outbox[e].tuples
      <3>1. CASE UNCHANGED outbox
        BY <3>1
      <3>2. ASSUME NEW batch \in SUBSET Events, Claim(w, batch)
            PROVE  \A e \in Events :
                       outbox'[e].on = outbox[e].on /\ outbox'[e].tuples = outbox[e].tuples
        BY <3>2 DEF Claim, TypeInv, SyncTypeOK, Event
      <3>3. CASE MarkSent(w) \/ MarkSentErrs(w) \/ MarkFailed(w) \/ GiveUp(w)
        <4>1. UNCHANGED outbox \/ worker[w].stage # "next"
          BY <3>3 DEF MarkSent, MarkSentErrs, MarkFailed, GiveUp
        <4> QED BY <3>1, <3>3, <4>1, MarkShape DEF MarkSent, MarkSentErrs, MarkFailed, GiveUp
      <3> QED BY <1>4, <3>1, <3>2, <3>3
              DEF WorkerStep, WorkerFault, Apply, StartResync, ReadTable, ListTuples,
                  ApplyResync, ApplyErrs, ResyncErrs
    <2>3. /\ \A v \in Workers \ {w} : worker'[v] = worker[v]
          /\ \/ worker'[w].read \in {<<>>, worker[w].read}
             \/ /\ worker'[w].read = Append(worker[w].read, rows[Len(worker[w].read) + 1])
                /\ Len(worker[w].read) < Tables
      <3>1. CASE ReadTable(w)
        BY <1>1, <3>1 DEF ReadTable, TypeInv, SyncTypeOK, WorkerState
      <3>2. ASSUME NEW batch \in SUBSET Events, Claim(w, batch)
            PROVE  worker'[w].read = worker[w].read
                   /\ \A v \in Workers \ {w} : worker'[v] = worker[v]
        BY <1>1, <3>2 DEF Claim, TypeInv, SyncTypeOK, WorkerState
      <3>3. ASSUME NEW e \in Events, Apply(w, e) \/ ApplyErrs(w, e)
            PROVE  worker'[w].read = worker[w].read
                   /\ \A v \in Workers \ {w} : worker'[v] = worker[v]
        BY <1>1, <3>3 DEF Apply, ApplyErrs, TypeInv, SyncTypeOK, WorkerState
      <3>7. ASSUME NEW e \in Events, StartResync(w, e)
            PROVE  worker'[w].read = <<>>
                   /\ \A v \in Workers \ {w} : worker'[v] = worker[v]
        BY <1>1, <3>7 DEF StartResync, TypeInv, SyncTypeOK, WorkerState
      <3>4. CASE ListTuples(w) \/ MarkSentErrs(w)
        BY <1>1, <3>4 DEF ListTuples, MarkSentErrs, TypeInv, SyncTypeOK, WorkerState
      <3>5. CASE ApplyResync(w) \/ ResyncErrs(w)
        BY <3>5, WorkerShape DEF ApplyResync, ResyncErrs, TypeInv, SyncTypeOK
      <3>6. CASE MarkSent(w) \/ MarkFailed(w) \/ GiveUp(w)
        BY <3>6, WorkerShape, RestingType DEF MarkSent, MarkFailed, GiveUp, TypeInv, SyncTypeOK
      <3> QED BY <1>4, <3>1, <3>2, <3>3, <3>4, <3>5, <3>6, <3>7 DEF WorkerStep, WorkerFault
    <2>4. ASSUME NEW a \in Aggregates, a <= Len(worker'[w].read)
          PROVE  worker'[w].read[a] \subseteq Foot(a)
      <3>1. worker[w].read \in Seq(SUBSET Storable) /\ a \in 1..Tables
        BY <1>1 DEF WorkerState, Aggregates
      <3>2. CASE worker'[w].read \in {<<>>, worker[w].read}
        BY <2>4, <3>1, <3>2
      <3>3. CASE worker'[w].read = Append(worker[w].read, rows[Len(worker[w].read) + 1])
        <4>1. CASE a <= Len(worker[w].read)
          BY <3>1, <3>3, <4>1
        <4>2. CASE a = Len(worker[w].read) + 1
          BY <3>1, <3>3, <4>2
        <4> QED BY <2>4, <3>1, <3>3, <4>1, <4>2, SyncAssumption
      <3> QED BY <2>3, <3>2, <3>3
    <2> QED BY <2>1, <2>2, <2>3, <2>4
  <1>5. CASE Deciding
    BY <1>5, DecisionTypes
  <1>6. CASE UNCHANGED syncVars
    BY <1>6 DEF syncVars
  <1> QED BY <1>2, <1>3, <1>4, <1>5, <1>6 DEF SyncNext, Deciding

LEMMA WriteKeepsStore ==
    ASSUME TypeInv, StoreInv, NEW a \in Aggregates, NEW tuples \in Standing(a),
           Write(a, tuples)
    PROVE  StoreInv'
  <1>1. /\ rows' = [rows EXCEPT ![a] = tuples] /\ store' = store
        /\ Enqueue(a, tuples) /\ Disturb(a)
        /\ rows'[a] = tuples /\ \A b \in Aggregates \ {a} : rows'[b] = rows[b]
    BY DEF Write, TypeInv, SyncTypeOK
  <1>2. \A w \in Workers :
            /\ worker'[w].batch = worker[w].batch /\ worker'[w].event = worker[w].event
            /\ worker'[w].stage = worker[w].stage /\ worker'[w].read = worker[w].read
            /\ worker'[w].observed = worker[w].observed
            /\ worker'[w].clean = worker[w].clean \ {a}
            /\ worker[w].clean \subseteq Aggregates
    BY <1>1, DisturbType DEF TypeInv, SyncTypeOK, WorkerState
  <1>3. PICK n \in Events :
            /\ outbox'[n].on = a /\ outbox'[n].tuples = tuples
            /\ outbox'[n].status = "PENDING" /\ ~Outstanding(n)
            /\ \A w \in Workers : n \notin worker[w].batch
            /\ \A e \in Events \ {n} :
                   outbox'[e] = outbox[e] /\ (Outstanding(e)' <=> Outstanding(e))
    BY <1>1, <1>2, StandingFoot, EnqueueShape
  <1>4. Outstanding(n)'
    BY <1>3 DEF Outstanding, Unsent
  <1>5. \A b \in Aggregates \ {a} : Tracked(b)' => Tracked(b) /\ (b \in astray' <=> b \in astray)
    BY <1>2 DEF Tracked, Write
  <1>6. \A w \in Workers :
            /\ worker[w].stage # "next" => worker[w].event # n /\ worker[w].event \in Events
            /\ Resyncing(w)' <=> Resyncing(w)
    BY <1>2, <1>3, HeldIsOutstanding DEF TypeInv, HoldsInv, Resyncing
  <1>7. Tracked(a)' =>
            /\ \A e \in Events : outbox[e].on = a => ~Outstanding(e)
            /\ \A w \in Workers : ~Resyncing(w)
    <2> SUFFICES ASSUME a \notin astray'
                 PROVE  /\ \A e \in Events : outbox[e].on = a => ~Outstanding(e)
                        /\ \A w \in Workers : ~Resyncing(w)
      BY <1>2 DEF Tracked
    <2>1. \A e \in Events : outbox[e].on \in {a, All} => ~Outstanding(e)
      BY DEF Write
    <2> QED BY <2>1, HeldIsOutstanding DEF Resyncing
  <1>8. CleanInv'
    BY <1>2, <1>3 DEF StoreInv, CleanInv
  <1>9. CarriesRow'
    <2> SUFFICES ASSUME NEW b \in Aggregates, Tracked(b)', NEW e \in Events,
                        outbox'[e].on = b, Outstanding(e)'
                 PROVE  outbox'[e].tuples = rows'[b]
      BY DEF CarriesRow
    <2>1. CASE b = a
      BY <1>1, <1>3, <1>7, <2>1
    <2>2. CASE b # a
      BY <1>1, <1>3, <1>5, <2>2 DEF StoreInv, CarriesRow
    <2> QED BY <2>1, <2>2
  <1>10. ReadsRow'
    BY <1>1, <1>2, <1>5, <1>6, <1>7 DEF StoreInv, ReadsRow
  <1>11. SeesStore'
    BY <1>1, <1>2, <1>5, <1>7 DEF StoreInv, SeesStore, Resyncing
  <1>14. ListedAll'
    <2>1. \A w \in Workers : worker'[w].clean # Aggregates
      BY <1>2
    <2> QED BY <2>1 DEF ListedAll
  <1>15. \A b \in Aggregates \ {a} : Right(b)' <=> Right(b)
    BY <1>1 DEF Right
  <1>12. AppliedInv'
    <2> SUFFICES ASSUME NEW b \in Aggregates, b \notin astray', NEW w \in Workers
                 PROVE  /\ worker'[w].stage = "applied" /\ outbox'[worker'[w].event].on = b
                               => Right(b)'
                        /\ \A e \in worker'[w].batch :
                               outbox'[e].on = b /\ outbox'[e].status = "SENT"
                                   => Right(b)'
      BY DEF AppliedInv
    <2>1. \A e \in worker[w].batch :
              /\ e \in Events /\ e # n /\ outbox'[e] = outbox[e] /\ Outstanding(e)
      BY <1>3, HeldIsOutstanding
    <2>2. worker[w].stage # "next" => worker[w].event \in worker[w].batch
      BY DEF TypeInv, HoldsInv
    <2>3. CASE b = a
      BY <1>2, <1>7, <2>1, <2>2, <2>3 DEF Tracked
    <2>4. CASE b # a
      BY <1>2, <1>5, <1>15, <2>1, <2>2, <2>4 DEF StoreInv, AppliedInv, Tracked
    <2> QED BY <2>3, <2>4
  <1>13. ConvergedUnlessAstray'
    <2> SUFFICES ASSUME NEW b \in Aggregates, b \notin astray',
                        \A e \in Events : outbox'[e].on = b => ~Outstanding(e)'
                 PROVE  Right(b)'
      BY DEF ConvergedUnlessAstray
    <2>1. b # a
      BY <1>3, <1>4
    <2>2. b \notin astray
      BY <1>5, <2>1 DEF Tracked
    <2>3. \A e \in Events : outbox[e].on = b => ~Outstanding(e)
      <3>1. ASSUME NEW e \in Events, outbox[e].on = b, Outstanding(e)
            PROVE  FALSE
        <4>1. CASE e = n
          BY <1>3, <3>1, <4>1
        <4>2. CASE e # n
          BY <1>3, <3>1, <4>2
        <4> QED BY <4>1, <4>2
      <3> QED BY <3>1
    <2> QED BY <1>15, <2>1, <2>2, <2>3 DEF StoreInv, ConvergedUnlessAstray
  <1> QED BY <1>8, <1>9, <1>10, <1>11, <1>12, <1>13, <1>14 DEF StoreInv

LEMMA WriteSilentlyKeepsStore ==
    ASSUME TypeInv, StoreInv, NEW a \in Aggregates, NEW tuples \in Standing(a),
           WriteSilently(a, tuples)
    PROVE  StoreInv'
  <1>1. /\ store' = store /\ outbox' = outbox /\ Disturb(a) /\ astray' = astray \cup {a}
        /\ \A b \in Aggregates \ {a} : rows'[b] = rows[b]
    BY DEF WriteSilently, TypeInv, SyncTypeOK
  <1>2. \A w \in Workers :
            /\ worker'[w].batch = worker[w].batch /\ worker'[w].event = worker[w].event
            /\ worker'[w].stage = worker[w].stage /\ worker'[w].read = worker[w].read
            /\ worker'[w].observed = worker[w].observed
            /\ worker'[w].clean = worker[w].clean \ {a}
    BY <1>1, DisturbType
  <1>3. \A b \in Aggregates : Tracked(b)' => b # a /\ Tracked(b) /\ rows'[b] = rows[b]
    BY <1>1, <1>2 DEF Tracked
  <1>4. \A e \in Events : Outstanding(e)' <=> Outstanding(e)
    BY <1>1, <1>2 DEF Outstanding, Unsent
  <1>5. CleanInv' /\ CarriesRow'
    BY <1>1, <1>2, <1>3, <1>4 DEF StoreInv, CleanInv, CarriesRow
  <1>6. ReadsRow' /\ SeesStore'
    BY <1>1, <1>2, <1>3 DEF StoreInv, ReadsRow, SeesStore, Resyncing
  <1>7. \A b \in Aggregates \ astray' :
            b \in Aggregates \ astray /\ rows'[b] = rows[b] /\ (Right(b)' <=> Right(b))
    BY <1>1 DEF Right
  <1>8. AppliedInv'
    BY <1>1, <1>2, <1>7 DEF StoreInv, AppliedInv
  <1>9. ConvergedUnlessAstray'
    BY <1>1, <1>4, <1>7 DEF StoreInv, ConvergedUnlessAstray
  <1>10. ListedAll'
    BY <1>2 DEF ListedAll
  <1> QED BY <1>5, <1>6, <1>8, <1>9, <1>10 DEF StoreInv

LEMMA RequestKeepsStore ==
    ASSUME TypeInv, StoreInv, RequestResync
    PROVE  StoreInv'
  <1>1. /\ rows' = rows /\ store' = store /\ worker' = worker /\ astray' = astray
        /\ Enqueue(All, {})
    BY DEF RequestResync
  <1>2. PICK n \in Events :
            /\ outbox'[n].on = All /\ ~Outstanding(n)
            /\ \A w \in Workers : n \notin worker[w].batch
            /\ \A e \in Events \ {n} :
                   outbox'[e] = outbox[e] /\ (Outstanding(e)' <=> Outstanding(e))
    BY <1>1, EnqueueShape, {} \in SUBSET Storable
  <1>3. \A e \in Events : outbox'[e].on \in Aggregates =>
            outbox'[e] = outbox[e] /\ (Outstanding(e)' <=> Outstanding(e))
    BY <1>2, SyncAssumption
  <1>4. \A w \in Workers : worker[w].clean \subseteq Aggregates
    BY DEF TypeInv, SyncTypeOK, WorkerState
  <1>5. \A b \in Aggregates : Tracked(b)' <=> Tracked(b)
    BY <1>1 DEF Tracked
  <1>6. CleanInv' /\ CarriesRow'
    BY <1>1, <1>3, <1>4, <1>5 DEF StoreInv, CleanInv, CarriesRow
  <1>7. ReadsRow' /\ SeesStore'
    BY <1>1, <1>5 DEF StoreInv, ReadsRow, SeesStore, Resyncing
  <1>10. ListedAll' /\ \A b \in Aggregates : Right(b)' <=> Right(b)
    BY <1>1 DEF StoreInv, ListedAll, RowTuples, Right
  <1>8. AppliedInv'
    <2>1. \A w \in Workers : \A e \in worker[w].batch : outbox'[e] = outbox[e]
      BY <1>2, HeldIsOutstanding
    <2>2. \A w \in Workers :
              worker[w].stage = "applied" => worker[w].event \in worker[w].batch
      BY DEF TypeInv, HoldsInv
    <2> QED BY <1>1, <1>10, <2>1, <2>2 DEF StoreInv, AppliedInv
  <1>9. ConvergedUnlessAstray'
    <2>1. \A e \in Events : Outstanding(e) => outbox'[e] = outbox[e] /\ Outstanding(e)'
      BY <1>2
    <2> QED BY <1>1, <1>10, <2>1 DEF StoreInv, ConvergedUnlessAstray
  <1> QED BY <1>6, <1>7, <1>8, <1>9, <1>10 DEF StoreInv

(* The store moves towards the row of a, if it moves.                       *)
Toward(a) ==
    /\ rows[a] \cap store \subseteq store'
    /\ store' \cap Candidates(a) \subseteq store \cup rows[a]

(* A step of a worker that does not begin a resync: the store moves towards *)
(* the rows, an event stops being outstanding, or is marked sent, when the  *)
(* store has got there.                                                     *)
Advances(w, x) ==
    /\ rows' = rows
    /\ worker' = [worker EXCEPT ![w] = x]
    /\ x.clean \subseteq worker[w].clean /\ x.stage \notin {"reading", "listed"}
    /\ x.batch \subseteq Events
    /\ \A e \in x.batch : e \in worker[w].batch \/ outbox'[e].status # "SENT"
    /\ x.stage = "applied" => x.event \in Events
    /\ astray' \subseteq astray
    /\ \A a \in astray \ astray' : a \in worker[w].clean /\ Right(a)'
    /\ \A e \in Events :
           /\ outbox'[e].on = outbox[e].on /\ outbox'[e].tuples = outbox[e].tuples
           /\ Outstanding(e)' => Outstanding(e)
    /\ \A a \in Aggregates : Tracked(a) => Toward(a)
    /\ \A v \in Workers : worker[v].clean = Aggregates => store' \subseteq store \cup RowTuples
    /\ \A a \in Aggregates \ astray :
           /\ x.stage = "applied" /\ outbox[x.event].on = a => Right(a)'
           /\ \A e \in Events :
                  outbox[e].on = a /\
                  (\/ outbox[e].status # "SENT" /\ outbox'[e].status = "SENT"
                   \/ Outstanding(e) /\ ~Outstanding(e)') => Right(a)'

LEMMA AdvanceKeepsStore ==
    ASSUME TypeInv, StoreInv, NEW w \in Workers, NEW x \in WorkerState, Advances(w, x)
    PROVE  StoreInv'
  <1> USE DEF Advances
  <1>1. \A v \in Workers : worker'[v] = IF v = w THEN x ELSE worker[v]
    BY DEF TypeInv, SyncTypeOK
  <1>2. \A v \in Workers : worker'[v].clean \subseteq worker[v].clean
    BY <1>1
  <1>3. \A a \in Aggregates : Tracked(a)' => Tracked(a)
    BY <1>2 DEF Tracked
  <1>4. CleanInv'
    BY <1>2 DEF StoreInv, CleanInv
  <1>5. CarriesRow'
    BY <1>3 DEF StoreInv, CarriesRow
  <1>6. \A v \in Workers : Resyncing(v)' => v # w /\ worker'[v] = worker[v] /\ Resyncing(v)
    BY <1>1 DEF Resyncing
  <1>7. ReadsRow'
    BY <1>3, <1>6 DEF StoreInv, ReadsRow
  <1>8. SeesStore'
    <2> SUFFICES ASSUME NEW a \in Aggregates, Tracked(a)', NEW v \in Workers,
                        worker'[v].stage = "listed"
                 PROVE  /\ rows[a] \cap worker'[v].observed \subseteq store'
                        /\ (store' \cap Candidates(a)) \ rows[a] \subseteq worker'[v].observed
      BY DEF SeesStore
    <2>1. worker'[v] = worker[v]
      BY <1>1
    <2>2. Toward(a) /\ Tracked(a)
      BY <1>3
    <2> QED BY <2>1, <2>2 DEF StoreInv, SeesStore, Toward
  <1>12. ListedAll'
    <2> SUFFICES ASSUME NEW v \in Workers, worker'[v].stage = "listed",
                        worker'[v].clean = Aggregates
                 PROVE  store' \subseteq worker'[v].observed \cup RowTuples'
      BY DEF ListedAll
    <2>1. worker'[v] = worker[v]
      BY <1>1
    <2> QED BY <2>1 DEF StoreInv, ListedAll, RowTuples
  <1>13. \A a \in Aggregates : Tracked(a) /\ Right(a) => Right(a)'
    BY DEF Right, Toward
  <1>9. \A a \in Aggregates \ astray' : a \in astray \ astray' \/ (a \notin astray /\ Tracked(a))
    BY DEF Tracked
  <1>10. AppliedInv'
    <2> SUFFICES ASSUME NEW a \in Aggregates, a \notin astray, NEW v \in Workers
                 PROVE  /\ worker'[v].stage = "applied" /\ outbox'[worker'[v].event].on = a
                               => Right(a)'
                        /\ \A e \in worker'[v].batch :
                               outbox'[e].on = a /\ outbox'[e].status = "SENT"
                                   => Right(a)'
      BY <1>9 DEF AppliedInv
    <2>1. Tracked(a)
      BY DEF Tracked
    <2>2. worker[v].batch \subseteq Events
          /\ (worker[v].stage = "applied" => worker[v].event \in Events)
      BY HeldIsOutstanding
    <2>3. worker'[v].stage = "applied" /\ outbox'[worker'[v].event].on = a => Right(a)'
      BY <1>1, <1>13, <2>1, <2>2 DEF StoreInv, AppliedInv
    <2>4. ASSUME NEW e \in worker'[v].batch, outbox'[e].on = a, outbox'[e].status = "SENT"
          PROVE  Right(a)'
      <3>1. e \in worker[v].batch /\ e \in Events
        BY <1>1, <2>2, <2>4
      <3>2. CASE outbox[e].status = "SENT"
        BY <1>13, <2>1, <2>4, <3>1, <3>2 DEF StoreInv, AppliedInv
      <3>3. CASE outbox[e].status # "SENT"
        BY <2>4, <3>1, <3>3
      <3> QED BY <3>2, <3>3
    <2> QED BY <2>3, <2>4
  <1>11. ConvergedUnlessAstray'
    <2> SUFFICES ASSUME NEW a \in Aggregates, a \notin astray,
                        \A e \in Events : outbox[e].on = a => ~Outstanding(e)'
                 PROVE  Right(a)'
      BY <1>9 DEF ConvergedUnlessAstray
    <2>1. CASE \A e \in Events : outbox[e].on = a => ~Outstanding(e)
      BY <1>13, <2>1 DEF StoreInv, ConvergedUnlessAstray, Tracked
    <2>2. CASE \E e \in Events : outbox[e].on = a /\ Outstanding(e)
      BY <2>2
    <2> QED BY <2>1, <2>2
  <1> QED BY <1>4, <1>5, <1>7, <1>8, <1>10, <1>11, <1>12 DEF StoreInv

LEMMA StoreStands ==
    ASSUME UNCHANGED <<rows, store>>
    PROVE  /\ \A a \in Aggregates : Toward(a) /\ (Right(a)' <=> Right(a))
           /\ store' \subseteq store \cup RowTuples
  BY DEF Toward, Right

LEMMA ClaimKeepsStore ==
    ASSUME TypeInv, StoreInv, NEW w \in Workers, NEW batch \in SUBSET Events, Claim(w, batch)
    PROVE  StoreInv'
  <1> DEFINE x == [worker[w] EXCEPT !.batch = batch]
  <1>1. worker[w] \in WorkerState /\ worker[w].stage = "next" /\ worker[w].batch = {}
    BY WorkerShape DEF Claim
  <1>2. /\ x \in WorkerState
        /\ x.batch = batch /\ x.stage = "next" /\ x.clean = worker[w].clean
    BY <1>1 DEF WorkerState
  <1>3. /\ worker' = [worker EXCEPT ![w] = x]
        /\ \A v \in Workers :
               worker'[v].batch = IF v = w THEN batch ELSE worker[v].batch
    BY <1>2 DEF Claim, TypeInv, SyncTypeOK
  <1>4. ASSUME NEW e \in Events
        PROVE  /\ outbox'[e].on = outbox[e].on /\ outbox'[e].tuples = outbox[e].tuples
               /\ outbox'[e].status = outbox[e].status
               /\ e \in batch => outbox[e].status \in {"PENDING", "FAILED"}
    BY DEF TypeInv, SyncTypeOK, Event, Claim, Claimable
  <1>5. \A e \in Events : Outstanding(e)' <=> Outstanding(e)
    BY <1>1, <1>3, <1>4 DEF Outstanding, Unsent
  <1>6. UNCHANGED <<rows, store, astray>>
    BY DEF Claim
  <1> HIDE DEF x
  <1>7. Advances(w, x)
    BY <1>2, <1>3, <1>4, <1>5, <1>6, StoreStands DEF Advances
  <1> QED BY <1>2, <1>7, AdvanceKeepsStore

LEMMA MarkKeepsStore ==
    ASSUME TypeInv, StoreInv, NEW w \in Workers,
           MarkSent(w) \/ MarkSentErrs(w) \/ MarkFailed(w)
    PROVE  StoreInv'
  <1> DEFINE e == worker[w].event
  <1>1. /\ worker[w] \in WorkerState /\ worker[w].batch \subseteq Events
        /\ worker[w].stage # "next" /\ UNCHANGED <<rows, store, astray>>
    BY WorkerShape, HeldIsOutstanding DEF MarkSent, MarkSentErrs, MarkFailed
  <1>2. e \in Events /\ e \in worker[w].batch
    BY <1>1, MarkShape
  <1>3. \A d \in Events :
            /\ outbox'[d].on = outbox[d].on /\ outbox'[d].tuples = outbox[d].tuples
            /\ d # e => outbox'[d] = outbox[d]
    <2>1. CASE UNCHANGED outbox
      BY <2>1
    <2>2. CASE ~UNCHANGED outbox
      BY <1>1, <2>2, MarkShape DEF MarkSent, MarkSentErrs, MarkFailed
    <2> QED BY <2>1, <2>2
  <1>4. /\ worker[w].stage = "applied" =>
               \A a \in Aggregates \ astray : outbox[e].on = a => Right(a)
        /\ MarkFailed(w) => outbox'[e].status = "FAILED"
    BY <1>1, MarkShape DEF MarkFailed, StoreInv, AppliedInv
  <1>5. CASE MarkSent(w) \/ MarkFailed(w)
    <2>1. worker' = [worker EXCEPT ![w] = Done(w)]
      BY <1>5 DEF MarkSent, MarkFailed
    <2>2. /\ Done(w) \in WorkerState
          /\ Done(w).batch = worker[w].batch \ {e} /\ Done(w).stage = "next"
          /\ Done(w).clean = {}
      BY WorkerShape
    <2>3. \A v \in Workers :
              worker'[v].batch = IF v = w THEN worker[w].batch \ {e} ELSE worker[v].batch
      BY <2>1, <2>2 DEF TypeInv, SyncTypeOK
    <2>4. \A d \in Events : Outstanding(d)' => Outstanding(d)
      BY <1>2, <1>3, <2>3 DEF Outstanding, Unsent
    <2>5. \A d \in Events :
              (\/ outbox[d].status # "SENT" /\ outbox'[d].status = "SENT"
               \/ Outstanding(d) /\ ~Outstanding(d)') => d = e
      BY <1>2, <1>3, <2>3 DEF Outstanding, Unsent
    <2>6. CASE MarkSent(w)
      <3>1. worker[w].stage = "applied"
        BY <2>6 DEF MarkSent
      <3>2. Advances(w, Done(w))
        BY <1>1, <1>3, <1>4, <2>1, <2>2, <2>4, <2>5, <3>1, StoreStands DEF Advances
      <3> QED BY <2>2, <3>2, AdvanceKeepsStore
    <2>7. CASE MarkFailed(w)
      <3>1. \A d \in Events : d = e => outbox'[d].status = "FAILED" /\ Outstanding(d)'
        BY <1>4, <2>7 DEF Outstanding, Unsent
      <3>2. Advances(w, Done(w))
        BY <1>1, <1>3, <2>1, <2>2, <2>4, <2>5, <3>1, StoreStands DEF Advances
      <3> QED BY <2>2, <3>2, AdvanceKeepsStore
    <2> QED BY <1>5, <2>6, <2>7
  <1>6. CASE MarkSentErrs(w)
    <2> DEFINE x == [worker[w] EXCEPT !.stage = "failed"]
    <2>1. worker' = [worker EXCEPT ![w] = x] /\ worker[w].stage = "applied"
      BY <1>6 DEF MarkSentErrs
    <2>2. /\ x \in WorkerState
          /\ x.batch = worker[w].batch /\ x.clean = worker[w].clean /\ x.stage = "failed"
      BY <1>1 DEF WorkerState
    <2> HIDE DEF x
    <2>3. \A v \in Workers : worker'[v].batch = worker[v].batch
      BY <2>1, <2>2 DEF TypeInv, SyncTypeOK
    <2>4. \A d \in Events :
              /\ Outstanding(d)' <=> Outstanding(d)
              /\ outbox[d].status # "SENT" /\ outbox'[d].status = "SENT" => d = e
      BY <1>2, <1>3, <2>3 DEF Outstanding, Unsent
    <2>5. Advances(w, x)
      BY <1>1, <1>3, <1>4, <2>1, <2>2, <2>4, StoreStands DEF Advances
    <2> QED BY <2>2, <2>5, AdvanceKeepsStore
  <1> QED BY <1>5, <1>6

LEMMA GiveUpKeepsStore ==
    ASSUME TypeInv, StoreInv, NEW w \in Workers, GiveUp(w)
    PROVE  StoreInv'
  <1>1. /\ worker[w].batch \subseteq Events
        /\ UNCHANGED <<rows, store, astray>> /\ worker' = [worker EXCEPT ![w] = Resting]
    BY HeldIsOutstanding DEF GiveUp
  <1>2. \A v \in Workers : worker'[v].batch = IF v = w THEN {} ELSE worker[v].batch
    BY <1>1, RestingType DEF TypeInv, SyncTypeOK
  <1>3. \A d \in Events :
            /\ outbox'[d].on = outbox[d].on /\ outbox'[d].tuples = outbox[d].tuples
            /\ outbox'[d] = outbox[d] \/ (d \in worker[w].batch /\ outbox'[d].status = "FAILED")
    <2>1. CASE UNCHANGED outbox
      BY <2>1
    <2>2. CASE ~UNCHANGED outbox
      BY <2>2, MarkShape DEF GiveUp
    <2> QED BY <2>1, <2>2
  <1>4. \A d \in Events :
            /\ Outstanding(d)' => Outstanding(d)
            /\ outbox'[d].status = "SENT" => outbox[d].status = "SENT"
    BY <1>2, <1>3, HeldIsOutstanding DEF Outstanding, Unsent
  <1>5. ASSUME NEW a \in Aggregates \ astray, NEW d \in Events, outbox[d].on = a,
               Outstanding(d), ~Outstanding(d)'
        PROVE  Right(a)
    <2>1. d \in worker[w].batch /\ outbox[d].status \notin {"PENDING", "FAILED"}
      BY <1>2, <1>3, <1>5 DEF Outstanding, Unsent
    <2>2. outbox[d].status = "SENT"
      BY <2>1 DEF TypeInv, SyncTypeOK, HoldsInv, Event
    <2> QED BY <1>5, <2>1, <2>2 DEF StoreInv, AppliedInv
  <1>6. Advances(w, Resting)
    BY <1>1, <1>3, <1>4, <1>5, RestingType, StoreStands DEF Advances
  <1> QED BY <1>6, RestingType, AdvanceKeepsStore

LEMMA ApplyKeepsStore ==
    ASSUME TypeInv, FootInv, StoreInv, NEW w \in Workers, NEW e \in Events,
           Apply(w, e) \/ ApplyErrs(w, e)
    PROVE  StoreInv'
  <1>1. PICK st \in {"applied", "failed"} :
            worker' = [worker EXCEPT ![w] = [worker[w] EXCEPT !.event = e, !.stage = st]]
    BY DEF Apply, ApplyErrs
  <1> DEFINE x == [worker[w] EXCEPT !.event = e, !.stage = st]
  <1>2. /\ worker[w] \in WorkerState /\ e \in worker[w].batch
        /\ outbox[e].on \in Aggregates /\ outbox[e].tuples \in SUBSET Storable
        /\ UNCHANGED <<rows, outbox, astray>>
    BY WorkerShape DEF Apply, ApplyErrs, TypeInv, SyncTypeOK, Event
  <1>3. /\ x \in WorkerState /\ x.batch = worker[w].batch /\ x.event = e
        /\ x.stage = st /\ x.clean = worker[w].clean
    BY <1>2 DEF WorkerState
  <1>4. worker' = [worker EXCEPT ![w] = x]
    BY <1>1
  <1> HIDE DEF x
  <1>5. \A d \in Events : Outstanding(d)' <=> Outstanding(d)
    BY <1>2, <1>3, <1>4 DEF Outstanding, Unsent, TypeInv, SyncTypeOK
  <1>6. Applied(e) = (store \ Candidates(outbox[e].on)) \cup outbox[e].tuples
    BY DEF Applied, Replace
  <1>7. \A a \in Aggregates :
            Tracked(a) /\ outbox[e].on = a => outbox[e].tuples = rows[a]
    BY <1>2, HeldIsOutstanding DEF StoreInv, CarriesRow
  <1>8. ASSUME NEW a \in Aggregates, Tracked(a)
        PROVE  Toward(a)
    <2>1. CASE store' = store
      BY <2>1 DEF Toward
    <2>2. CASE store' = Applied(e) /\ outbox[e].on = a
      BY <1>6, <1>7, <1>8, <2>2 DEF Toward
    <2>3. CASE store' = Applied(e) /\ outbox[e].on # a
      <3>1. /\ Foot(a) \cap Candidates(outbox[e].on) = {}
            /\ Foot(outbox[e].on) \cap Candidates(a) = {}
        BY <1>2, <2>3, OthersApart
      <3>2. rows[a] \subseteq Foot(a) /\ outbox[e].tuples \subseteq Foot(outbox[e].on)
        BY <1>2 DEF FootInv
      <3> QED BY <1>6, <2>3, <3>1, <3>2 DEF Toward
    <2> QED BY <2>1, <2>2, <2>3 DEF Apply, ApplyErrs
  <1>14. \A v \in Workers : worker[v].clean # Aggregates
    BY <1>2, HeldIsOutstanding DEF StoreInv, CleanInv
  <1>9. worker'[w].stage = st
    BY <1>3, <1>4 DEF TypeInv, SyncTypeOK
  <1>10. st = "applied" => store' = Applied(e)
    <2>1. ApplyErrs(w, e) => worker'[w].stage = "failed"
      BY <1>2 DEF ApplyErrs, TypeInv, SyncTypeOK, WorkerState
    <2> QED BY <1>9, <2>1 DEF Apply
  <1>11. \A a \in Aggregates \ astray :
             x.stage = "applied" /\ outbox[x.event].on = a => Right(a)'
    BY <1>2, <1>3, <1>6, <1>7, <1>10 DEF Tracked, Right
  <1>12. x.batch \subseteq Events
    BY <1>3, HeldIsOutstanding
  <1>13. Advances(w, x)
    BY <1>2, <1>3, <1>4, <1>5, <1>8, <1>11, <1>12, <1>14 DEF Advances
  <1> QED BY <1>3, <1>13, AdvanceKeepsStore

(* A listed resync brings a tracked aggregate right: what it read is the    *)
(* row, and what it observed is not behind the store.                       *)
LEMMA ResyncedIsRight ==
    ASSUME TypeInv, FootInv, StoreInv, NEW w \in Workers, worker[w].stage = "listed",
           NEW a \in Aggregates, Tracked(a)
    PROVE  /\ worker[w].read[a] = rows[a]
           /\ rows[a] \subseteq Resynced(w)
           /\ Resynced(w) \cap Candidates(a) \subseteq rows[a]
  <1>1. \A b \in Aggregates : b <= Len(worker[w].read)
    BY SyncAssumption DEF TypeInv, HoldsInv, Aggregates
  <1>2. worker[w].read[a] = rows[a]
    BY <1>1 DEF StoreInv, ReadsRow, Resyncing
  <1>3. rows[a] \subseteq Expected(w)
    BY <1>2 DEF Expected
  <1>4. ASSUME NEW b \in Aggregates, b # a
        PROVE  worker[w].read[b] \cap Candidates(a) = {}
    BY <1>1, <1>4, OthersApart DEF FootInv
  <1>5. Expected(w) \cap Candidates(a) \subseteq rows[a]
    BY <1>2, <1>4 DEF Expected
  <1>6. /\ rows[a] \cap worker[w].observed \subseteq store
        /\ (store \cap Candidates(a)) \ rows[a] \subseteq worker[w].observed
    BY DEF StoreInv, SeesStore
  <1> QED BY <1>2, <1>3, <1>5, <1>6 DEF Resynced

(* One that nobody disturbed leaves the rows' tuples and no other.          *)
LEMMA ResyncedIsRows ==
    ASSUME TypeInv, FootInv, StoreInv, NEW w \in Workers, worker[w].stage = "listed",
           worker[w].clean = Aggregates
    PROVE  Resynced(w) = RowTuples
  <1>1. \A a \in Aggregates : worker[w].read[a] = rows[a] /\ rows[a] \subseteq Resynced(w)
    BY ResyncedIsRight DEF Tracked
  <1>2. Expected(w) = RowTuples
    BY <1>1 DEF Expected, RowTuples
  <1>3. store \subseteq worker[w].observed \cup RowTuples
    BY DEF StoreInv, ListedAll
  <1>4. RowTuples \subseteq Resynced(w)
    BY <1>1 DEF RowTuples
  <1>5. Resynced(w) \subseteq RowTuples
    BY <1>2, <1>3 DEF Resynced
  <1> QED BY <1>4, <1>5

(* A step that applies a resync, or fails while at it.                      *)
LEMMA ResyncKeepsStore ==
    ASSUME TypeInv, FootInv, StoreInv, NEW w \in Workers, ApplyResync(w) \/ ResyncErrs(w)
    PROVE  StoreInv'
  <1>1. PICK st \in {"applied", "failed"} : worker' = [worker EXCEPT ![w] = At(w, st)]
    BY DEF ApplyResync, ResyncErrs
  <1> DEFINE x == At(w, st)
  <1>2. /\ x \in WorkerState /\ x.batch = worker[w].batch /\ x.event = worker[w].event
        /\ x.stage = st /\ x.clean = {} /\ worker' = [worker EXCEPT ![w] = x]
    BY <1>1, WorkerShape
  <1> HIDE DEF x
  <1>3. /\ UNCHANGED <<rows, outbox>> /\ Resyncing(w)
        /\ worker[w].event \in Events /\ outbox[worker[w].event].on = All
        /\ worker[w].batch \subseteq Events
        /\ worker[w].clean \subseteq Aggregates
    BY HeldIsOutstanding, WorkerShape DEF ApplyResync, ResyncErrs, Resyncing, WorkerState
  <1>4. \A d \in Events : Outstanding(d)' <=> Outstanding(d)
    BY <1>2, <1>3 DEF Outstanding, Unsent, TypeInv, SyncTypeOK
  <1>5. store' = store \/ (worker[w].stage = "listed" /\ store' = Resynced(w))
    BY DEF ApplyResync, ResyncErrs
  <1>6. ASSUME NEW a \in Aggregates, Tracked(a)
        PROVE  Toward(a)
    BY <1>5, <1>6, ResyncedIsRight DEF Toward
  <1>7. /\ astray' \subseteq astray
        /\ \A a \in astray \ astray' : a \in worker[w].clean /\ Right(a)'
    <2>1. CASE ResyncErrs(w)
      BY <2>1 DEF ResyncErrs
    <2>2. CASE ApplyResync(w)
      BY <1>3, <2>2, ResyncedIsRight DEF ApplyResync, Tracked, Right
    <2> QED BY <2>1, <2>2
  <1>10. ASSUME NEW v \in Workers, worker[v].clean = Aggregates
         PROVE  store' \subseteq store \cup RowTuples
    <2>1. \A a \in Aggregates : Tracked(a)
      BY <1>10 DEF Tracked
    <2>2. worker[w].stage = "listed" => Expected(w) \subseteq RowTuples
      BY <2>1, ResyncedIsRight DEF Expected, RowTuples
    <2> QED BY <1>5, <2>2 DEF Resynced
  <1>8. \A a \in Aggregates : outbox[x.event].on # a
    BY <1>2, <1>3, SyncAssumption
  <1>9. Advances(w, x)
    BY <1>2, <1>3, <1>4, <1>6, <1>7, <1>8, <1>10 DEF Advances
  <1> QED BY <1>2, <1>9, AdvanceKeepsStore

(* A resync begins and reads: it changes nothing but what its worker knows. *)
LEMMA ReadingKeepsStore ==
    ASSUME TypeInv, StoreInv, NEW w \in Workers,
           \/ \E e \in Events : StartResync(w, e)
           \/ ReadTable(w) \/ ListTuples(w)
    PROVE  StoreInv'
  <1>1. /\ UNCHANGED <<rows, store, outbox, astray>> /\ worker[w] \in WorkerState
        /\ \A v \in Workers \ {w} : worker'[v] = worker[v]
    BY WorkerShape DEF StartResync, ReadTable, ListTuples, TypeInv, SyncTypeOK
  <1>2. /\ worker'[w].batch = worker[w].batch /\ worker'[w].stage \in {"reading", "listed"}
    <2>1. ASSUME NEW e \in Events, StartResync(w, e)
          PROVE  worker'[w].batch = worker[w].batch /\ worker'[w].stage = "reading"
      BY <1>1, <2>1 DEF StartResync, TypeInv, SyncTypeOK, WorkerState
    <2>2. CASE ReadTable(w)
      BY <1>1, <2>2 DEF ReadTable, TypeInv, SyncTypeOK, WorkerState
    <2>3. CASE ListTuples(w)
      BY <1>1, <2>3 DEF ListTuples, TypeInv, SyncTypeOK, WorkerState
    <2> QED BY <2>1, <2>2, <2>3
  <1>3. \A d \in Events : Outstanding(d)' <=> Outstanding(d)
    BY <1>1, <1>2 DEF Outstanding, Unsent
  <1>4. AppliedInv' /\ ConvergedUnlessAstray'
    <2>1. \A a \in Aggregates : Right(a)' <=> Right(a)
      BY <1>1 DEF Right
    <2> QED BY <1>1, <1>2, <1>3, <2>1 DEF StoreInv, AppliedInv, ConvergedUnlessAstray
  <1>8. ASSUME NEW e \in Events, StartResync(w, e)
        PROVE  worker'[w].batch = worker[w].batch /\ worker'[w].stage = "reading"
    BY <1>1, <1>8 DEF StartResync, TypeInv, SyncTypeOK, WorkerState
  <1>7. ListedAll'
    <2> SUFFICES ASSUME NEW v \in Workers, worker'[v].stage = "listed",
                        worker'[v].clean = Aggregates
                 PROVE  store \subseteq worker'[v].observed \cup RowTuples
      BY <1>1 DEF ListedAll, RowTuples
    <2>1. CASE v = w /\ ListTuples(w)
      BY <1>1, <2>1 DEF ListTuples, TypeInv, SyncTypeOK, WorkerState
    <2>2. CASE ReadTable(w)
      <3>1. worker'[w].stage = "reading"
        BY <1>1, <2>2 DEF ReadTable, TypeInv, SyncTypeOK, WorkerState
      <3> QED BY <1>1, <3>1 DEF StoreInv, ListedAll
    <2>3. ASSUME NEW e \in Events, StartResync(w, e)
          PROVE  store \subseteq worker'[v].observed \cup RowTuples
      BY <1>1, <1>8, <2>3 DEF StoreInv, ListedAll
    <2>4. CASE v # w
      BY <1>1, <2>4 DEF StoreInv, ListedAll
    <2> QED BY <2>1, <2>2, <2>3, <2>4
  <1>5. ASSUME NEW e \in Events, StartResync(w, e)
        PROVE  StoreInv'
    <2>1. /\ e \in worker[w].batch /\ outbox[e].on = All
          /\ worker'[w].read = <<>> /\ worker'[w].stage = "reading"
          /\ \A a \in worker'[w].clean :
                 /\ a \in Aggregates
                 /\ \A d \in Events \ {e} : outbox[d].on \in {a, All} => ~Outstanding(d)
                 /\ \A v \in Workers \ {w} : e \notin worker[v].batch
      BY <1>1, <1>5 DEF StartResync, TypeInv, SyncTypeOK, WorkerState
    <2>2. ASSUME NEW a \in worker'[w].clean
          PROVE  /\ \A d \in Events : outbox[d].on = a => ~Outstanding(d)
                 /\ \A v \in Workers \ {w} : ~Resyncing(v)
      <3>1. \A d \in Events : outbox[d].on = a => ~Outstanding(d)
        BY <2>1, SyncAssumption
      <3>2. ASSUME NEW v \in Workers \ {w}, Resyncing(v)
            PROVE  FALSE
        <4>1. /\ worker[v].event \in worker[v].batch /\ worker[v].event \in Events
              /\ outbox[worker[v].event].on = All /\ Outstanding(worker[v].event)
          BY <3>2, HeldIsOutstanding DEF TypeInv, HoldsInv, Resyncing
        <4> QED BY <2>1, <4>1
      <3> QED BY <3>1, <3>2
    <2>3. \A a \in Aggregates : Tracked(a)' => Tracked(a) \/ a \in worker'[w].clean
      BY <1>1 DEF Tracked
    <2>4. CleanInv'
      BY <1>1, <1>3, <2>2 DEF StoreInv, CleanInv
    <2>5. CarriesRow'
      BY <1>1, <1>3, <2>2, <2>3 DEF StoreInv, CarriesRow
    <2>6. ReadsRow'
      <3> SUFFICES ASSUME NEW a \in Aggregates, Tracked(a)', NEW v \in Workers,
                          Resyncing(v)', a <= Len(worker'[v].read)
                   PROVE  worker'[v].read[a] = rows[a]
        BY <1>1 DEF ReadsRow
      <3>1. v # w
        BY <2>1 DEF Aggregates
      <3>2. Resyncing(v) /\ worker'[v] = worker[v]
        BY <1>1, <3>1 DEF Resyncing
      <3> QED BY <2>2, <2>3, <3>1, <3>2 DEF StoreInv, ReadsRow
    <2>7. SeesStore'
      <3> SUFFICES ASSUME NEW a \in Aggregates, Tracked(a)', NEW v \in Workers,
                          worker'[v].stage = "listed"
                   PROVE  /\ rows[a] \cap worker'[v].observed \subseteq store
                          /\ (store \cap Candidates(a)) \ rows[a] \subseteq worker'[v].observed
        BY <1>1 DEF SeesStore
      <3>1. v # w
        BY <2>1
      <3>2. Resyncing(v) /\ worker'[v] = worker[v]
        BY <1>1, <3>1 DEF Resyncing
      <3> QED BY <2>2, <2>3, <3>1, <3>2 DEF StoreInv, SeesStore
    <2> QED BY <1>4, <1>7, <2>4, <2>5, <2>6, <2>7 DEF StoreInv
  <1>6. ASSUME ReadTable(w) \/ ListTuples(w)
        PROVE  StoreInv'
    <2>1. worker'[w].clean = worker[w].clean /\ Resyncing(w)
      BY <1>1, <1>6 DEF ReadTable, ListTuples, TypeInv, SyncTypeOK, WorkerState, Resyncing
    <2>2. \A a \in Aggregates : Tracked(a)' => Tracked(a)
      BY <1>1, <2>1 DEF Tracked
    <2>3. CleanInv' /\ CarriesRow'
      BY <1>1, <1>3, <2>1, <2>2 DEF StoreInv, CleanInv, CarriesRow
    <2>4. ASSUME NEW a \in Aggregates, Tracked(a), a <= Len(worker'[w].read)
          PROVE  worker'[w].read[a] = rows[a]
      <3>1. CASE ReadTable(w)
        <4>1. /\ worker'[w].read = Append(worker[w].read, rows[Len(worker[w].read) + 1])
              /\ worker[w].read \in Seq(SUBSET Storable)
          BY <1>1, <3>1 DEF ReadTable, TypeInv, SyncTypeOK, WorkerState
        <4>2. CASE a <= Len(worker[w].read)
          BY <2>1, <2>4, <4>1, <4>2 DEF StoreInv, ReadsRow, Aggregates
        <4>3. CASE a = Len(worker[w].read) + 1
          BY <4>1, <4>3
        <4> QED BY <2>4, <4>1, <4>2, <4>3, SyncAssumption DEF Aggregates
      <3>2. CASE ListTuples(w)
        <4>1. worker'[w].read = worker[w].read
          BY <1>1, <3>2 DEF ListTuples, TypeInv, SyncTypeOK, WorkerState
        <4> QED BY <2>1, <2>4, <4>1 DEF StoreInv, ReadsRow
      <3> QED BY <1>6, <3>1, <3>2
    <2>5. ReadsRow'
      <3> SUFFICES ASSUME NEW a \in Aggregates, Tracked(a), NEW v \in Workers,
                          Resyncing(v)', a <= Len(worker'[v].read)
                   PROVE  worker'[v].read[a] = rows[a]
        BY <1>1, <2>2 DEF ReadsRow
      <3>1. CASE v = w
        BY <2>4, <3>1
      <3>2. CASE v # w
        BY <1>1, <3>2 DEF StoreInv, ReadsRow, Resyncing
      <3> QED BY <3>1, <3>2
    <2>6. SeesStore'
      <3> SUFFICES ASSUME NEW a \in Aggregates, Tracked(a), NEW v \in Workers,
                          worker'[v].stage = "listed"
                   PROVE  /\ rows[a] \cap worker'[v].observed \subseteq store
                          /\ (store \cap Candidates(a)) \ rows[a] \subseteq worker'[v].observed
        BY <1>1, <2>2 DEF SeesStore
      <3>1. CASE v = w
        <4>1. ReadTable(w) => worker'[w].stage = "reading"
          BY <1>1 DEF ReadTable, TypeInv, SyncTypeOK, WorkerState
        <4>2. ListTuples(w) => worker'[w].observed = store
          BY <1>1 DEF ListTuples, TypeInv, SyncTypeOK, WorkerState
        <4> QED BY <1>6, <3>1, <4>1, <4>2
      <3>2. CASE v # w
        BY <1>1, <3>2 DEF StoreInv, SeesStore
      <3> QED BY <3>1, <3>2
    <2> QED BY <1>4, <1>7, <2>3, <2>5, <2>6 DEF StoreInv
  <1> QED BY <1>5, <1>6

LEMMA StepKeepsStore ==
    ASSUME TypeInv, FootInv, StoreInv, [SyncNext]_syncVars
    PROVE  StoreInv'
  <1>1. CASE SyncNext
    <2>1. ASSUME NEW a \in Aggregates, NEW tuples \in Standing(a),
                 Write(a, tuples) \/ WriteSilently(a, tuples)
          PROVE  StoreInv'
      BY <2>1, WriteKeepsStore, WriteSilentlyKeepsStore
    <2>2. CASE RequestResync
      BY <2>2, RequestKeepsStore
    <2>3. ASSUME NEW w \in Workers, WorkerStep(w) \/ WorkerFault(w)
          PROVE  StoreInv'
      BY <2>3, ClaimKeepsStore, MarkKeepsStore, GiveUpKeepsStore, ApplyKeepsStore,
         ResyncKeepsStore, ReadingKeepsStore DEF WorkerStep, WorkerFault
    <2>4. CASE Deciding
      <3>1. UNCHANGED <<rows, store, outbox, worker, astray>>
        BY <2>4, DecisionTypes
      <3> QED BY <3>1 DEF StoreInv, ListedAll, RowTuples, Right, CleanInv, CarriesRow, ReadsRow, SeesStore, AppliedInv,
                          ConvergedUnlessAstray, Tracked, Resyncing, Outstanding, Unsent
    <2> QED BY <1>1, <2>1, <2>2, <2>3, <2>4 DEF SyncNext, Deciding
  <1>2. CASE UNCHANGED syncVars
    BY <1>2 DEF syncVars, StoreInv, ListedAll, RowTuples, Right, CleanInv, CarriesRow, ReadsRow, SeesStore, AppliedInv,
                ConvergedUnlessAstray, Tracked, Resyncing, Outstanding, Unsent
  <1> QED BY <1>1, <1>2

LEMMA InitStore == SyncInit => FootInv /\ StoreInv
  <1> SUFFICES ASSUME SyncInit PROVE FootInv /\ StoreInv
    OBVIOUS
  <1>4. FootInv
    <2>1. \A w \in Workers : worker[w].read = <<>>
      BY RestingType DEF SyncInit
    <2>2. \A e \in Events : outbox[e].on = All
      BY DEF SyncInit
    <2> QED BY <2>1, <2>2, StandingFoot, SyncAssumption DEF SyncInit, FootInv, Aggregates
  <1>1. /\ \A w \in Workers : worker[w] = Resting
        /\ \A e \in Events : outbox[e].status = "none"
        /\ store = {} /\ astray = {a \in Aggregates : rows[a] # {}}
    BY DEF SyncInit
  <1>2. \A w \in Workers :
            worker[w].batch = {} /\ worker[w].clean = {} /\ worker[w].stage = "next"
    BY <1>1, RestingType
  <1>3. \A e \in Events : ~Outstanding(e)
    BY <1>1, <1>2 DEF Outstanding, Unsent
  <1> QED BY <1>1, <1>2, <1>3, <1>4 DEF StoreInv, CleanInv, CarriesRow, ReadsRow, SeesStore,
                                  AppliedInv, ListedAll, ConvergedUnlessAstray, Right,
                                  Resyncing

-----------------------------------------------------------------------------
(* Theorems.                                                               *)

(* Every reachable state of the tables, the outbox, the store and the cache *)
(* is well typed; a failed event always has a time to be retried at.        *)
THEOREM SyncTypeCorrect == SyncSpec => []SyncTypeOK
  <1>1. SyncInit => TypeInv
    BY InitTypes
  <1>2. TypeInv /\ [SyncNext]_syncVars => TypeInv'
    BY StepTypes
  <1>3. TypeInv => SyncTypeOK
    BY DEF TypeInv
  <1> QED BY <1>1, <1>2, <1>3, PTL DEF SyncSpec

LEMMA SyncInvariant == SyncSpec => []SyncInv
  <1>1. SyncInit => SyncInv
    BY InitTypes, InitStore DEF SyncInv
  <1>2. SyncInv /\ [SyncNext]_syncVars => SyncInv'
    BY StepTypes, FootKept, StepKeepsStore DEF SyncInv
  <1> QED BY <1>1, <1>2, PTL DEF SyncSpec

(* When every event of an aggregate is marked sent and no worker holds one, *)
(* the store is right about its row, unless the aggregate is astray: for    *)
(* any number of workers, retries, ended leases and resyncs, and any other  *)
(* rows that share its channel#guild tuple.                                 *)
THEOREM SyncConverges == SyncSpec => []ConvergedUnlessAstray
  <1>1. SyncInv => ConvergedUnlessAstray
    BY DEF SyncInv, StoreInv
  <1> QED BY <1>1, SyncInvariant, PTL

(* A full resync that nobody disturbed leaves exactly the tuples of the     *)
(* rows, whatever had become of the store before.                           *)
THEOREM UndisturbedResyncRepairs == SyncSpec => ResyncRepairs
  <1>1. ASSUME SyncInv, NEW w \in Workers, ApplyResync(w), worker[w].clean = Aggregates
        PROVE  store' = UNION {rows[a] : a \in Aggregates}
    BY <1>1, ResyncedIsRows DEF ApplyResync, SyncInv, RowTuples
  <1>2. SyncInv /\ [SyncNext]_syncVars =>
            [\A w \in Workers :
                ApplyResync(w) /\ worker[w].clean = Aggregates =>
                    store' = UNION {rows[a] : a \in Aggregates}]_syncVars
    BY <1>1
  <1>3. SyncSpec => [][SyncNext]_syncVars
    BY DEF SyncSpec
  <1> QED BY <1>2, <1>3, SyncInvariant, PTL DEF ResyncRepairs

=============================================================================
