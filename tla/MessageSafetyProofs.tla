------------------------ MODULE MessageSafetyProofs ------------------------
(***************************************************************************)
(* Safety of MessageWrites, for every value of its constants.  The         *)
(* inductive invariant says where identities may be, how far a create has  *)
(* come when its handler is in a phase, and what the holders of a copy of  *)
(* a row know about the stored one.                                        *)
(***************************************************************************)
EXTENDS MessageWritesProofs

Created(r) == phase[r] # "idle" /\ IsCreate(r)

\* i is the identity of a create, of a reservation or of the last message.
Known(i) ==
    \/ \E r \in Requests : Created(r) /\ identity[r] = i
    \/ \E s \in Slots : reservations[s] # None /\ reservations[s].identity = i
    \/ lastMessage = i

\* No id that is handed out from now on is m.
Issued(m) == m <= nextMessageId \/ m < bootClock

\* An id is handed out once, so it stands for one created_at wherever it is.
IdentitiesAgree ==
    /\ \A i, j \in Identity : Known(i) /\ Known(j) /\ i.id = j.id => i = j
    /\ \A i \in Identity : Known(i) => Issued(i.id)
    /\ \A m \in MessageIds : rows[m] # None => Issued(m)
    /\ \A i \in Identity : Known(i) /\ rows[i.id] # None => rows[i.id].at = i.at

\* m is stored and not newer than the channel's last message.
Done(m) ==
    /\ rows[m] # None
    /\ lastMessage # None
    /\ rows[m].at <= lastMessage.at

Bound(r) ==
    /\ reservations[Slot(r)] # None
    /\ reservations[Slot(r)].identity = identity[r]

HasOrigin(m) ==
    \/ \E s \in Slots : reservations[s] # None /\ reservations[s].identity.id = m
    \/ \E r \in Requests : Created(r) /\ ~IsKeyed(r) /\ identity[r].id = m

\* How far the create of handler r has come.
ProgressOK(r) ==
    /\ phase[r] \in {"upsert", "complete"} => rows[identity[r].id] # None
    /\ Created(r) /\ phase[r] \in {"complete"} \cup Acknowledged => Done(identity[r].id)
    /\ InFlight(r, "complete") => Done(identity[r].id)
    /\ phase[r] \in (CreatePhases \ {"reserve"}) \cup Acknowledged /\ IsKeyed(r) => Bound(r)
    /\ \A w \in Writes \ {"reserve"} : InFlight(r, w) /\ IsKeyed(r) => Bound(r)

CompletedIsDone(s) ==
    reservations[s] # None /\ reservations[s].state = "completed"
    => Done(reservations[s].identity.id)

ProgressInv ==
    /\ \A r \in Requests : ProgressOK(r)
    /\ \A s \in Slots : CompletedIsDone(s)
    /\ \A m \in MessageIds : rows[m] # None => HasOrigin(m)

\* The stored message m is v or a later version of it.
Superseded(m, v) ==
    /\ rows[m] # None
    /\ rows[m].version > v.version \/ rows[m] = v

\* A create that read v, or an edit or delete whose conditional update was
\* applied, took v for the stored message m.
Holds(r, m, v) ==
    /\ \/ phase[r] \in {"upsert", "complete", "publishing"}
       \/ phase[r] = "acked" /\ ~IsCreate(r)
    /\ identity[r].id = m
    /\ snapshot[r] = v

Witnessed(m, v) ==
    \/ \E f \in published : f.id = m /\ f.message = v
    \/ \E r \in Requests : Holds(r, m, v)

\* An edit or delete was built on a version that was stored and live.
BuiltOn(r, base) ==
    /\ Superseded(identity[r].id, base)
    /\ base.version = command[r].expected
    /\ ~base.deleted
    /\ snapshot[r] = [base EXCEPT !.content = command[r].content,
                                  !.version = base.version + 1,
                                  !.deleted = (command[r].op = "delete")]

VersionInv ==
    /\ \A m \in MessageIds, v \in Row : Witnessed(m, v) => Superseded(m, v)
    /\ \A m \in MessageIds, v, w \in Row :
          Witnessed(m, v) /\ Witnessed(m, w) /\ v.version = w.version => v = w
    /\ \A r \in Requests :
          phase[r] = "update" \/ InFlight(r, "update") => \E base \in Row : BuiltOn(r, base)
    /\ \A f \in published : f.kind = "created" => Done(f.id)
    /\ NoLostUpdate

SafetyInv == TypeInv /\ IdentitiesAgree /\ ProgressInv /\ VersionInv

-----------------------------------------------------------------------------
(* What one statement does to the stores.                                   *)

LEMMA NoneIsNoValue ==
    /\ \A v \in Row : v # None
    /\ \A v \in Reservation : v # None
    /\ \A v \in Identity : v # None
  BY SentinelAssumption

LEMMA IdentityType ==
    ASSUME NEW i \in Identity
    PROVE  i.id \in MessageIds /\ i.id \in Nat /\ i.at \in Times /\ i.at \in Nat
  <1>1. i.id \in 1..MaxId /\ i.at \in Times
    BY DEF Identity, MessageIds
  <1>2. i.id \in Nat
    BY <1>1
  <1>3. i.at \in Nat
    BY <1>1, TimesAreNat
  <1> QED
    BY <1>1, <1>2, <1>3 DEF MessageIds

LEMMA RowType ==
    ASSUME NEW v \in Row
    PROVE  v.at \in Times /\ v.at \in Nat /\ v.version \in Nat
  <1>1. v.at \in Times /\ v.version \in Nat
    BY DEF Row
  <1> QED
    BY <1>1, TimesAreNat

NewReservation(r) ==
    [fingerprint |-> command[r].content, state |-> "reserved", identity |-> identity[r]]

LEMMA ReserveEffect ==
    ASSUME StoresOK, NEW r \in Requests, command[r] \in Commands, IsKeyed(r),
           identity[r] \in Identity, ReserveKey(r)
    PROVE  /\ rows' = rows /\ lastMessage' = lastMessage
           /\ reservations'[Slot(r)] \in Reservation
           /\ reservations'[Slot(r)] # None
           /\ \A s \in Slots :
                 \/ reservations'[s] = reservations[s]
                 \/ reservations[s] = None /\ reservations'[s] = NewReservation(r)
  BY ReservedType, SlotType, SentinelAssumption DEF StoresOK, ReserveKey, NewReservation

LEMMA InsertEffect ==
    ASSUME StoresOK, NEW r \in Requests, command[r] \in Commands, IsCreate(r),
           identity[r] \in Identity, InsertIfNotExists(r)
    PROVE  /\ reservations' = reservations /\ lastMessage' = lastMessage
           /\ rows'[identity[r].id] # None
           /\ \A m \in MessageIds :
                 \/ rows'[m] = rows[m]
                 \/ /\ m = identity[r].id /\ rows[m] = None
                    /\ rows'[m] = FirstVersion(r, identity[r])
  <1>1. identity[r].id \in MessageIds
    BY DEF Identity
  <1>2. FirstVersion(r, identity[r]) # None
    BY FirstVersionType, SentinelAssumption
  <1> QED
    BY <1>1, <1>2 DEF StoresOK, InsertIfNotExists

LEMMA UpsertEffect ==
    ASSUME StoresOK, NEW r \in Requests, identity[r] \in Identity, UpsertLastMessage(r)
    PROVE  /\ reservations' = reservations /\ rows' = rows
           /\ lastMessage' # None /\ lastMessage' \in {lastMessage, identity[r]}
           /\ lastMessage # None => lastMessage.at <= lastMessage'.at
           /\ identity[r].at <= lastMessage'.at
  <1>1. identity[r].at \in Nat
    BY IdentityType
  <1>2. lastMessage # None => lastMessage.at \in Nat /\ lastMessage.id \in Nat
    BY IdentityType DEF StoresOK
  <1>3. identity[r] # None
    BY NoneIsNoValue
  <1>4. CASE lastMessage = None \/ Earlier(lastMessage, identity[r])
    BY <1>1, <1>2, <1>3, <1>4 DEF UpsertLastMessage, Earlier
  <1>5. CASE lastMessage # None /\ ~Earlier(lastMessage, identity[r])
    <2>1. identity[r].at <= lastMessage.at
      BY <1>1, <1>2, <1>5 DEF Earlier
    <2> QED
      BY <1>2, <1>5, <2>1 DEF UpsertLastMessage
  <1> QED
    BY <1>4, <1>5

LEMMA CompleteEffect ==
    ASSUME StoresOK, NEW r \in Requests, CompleteKey(r)
    PROVE  /\ rows' = rows /\ lastMessage' = lastMessage
           /\ \A s \in Slots :
                 \/ reservations'[s] = reservations[s]
                 \/ /\ s = Slot(r) /\ reservations[s] # None /\ reservations'[s] # None
                    /\ reservations'[s].identity = reservations[s].identity
  <1>1. ASSUME NEW s \in Slots, reservations[s] # None
        PROVE  /\ [reservations[s] EXCEPT !.state = "completed"] # None
               /\ [reservations[s] EXCEPT !.state = "completed"].identity
                    = reservations[s].identity
    <2>1. reservations[s] \in Reservation
      BY <1>1 DEF StoresOK
    <2>2. [reservations[s] EXCEPT !.state = "completed"] \in Reservation
      BY <2>1 DEF Reservation
    <2> QED
      BY <2>1, <2>2, SentinelAssumption DEF Reservation
  <1> QED
    BY <1>1 DEF StoresOK, CompleteKey

LEMMA BuiltOnRow ==
    ASSUME NEW r \in Requests, command[r] \in Commands, NEW base \in Row, BuiltOn(r, base)
    PROVE  /\ snapshot[r].at = base.at
           /\ snapshot[r].author = base.author
           /\ snapshot[r].version = base.version + 1
           /\ snapshot[r].content = command[r].content
  BY DEF BuiltOn, Row

LEMMA UpdateEffect ==
    ASSUME StoresOK, NEW r \in Requests, command[r] \in Commands, identity[r] \in Identity,
           snapshot[r] \in Row, NEW base \in Row, BuiltOn(r, base), UpdateIfVersion(r)
    PROVE  /\ reservations' = reservations /\ lastMessage' = lastMessage
           /\ \A m \in MessageIds :
                 \/ rows'[m] = rows[m]
                 \/ m = identity[r].id /\ rows[m] = base /\ rows'[m] = snapshot[r]
           /\ rows[identity[r].id].version = command[r].expected =>
                 rows[identity[r].id] = base /\ rows'[identity[r].id] = snapshot[r]
  <1>1. identity[r].id \in MessageIds
    BY DEF Identity
  <1>2. rows[identity[r].id] # None /\ rows[identity[r].id] \in Row
    BY <1>1 DEF StoresOK, BuiltOn, Superseded
  <1>3. rows[identity[r].id].version = command[r].expected => rows[identity[r].id] = base
    BY <1>2 DEF BuiltOn, Superseded, Row
  <1> QED
    BY <1>1, <1>2, <1>3 DEF StoresOK, UpdateIfVersion

-----------------------------------------------------------------------------
(* What any step does to the stores.                                        *)

Sends(r, w) == w \in Unanswered(phase[r]) \/ InFlight(r, w)

\* Whoever applies a statement, its sender still stands for what it wrote.
LEMMA SenderFacts ==
    ASSUME SafetyInv, NEW r \in Requests, NEW w \in Writes, Sends(r, w)
    PROVE  /\ command[r] \in Commands /\ identity[r] \in Identity
           /\ w # "update" => Created(r)
           /\ w \in {"reserve", "complete"} => IsKeyed(r)
           /\ w # "reserve" /\ IsKeyed(r) => Bound(r)
           /\ w = "complete" => Done(identity[r].id)
           /\ w = "update" => snapshot[r] \in Row /\ \E base \in Row : BuiltOn(r, base)
  <1>1. phase[r] # "idle"
    BY DEF SafetyInv, TypeInv, FlightOK, Sends, Unanswered, Writes
  <1>2. command[r] \in Commands
    BY <1>1 DEF SafetyInv, TypeInv, HandlerOK
  <1>3. w # "update" => Created(r)
    BY <1>1 DEF SafetyInv, TypeInv, HandlerOK, FlightOK, Sends, Unanswered, Writes,
       CreatePhases, Created
  <1>4. identity[r] \in Identity
    BY <1>1, <1>3 DEF SafetyInv, TypeInv, HandlerOK, FlightOK, Sends, Unanswered, Writes, Created
  <1>5. w \in {"reserve", "complete"} => IsKeyed(r)
    BY DEF SafetyInv, TypeInv, HandlerOK, FlightOK, Sends, Unanswered, Writes
  <1>6. w # "reserve" /\ IsKeyed(r) => Bound(r)
    BY DEF SafetyInv, TypeInv, HandlerOK, FlightOK, ProgressInv, ProgressOK, Sends,
       Unanswered, Writes, CreatePhases, UpdatePhases, IsKeyed
  <1>7. w = "complete" => Done(identity[r].id)
    BY <1>3 DEF SafetyInv, ProgressInv, ProgressOK, Sends, Unanswered, Writes
  <1>8. w = "update" => snapshot[r] \in Row /\ \E base \in Row : BuiltOn(r, base)
    BY DEF SafetyInv, TypeInv, HandlerOK, FlightOK, VersionInv, Sends, Unanswered, Writes
  <1> QED
    BY <1>2, <1>3, <1>4, <1>5, <1>6, <1>7, <1>8

\* The stores only grow: reservations keep their identity, rows their
\* created_at, and versions and the last message never go back.
StoresGrow ==
    /\ \A s \in Slots : reservations[s] # None =>
          /\ reservations'[s] # None
          /\ reservations'[s].identity = reservations[s].identity
    /\ \A m \in MessageIds : rows[m] # None =>
          /\ rows'[m] # None
          /\ rows'[m].at = rows[m].at
          /\ rows'[m] = rows[m] \/ rows'[m].version > rows[m].version
    /\ lastMessage # None => lastMessage' # None /\ lastMessage.at <= lastMessage'.at

\* What is new in a store was proposed by a create, and a reservation is
\* completed only when its message is done.
StoresFromCreates ==
    /\ \A m \in MessageIds : rows[m] = None /\ rows'[m] # None =>
          \E r \in Requests : /\ Created(r)
                              /\ identity[r].id = m
                              /\ rows'[m].at = identity[r].at
                              /\ IsKeyed(r) => Bound(r)
    /\ \A s \in Slots : reservations[s] = None /\ reservations'[s] # None =>
          /\ reservations'[s].state = "reserved"
          /\ \E r \in Requests : Created(r) /\ reservations'[s].identity = identity[r]
    /\ \A s \in Slots :
          reservations[s] # None /\ reservations'[s].state = "completed"
          => Done(reservations[s].identity.id)
    /\ \/ lastMessage' = lastMessage
       \/ \E r \in Requests : Created(r) /\ lastMessage' = identity[r]

LEMMA SameStores ==
    ASSUME SafetyInv, UNCHANGED stores
    PROVE  StoresGrow /\ StoresFromCreates
  <1>1. lastMessage # None => lastMessage.at \in Nat
    BY IdentityType DEF SafetyInv, TypeInv, TypeOK
  <1> QED
    BY <1>1 DEF StoresGrow, StoresFromCreates, stores, SafetyInv, ProgressInv, CompletedIsDone

LEMMA WriteGrows ==
    ASSUME SafetyInv, NEW r \in Requests, NEW w \in Writes, Sends(r, w), Write(r, w)
    PROVE  StoresGrow /\ StoresFromCreates
  <1>1. /\ command[r] \in Commands /\ identity[r] \in Identity /\ StoresOK
        /\ identity[r].id \in MessageIds
    BY SenderFacts, IdentityType DEF SafetyInv, TypeInv, TypeOK, StoresOK
  <1>2. lastMessage # None => lastMessage.at \in Nat
    BY <1>1, IdentityType DEF StoresOK
  <1>3. \A s \in Slots : CompletedIsDone(s)
    BY DEF SafetyInv, ProgressInv
  <1>4. CASE w = "reserve"
    <2>1. IsKeyed(r) /\ Created(r) /\ ReserveKey(r)
      BY <1>4, SenderFacts DEF Write
    <2>2. /\ NewReservation(r).state = "reserved"
          /\ NewReservation(r).identity = identity[r]
      BY DEF NewReservation
    <2> QED
      BY <1>1, <1>2, <1>3, <2>1, <2>2, ReserveEffect
      DEF StoresGrow, StoresFromCreates, CompletedIsDone
  <1>5. CASE w = "insert"
    <2>1. Created(r) /\ IsCreate(r) /\ InsertIfNotExists(r) /\ (IsKeyed(r) => Bound(r))
      BY <1>5, SenderFacts DEF Write, Created
    <2>2. FirstVersion(r, identity[r]).at = identity[r].at
      BY DEF FirstVersion
    <2> QED
      BY <1>1, <1>2, <1>3, <2>1, <2>2, InsertEffect
      DEF StoresGrow, StoresFromCreates, CompletedIsDone
  <1>6. CASE w = "upsert"
    <2>1. Created(r) /\ UpsertLastMessage(r)
      BY <1>6, SenderFacts DEF Write
    <2> QED
      BY <1>1, <1>2, <1>3, <2>1, UpsertEffect
      DEF StoresGrow, StoresFromCreates, CompletedIsDone
  <1>7. CASE w = "complete"
    <2>1. CompleteKey(r) /\ Bound(r) /\ Done(identity[r].id)
      BY <1>7, SenderFacts DEF Write
    <2> QED
      BY <1>1, <1>2, <1>3, <2>1, CompleteEffect
      DEF StoresGrow, StoresFromCreates, CompletedIsDone, Bound
  <1>8. CASE w = "update"
    <2>1. UpdateIfVersion(r) /\ snapshot[r] \in Row
      BY <1>8, SenderFacts DEF Write
    <2>2. PICK base \in Row : BuiltOn(r, base)
      BY <1>8, SenderFacts
    <2>3. /\ snapshot[r].at = base.at
          /\ snapshot[r].version > base.version
          /\ snapshot[r] # None
      BY <1>1, <2>1, <2>2, BuiltOnRow, NoneIsNoValue DEF Row
    <2>4. /\ reservations' = reservations /\ lastMessage' = lastMessage
          /\ \A m \in MessageIds :
                rows'[m] = rows[m] \/ (rows[m] = base /\ rows'[m] = snapshot[r])
      BY <1>1, <2>1, <2>2, UpdateEffect
    <2>5. base # None
      BY NoneIsNoValue
    <2>6. StoresGrow
      BY <1>2, <2>3, <2>4 DEF StoresGrow
    <2>7. StoresFromCreates
      BY <1>3, <2>4, <2>5 DEF StoresFromCreates, CompletedIsDone
    <2> QED
      BY <2>6, <2>7
  <1> QED
    BY <1>4, <1>5, <1>6, <1>7, <1>8 DEF Writes

\* Every step applies at most one statement, and one that was sent.
LEMMA StepWrites ==
    ASSUME SafetyInv, [Next]_vars
    PROVE  \/ UNCHANGED stores
           \/ \E r \in Requests, w \in Writes : Sends(r, w) /\ Write(r, w)
  <1>1. ASSUME NEW r \in Requests, CreateStep(r)
        PROVE  \/ UNCHANGED stores
               \/ \E w \in Writes : Sends(r, w) /\ Write(r, w)
    BY <1>1 DEF CreateStep, Reserve, ReplayCompleted, PayloadMismatch, Insert, InsertErrors,
       RecheckMissing, SelectStored, UpsertLast, Complete, Sends, Unanswered, Write, Writes
  <1>2. ASSUME NEW r \in Requests, UpdateStep(r)
        PROVE  \/ UNCHANGED stores
               \/ \E w \in Writes : Sends(r, w) /\ Write(r, w)
    BY <1>2 DEF UpdateStep, LoadContext, Find, FindRefuses, Update,
       Sends, Unanswered, Write, Writes
  <1>3. ASSUME NEW r \in Requests, Arrive(r) \/ Publish(r) \/ Abort(r)
        PROVE  UNCHANGED stores
    BY <1>3 DEF Arrive, StartCreate, StartUpdate, Publish, Abort
  <1>4. ASSUME NEW r \in Requests, NEW w \in Writes, Land(r, w)
        PROVE  Sends(r, w) /\ Write(r, w)
    BY <1>4 DEF Land, Sends, InFlight
  <1>5. CASE Restart \/ UNCHANGED vars
    BY <1>5 DEF Restart, vars
  <1> QED
    BY <1>1, <1>2, <1>3, <1>4, <1>5 DEF Next, Serve

LEMMA StepGrows ==
    ASSUME SafetyInv, [Next]_vars
    PROVE  StoresGrow /\ StoresFromCreates
  BY StepWrites, SameStores, WriteGrows

-----------------------------------------------------------------------------
(* Identities.                                                              *)

\* Outside StartCreate a create keeps its identity or takes a reserved one.
IdentitiesStay ==
    \A r \in Requests : Created(r)' =>
        /\ Created(r)
        /\ \/ identity'[r] = identity[r]
           \/ \E s \in Slots : /\ reservations'[s] # None
                               /\ identity'[r] = reservations'[s].identity

LEMMA KnownStays ==
    ASSUME SafetyInv, StoresGrow, StoresFromCreates, IdentitiesStay, NEW i \in Identity, Known(i)'
    PROVE  Known(i)
  <1>1. ASSUME NEW s \in Slots, reservations'[s] # None, reservations'[s].identity = i
        PROVE  Known(i)
    BY <1>1 DEF StoresGrow, StoresFromCreates, Known
  <1>2. ASSUME NEW r \in Requests, Created(r)', identity'[r] = i
        PROVE  Known(i)
    BY <1>1, <1>2 DEF IdentitiesStay, Known
  <1>3. ASSUME lastMessage' = i
        PROVE  Known(i)
    BY <1>3 DEF StoresFromCreates, Known
  <1> QED
    BY <1>1, <1>2, <1>3 DEF Known

LEMMA IssuedStays ==
    ASSUME SafetyInv, [Next]_vars, NEW m \in MessageIds, Issued(m)
    PROVE  Issued(m)'
  <1>0. /\ nextMessageId \in Nat /\ bootClock \in Nat /\ m \in Nat
    BY BoundAssumption DEF SafetyInv, TypeInv, TypeOK, MessageIds
  <1>1. ASSUME NEW r \in Requests, NEW c \in Commands, StartCreate(r, c)
        PROVE  Issued(m)'
    <2>1. PICK now \in bootClock..MaxClock :
             nextMessageId' = IF now > nextMessageId THEN now ELSE nextMessageId + 1
      BY <1>1 DEF StartCreate
    <2>2. nextMessageId' \in Nat /\ nextMessageId <= nextMessageId' /\ bootClock' = bootClock
      BY <1>0, <1>1, <2>1, BoundAssumption DEF StartCreate
    <2> QED
      BY <1>0, <2>2 DEF Issued
  <1>2. CASE Restart
    <2>1. bootClock' \in Nat /\ bootClock' > bootClock /\ bootClock' > nextMessageId
      BY <1>2, BoundAssumption DEF Restart
    <2> QED
      BY <1>0, <2>1 DEF Issued
  <1>3. CASE UNCHANGED process
    BY <1>3 DEF process, Issued
  <1>4. ASSUME NEW r \in Requests, CreateStep(r) \/ UpdateStep(r) \/ Publish(r) \/ Abort(r)
        PROVE  UNCHANGED process
    BY <1>4 DEF CreateStep, UpdateStep, Reserve, ReplayCompleted, PayloadMismatch, Insert,
       InsertErrors, RecheckMissing, SelectStored, UpsertLast, Complete, LoadContext, Find,
       FindRefuses, Update, Publish, Abort
  <1>5. ASSUME NEW r \in Requests, NEW w \in Writes, Land(r, w)
        PROVE  UNCHANGED process
    BY <1>5 DEF Land
  <1>6. ASSUME NEW r \in Requests, NEW c \in Commands, StartUpdate(r, c)
        PROVE  UNCHANGED process
    BY <1>6 DEF StartUpdate
  <1>7. UNCHANGED vars => UNCHANGED process
    BY DEF vars
  <1> QED
    BY <1>1, <1>2, <1>3, <1>4, <1>5, <1>6, <1>7 DEF Next, Serve, Arrive

LEMMA IdentitiesStayStep ==
    ASSUME SafetyInv, [Next]_vars,
           ~\E r \in Requests, c \in Commands : StartCreate(r, c)
    PROVE  IdentitiesStay
  <1> SUFFICES ASSUME NEW q \in Requests, Created(q)'
               PROVE  /\ Created(q)
                      /\ \/ identity'[q] = identity[q]
                         \/ \E s \in Slots : /\ reservations'[s] # None
                                             /\ identity'[q] = reservations'[s].identity
    BY DEF IdentitiesStay
  <1>1. ASSUME NEW r \in Requests, NEW c \in Commands, StartUpdate(r, c)
        PROVE  Created(q) /\ identity'[q] = identity[q]
    BY <1>1 DEF StartUpdate, GoTo, Created, IsCreate, SafetyInv, TypeInv, TypeOK
  <1>2. ASSUME NEW r \in Requests, Reserve(r)
        PROVE  /\ Created(q)
               /\ \/ identity'[q] = identity[q]
                  \/ \E s \in Slots : /\ reservations'[s] # None
                                      /\ identity'[q] = reservations'[s].identity
    <2>1. command[r] \in Commands /\ IsKeyed(r) /\ Created(r) /\ identity[r] \in Identity
      BY <1>2 DEF Reserve, SafetyInv, TypeInv, HandlerOK, CreatePhases, Created
    <2>2. Slot(r) \in Slots /\ reservations'[Slot(r)] # None
      BY <1>2, <2>1, SlotType, ReserveEffect DEF Reserve, SafetyInv, TypeInv, TypeOK, StoresOK
    <2> QED
      BY <1>2, <2>1, <2>2 DEF Reserve, GoTo, Created, IsCreate, SafetyInv, TypeInv, TypeOK
  <1>3. ASSUME NEW r \in Requests, ReplayCompleted(r)
        PROVE  /\ Created(q)
               /\ \/ identity'[q] = identity[q]
                  \/ \E s \in Slots : /\ reservations'[s] # None
                                      /\ identity'[q] = reservations'[s].identity
    <2>1. command[r] \in Commands /\ IsKeyed(r) /\ Created(r)
      BY <1>3 DEF ReplayCompleted, SafetyInv, TypeInv, HandlerOK, CreatePhases, Created
    <2>2. Slot(r) \in Slots /\ reservations'[Slot(r)] # None
      BY <1>3, <2>1, SlotType DEF ReplayCompleted, stores
    <2> QED
      BY <1>3, <2>1, <2>2
      DEF ReplayCompleted, stores, GoTo, Created, IsCreate, SafetyInv, TypeInv, TypeOK
  <1>4. ASSUME NEW r \in Requests,
               \/ PayloadMismatch(r) \/ Insert(r) \/ InsertErrors(r) \/ RecheckMissing(r)
               \/ SelectStored(r) \/ UpsertLast(r) \/ Complete(r) \/ LoadContext(r)
               \/ FindRefuses(r) \/ Update(r) \/ Publish(r) \/ Abort(r)
        PROVE  Created(q) /\ identity'[q] = identity[q]
    BY <1>4 DEF PayloadMismatch, Insert, InsertErrors, RecheckMissing, SelectStored, UpsertLast,
       Complete, LoadContext, FindRefuses, Update, Publish, Abort, Active, GoTo, Created,
       IsCreate, SafetyInv, TypeInv, TypeOK
  <1>5. ASSUME NEW r \in Requests, Find(r)
        PROVE  Created(q) /\ identity'[q] = identity[q]
    BY <1>5 DEF Find, GoTo, Created, IsCreate, UpdatePhases, SafetyInv, TypeInv, TypeOK, HandlerOK
  <1>6. ASSUME NEW r \in Requests, NEW w \in Writes, Land(r, w)
        PROVE  Created(q) /\ identity'[q] = identity[q]
    BY <1>6 DEF Land, handlers, Created, IsCreate
  <1>7. CASE Restart
    BY <1>7 DEF Restart, Active, Created, IsCreate, SafetyInv, TypeInv, TypeOK
  <1>8. CASE UNCHANGED vars
    BY <1>8 DEF vars, handlers, Created, IsCreate
  <1> QED
    BY <1>1, <1>2, <1>3, <1>4, <1>5, <1>6, <1>7, <1>8 DEF Next, Serve, Arrive, CreateStep, UpdateStep

LEMMA IdentitiesAgreeStep ==
    ASSUME SafetyInv, [Next]_vars
    PROVE  IdentitiesAgree'
  <1>1. StoresGrow /\ StoresFromCreates
    BY StepGrows
  <1>2. \A m \in MessageIds : Issued(m) => Issued(m)'
    BY IssuedStays
  <1>3. \A m \in MessageIds : rows[m] # None => Issued(m)
    BY DEF SafetyInv, IdentitiesAgree
  <1>4. \A i \in Identity : i.id \in MessageIds
    BY IdentityType
  <1>5. \A r \in Requests : Created(r) => identity[r] \in Identity /\ Known(identity[r])
    BY DEF SafetyInv, TypeInv, HandlerOK, Created, Known
  <1>6. \A m \in MessageIds : rows'[m] # None => Issued(m)'
    BY <1>1, <1>2, <1>3, <1>5 DEF StoresFromCreates, SafetyInv, IdentitiesAgree
  <1>7. \A i \in Identity : Known(i) /\ rows'[i.id] # None => rows'[i.id].at = i.at
    <2> TAKE i \in Identity
    <2>1. CASE rows[i.id] # None
      BY <1>1, <1>4, <2>1 DEF StoresGrow, SafetyInv, IdentitiesAgree
    <2>2. CASE rows[i.id] = None
      BY <1>1, <1>4, <1>5, <2>2 DEF StoresFromCreates, SafetyInv, IdentitiesAgree
    <2> QED
      BY <2>1, <2>2
  <1>8. CASE ~\E r \in Requests, c \in Commands : StartCreate(r, c)
    <2>1. \A i \in Identity : Known(i)' => Known(i)
      BY <1>1, <1>8, IdentitiesStayStep, KnownStays
    <2> QED
      BY <1>2, <1>4, <1>6, <1>7, <2>1 DEF SafetyInv, IdentitiesAgree
  <1>9. ASSUME NEW r \in Requests, NEW c \in Commands, StartCreate(r, c)
        PROVE  IdentitiesAgree'
    <2>1. PICK now \in bootClock..MaxClock :
             LET id == IF now > nextMessageId THEN now ELSE nextMessageId + 1 IN
             /\ id <= MaxId
             /\ nextMessageId' = id
             /\ identity' = [identity EXCEPT ![r] = [id |-> id, at |-> CreatedAt(now)]]
      BY <1>9 DEF StartCreate
    <2>2. nextMessageId' \in Nat /\ nextMessageId' > nextMessageId /\ nextMessageId' >= bootClock
      BY <2>1, BoundAssumption DEF SafetyInv, TypeInv, TypeOK
    <2>3. PICK new : new = [id |-> nextMessageId', at |-> CreatedAt(now)]
      OBVIOUS
    <2>4. /\ new.id = nextMessageId'
          /\ identity'[r] = new
          /\ \A q \in Requests \ {r} : identity'[q] = identity[q]
      BY <2>1, <2>3 DEF SafetyInv, TypeInv, TypeOK
    <2>5. ~Issued(new.id)
      BY <2>2, <2>4, BoundAssumption DEF Issued, SafetyInv, TypeInv, TypeOK
    <2>6. Issued(new.id)'
      BY <2>2, <2>4 DEF Issued
    <2>7. /\ reservations' = reservations /\ rows' = rows /\ lastMessage' = lastMessage
          /\ \A q \in Requests \ {r} : Created(q)' <=> Created(q)
      BY <1>9 DEF StartCreate, stores, GoTo, Created, IsCreate, SafetyInv, TypeInv, TypeOK
    <2>8. \A i \in Identity : Known(i)' => Known(i) \/ i = new
      BY <2>4, <2>7 DEF Known
    <2>9. \A i \in Identity : Known(i) => i.id # new.id
      BY <2>5 DEF SafetyInv, IdentitiesAgree
    <2>10. \A i, j \in Identity : Known(i)' /\ Known(j)' /\ i.id = j.id => i = j
      BY <2>8, <2>9 DEF SafetyInv, IdentitiesAgree
    <2>11. \A i \in Identity : Known(i)' => Issued(i.id)'
      BY <1>2, <1>4, <2>6, <2>8 DEF SafetyInv, IdentitiesAgree
    <2>12. \A i \in Identity : Known(i)' /\ rows'[i.id] # None => rows'[i.id].at = i.at
      BY <1>3, <1>4, <1>7, <2>5, <2>7, <2>8
    <2> QED
      BY <1>6, <2>10, <2>11, <2>12 DEF IdentitiesAgree
  <1> QED
    BY <1>8, <1>9

-----------------------------------------------------------------------------
(* Progress of creates.                                                     *)

LEMMA DoneStays ==
    ASSUME SafetyInv, TypeOK', StoresGrow, NEW m \in MessageIds, Done(m)
    PROVE  Done(m)'
  <1>1. rows[m] # None /\ rows'[m] # None /\ rows'[m].at = rows[m].at
    BY DEF StoresGrow, Done
  <1>2. rows[m].at \in Nat
    BY <1>1, RowType DEF SafetyInv, TypeInv, TypeOK
  <1>3. lastMessage # None /\ lastMessage' # None /\ lastMessage.at <= lastMessage'.at
    BY DEF StoresGrow, Done
  <1>4. lastMessage.at \in Nat /\ lastMessage'.at \in Nat
    BY <1>3, IdentityType DEF SafetyInv, TypeInv, TypeOK
  <1> QED
    BY <1>1, <1>2, <1>3, <1>4 DEF Done
LEMMA BoundStays ==
    ASSUME SafetyInv, StoresGrow, NEW r \in Requests, phase[r] # "idle", IsKeyed(r), Bound(r),
           command'[r] = command[r], identity'[r] = identity[r]
    PROVE  Bound(r)'
  <1>1. Slot(r) \in Slots
    BY SlotType DEF SafetyInv, TypeInv, HandlerOK
  <1> QED
    BY <1>1 DEF Bound, StoresGrow, Slot

\* The phases in which a keyed create works with the reserved identity.
BoundPhases == {"insert", "recheck", "reinsert", "select", "upsert", "complete",
                "publishing", "acked"}

\* A handler that keeps its command and identity has to justify only the
\* phases upsert, complete and acknowledged.
LEMMA ProgressMove ==
    ASSUME SafetyInv, TypeOK', StoresGrow, NEW r \in Requests,
           command'[r] = command[r], identity'[r] = identity[r],
           phase[r] # "idle",
           \A w \in Writes : InFlight(r, w)' => Sends(r, w),
           IsKeyed(r) /\ phase'[r] \in BoundPhases => phase[r] \in BoundPhases,
           phase'[r] \in {"upsert", "complete"} => rows'[identity[r].id] # None,
           IsCreate(r) /\ phase'[r] \in {"complete", "publishing", "acked"}
             => Done(identity[r].id)'
    PROVE  ProgressOK(r)'
  <1>1. InFlight(r, "complete")' => Done(identity[r].id)'
    <2> SUFFICES ASSUME InFlight(r, "complete")'
                 PROVE  Done(identity[r].id)'
      OBVIOUS
    <2>1. Done(identity[r].id) /\ identity[r].id \in MessageIds
      BY SenderFacts, IdentityType DEF Writes
    <2>2. ASSUME NEW m \in MessageIds, Done(m)
          PROVE  Done(m)'
      BY <2>2, DoneStays
    <2>3. identity'[r].id \in MessageIds /\ Done(identity'[r].id)
      BY <2>1
    <2> QED
      BY <2>2, <2>3 DEF Done
  <1>2. phase'[r] \in BoundPhases /\ IsKeyed(r)' => Bound(r)'
    <2> SUFFICES ASSUME phase'[r] \in BoundPhases, IsKeyed(r)'
                 PROVE  Bound(r)'
      OBVIOUS
    <2>1. IsKeyed(r)
      BY DEF IsKeyed, IsCreate
    <2>2. Bound(r)
      BY <2>1 DEF SafetyInv, ProgressInv, ProgressOK, BoundPhases, CreatePhases, Acknowledged
    <2> QED
      BY <2>1, <2>2, BoundStays
  <1>3. \A w \in Writes \ {"reserve"} : InFlight(r, w)' /\ IsKeyed(r)' => Bound(r)'
    <2> SUFFICES ASSUME NEW w \in Writes \ {"reserve"}, InFlight(r, w)', IsKeyed(r)'
                 PROVE  Bound(r)'
      OBVIOUS
    <2>1. IsKeyed(r)
      BY DEF IsKeyed, IsCreate
    <2> QED
      BY <2>1, SenderFacts, BoundStays
  <1>4. Created(r)' => IsCreate(r)
    BY DEF Created, IsCreate
  <1> QED
    BY <1>1, <1>2, <1>3, <1>4
    DEF ProgressOK, Done, BoundPhases, CreatePhases, Acknowledged

LEMMA ProgressSame ==
    ASSUME SafetyInv, TypeOK', StoresGrow, NEW r \in Requests, Same(r)
    PROVE  ProgressOK(r)'
  <1>1. CASE phase[r] = "idle"
    BY <1>1 DEF Same, ProgressOK, CreatePhases, Acknowledged, Created, SafetyInv, TypeInv,
       FlightOK, Writes
  <1>2. CASE phase[r] # "idle"
    <2>1. \A m \in MessageIds : Done(m) => Done(m)'
      BY DoneStays
    <2>2. phase[r] \in {"upsert", "complete"} =>
             identity[r].id \in MessageIds /\ rows[identity[r].id] # None
      BY IdentityType
      DEF SafetyInv, TypeInv, HandlerOK, CreatePhases, ProgressInv, ProgressOK
    <2>3. phase'[r] \in {"upsert", "complete"} => rows'[identity[r].id] # None
      BY <2>2 DEF Same, StoresGrow
    <2>4. IsCreate(r) /\ phase[r] \in {"complete", "publishing", "acked"} =>
             identity[r].id \in MessageIds /\ Done(identity[r].id)
      BY <1>2, IdentityType DEF SafetyInv, TypeInv, HandlerOK, ProgressInv, ProgressOK, Created,
         Acknowledged
    <2>5. ASSUME NEW m \in MessageIds, m = identity[r].id, Done(m)
          PROVE  Done(identity[r].id)'
      BY <2>1, <2>5 DEF Done, Same
    <2>6. IsCreate(r) /\ phase'[r] \in {"complete", "publishing", "acked"}
             => Done(identity[r].id)'
      BY <2>4, <2>5 DEF Same
    <2> QED
      BY <1>2, <2>3, <2>6, ProgressMove DEF Same, Sends
  <1> QED
    BY <1>1, <1>2
LEMMA ArriveProgress ==
    ASSUME SafetyInv, NEW r \in Requests, NEW c \in Commands,
           StartCreate(r, c) \/ StartUpdate(r, c)
    PROVE  ProgressOK(r)'
  <1>1. \A w \in Writes : ~InFlight(r, w)'
    BY DEF StartCreate, StartUpdate, InFlight, SafetyInv, TypeInv, FlightOK
  <1>2. phase'[r] \in {"insert", "reserve", "load"} /\ (phase'[r] = "insert" => ~IsKeyed(r)')
    BY DEF StartCreate, StartUpdate, GoTo, IsKeyed, IsCreate, SafetyInv, TypeInv, TypeOK
  <1>3. phase'[r] = "load" => ~IsKeyed(r)'
    BY DEF StartCreate, StartUpdate, GoTo, IsKeyed, IsCreate, SafetyInv, TypeInv, TypeOK
  <1> QED
    BY <1>1, <1>2, <1>3 DEF ProgressOK, CreatePhases, Acknowledged, Writes

LEMMA ReserveProgress ==
    ASSUME SafetyInv, TypeOK', StoresGrow, NEW r \in Requests, Reserve(r)
    PROVE  ProgressOK(r)'
  <1>1. /\ command[r] \in Commands /\ IsKeyed(r) /\ IsCreate(r) /\ identity[r] \in Identity
        /\ Slot(r) \in Slots
    BY SlotType DEF Reserve, SafetyInv, TypeInv, HandlerOK, CreatePhases
  <1>2. reservations'[Slot(r)] # None
    BY <1>1, ReserveEffect DEF Reserve, SafetyInv, TypeInv, TypeOK, StoresOK
  <1>3. /\ phase'[r] = "insert"
        /\ identity'[r] = reservations'[Slot(r)].identity
        /\ command' = command /\ inflight' = inflight
    BY DEF Reserve, GoTo, SafetyInv, TypeInv, TypeOK
  <1>4. Bound(r)' /\ IsKeyed(r)'
    BY <1>1, <1>2, <1>3 DEF Bound, Slot, IsKeyed, IsCreate
  <1>5. ~InFlight(r, "complete")'
    BY <1>3 DEF Reserve, InFlight, SafetyInv, TypeInv, FlightOK, Writes
  <1> QED
    BY <1>3, <1>4, <1>5 DEF ProgressOK, CreatePhases, Acknowledged

LEMMA ReplayProgress ==
    ASSUME SafetyInv, TypeOK', StoresGrow, NEW r \in Requests, ReplayCompleted(r)
    PROVE  ProgressOK(r)'
  <1>1. /\ command[r] \in Commands /\ IsKeyed(r) /\ IsCreate(r) /\ Slot(r) \in Slots
    BY SlotType DEF ReplayCompleted, SafetyInv, TypeInv, HandlerOK, CreatePhases
  <1>2. /\ phase'[r] = "acked"
        /\ identity'[r] = reservations[Slot(r)].identity
        /\ reservations[Slot(r)] # None
        /\ reservations' = reservations /\ rows' = rows /\ lastMessage' = lastMessage
        /\ command' = command /\ inflight' = inflight
    BY DEF ReplayCompleted, stores, GoTo, SafetyInv, TypeInv, TypeOK
  <1>3. Done(identity[r].id)'
    BY <1>1, <1>2 DEF ReplayCompleted, Done, SafetyInv, ProgressInv, CompletedIsDone
  <1>4. Bound(r)'
    BY <1>1, <1>2 DEF Bound, Slot
  <1>5. ~InFlight(r, "complete")'
    BY <1>2 DEF ReplayCompleted, InFlight, SafetyInv, TypeInv, FlightOK, Writes
  <1> QED
    BY <1>2, <1>3, <1>4, <1>5 DEF ProgressOK

LEMMA FindProgress ==
    ASSUME SafetyInv, NEW r \in Requests, Find(r)
    PROVE  ProgressOK(r)'
  <1>1. phase'[r] = "update" /\ ~IsCreate(r) /\ ~IsCreate(r)' /\ inflight' = inflight
    BY DEF Find, GoTo, IsCreate, SafetyInv, TypeInv, TypeOK, HandlerOK, UpdatePhases
  <1>2. ~InFlight(r, "complete")'
    BY <1>1 DEF InFlight, SafetyInv, TypeInv, FlightOK, Writes
  <1> QED
    BY <1>1, <1>2 DEF ProgressOK, Created, IsKeyed, CreatePhases, Acknowledged

LEMMA UpsertLastProgress ==
    ASSUME SafetyInv, TypeOK', StoresGrow, NEW r \in Requests, UpsertLast(r)
    PROVE  ProgressOK(r)'
  <1>1. /\ command[r] \in Commands /\ IsCreate(r) /\ Created(r) /\ identity[r] \in Identity
        /\ rows[identity[r].id] # None
    BY DEF UpsertLast, SafetyInv, TypeInv, HandlerOK, CreatePhases, Created, ProgressInv, ProgressOK
  <1>2. identity[r].id \in MessageIds
    BY <1>1, IdentityType
  <1>3. rows[identity[r].id].at = identity[r].at
    BY <1>1 DEF Known, SafetyInv, IdentitiesAgree
  <1>4. rows' = rows /\ lastMessage' # None /\ identity[r].at <= lastMessage'.at
    BY <1>1, UpsertEffect DEF UpsertLast, SafetyInv, TypeInv, TypeOK, StoresOK
  <1>5. /\ phase'[r] \in {"complete", "publishing"}
        /\ identity' = identity /\ command' = command /\ inflight' = inflight
    BY DEF UpsertLast, GoTo, SafetyInv, TypeInv, TypeOK
  <1>6. Done(identity[r].id)'
    BY <1>1, <1>3, <1>4, <1>5 DEF Done
  <1>7. \A w \in Writes : InFlight(r, w)' => Sends(r, w)
    BY <1>5 DEF InFlight, Sends
  <1>8. rows'[identity[r].id] # None
    BY <1>1, <1>4
  <1> QED
    BY <1>5, <1>6, <1>7, <1>8, ProgressMove DEF UpsertLast, BoundPhases

LEMMA MoveProgress ==
    ASSUME SafetyInv, TypeOK', StoresGrow, NEW r \in Requests,
           \/ PayloadMismatch(r) \/ Insert(r) \/ InsertErrors(r) \/ RecheckMissing(r)
           \/ SelectStored(r) \/ Complete(r) \/ LoadContext(r) \/ FindRefuses(r)
           \/ Update(r) \/ Publish(r) \/ Abort(r)
    PROVE  ProgressOK(r)'
  <1>1. identity' = identity /\ command' = command /\ phase[r] # "idle"
    BY DEF PayloadMismatch, Insert, InsertErrors, RecheckMissing, SelectStored, Complete,
       LoadContext, FindRefuses, Update, Publish, Abort, Active
  <1>2. \A w \in Writes : InFlight(r, w)' => Sends(r, w)
    <2>1. CASE Abort(r)
      BY <2>1 DEF Abort, InFlight, Sends
    <2>2. CASE InsertErrors(r)
      BY <2>2 DEF InsertErrors, InFlight, Sends, Unanswered, Writes
    <2>3. CASE ~Abort(r) /\ ~InsertErrors(r)
      <3>1. inflight' = inflight
        BY <2>3 DEF PayloadMismatch, Insert, RecheckMissing, SelectStored, Complete,
           LoadContext, FindRefuses, Update, Publish
      <3> QED
        BY <3>1 DEF InFlight, Sends
    <2> QED
      BY <2>1, <2>2, <2>3
  <1>3. IsCreate(r) /\ phase'[r] \in BoundPhases => phase[r] \in BoundPhases
    BY DEF PayloadMismatch, Insert, InsertErrors, RecheckMissing, SelectStored, Complete,
       LoadContext, FindRefuses, Update, Publish, Abort, GoTo, BoundPhases, UpdatePhases,
       SafetyInv, TypeInv, TypeOK, HandlerOK
  <1>4. phase'[r] \in {"upsert", "complete"} => rows'[identity[r].id] # None
    BY DEF PayloadMismatch, Insert, InsertErrors, RecheckMissing, SelectStored, Complete,
       LoadContext, FindRefuses, Update, Publish, Abort, GoTo, stores,
       SafetyInv, TypeInv, TypeOK
  <1>5. IsCreate(r) /\ phase'[r] \in {"complete", "publishing", "acked"}
          => phase[r] \in {"complete", "publishing"}
    BY DEF PayloadMismatch, Insert, InsertErrors, RecheckMissing, SelectStored, Complete,
       LoadContext, FindRefuses, Update, Publish, Abort, GoTo, UpdatePhases,
       SafetyInv, TypeInv, TypeOK, HandlerOK
  <1>6. IsCreate(r) /\ phase[r] \in {"complete", "publishing"} => Done(identity[r].id)'
    <2> SUFFICES ASSUME IsCreate(r), phase[r] \in {"complete", "publishing"}
                 PROVE  Done(identity[r].id)'
      OBVIOUS
    <2>1. Done(identity[r].id) /\ identity[r].id \in MessageIds
      BY <1>1, IdentityType DEF SafetyInv, TypeInv, HandlerOK, ProgressInv, ProgressOK, Created,
         Acknowledged
    <2>2. \A m \in MessageIds : Done(m) => Done(m)'
      BY DoneStays
    <2> QED
      BY <1>1, <2>1, <2>2 DEF Done
  <1> QED
    BY <1>1, <1>2, <1>3, <1>4, <1>5, <1>6, ProgressMove DEF IsKeyed

LEMMA RestartProgress ==
    ASSUME SafetyInv, TypeOK', StoresGrow, NEW r \in Requests, Restart
    PROVE  ProgressOK(r)'
  <1>1. identity' = identity /\ command' = command
    BY DEF Restart
  <1>2. phase'[r] = IF phase[r] \in Active THEN "failed"
                    ELSE IF phase[r] = "publishing" THEN "acked" ELSE phase[r]
    BY DEF Restart, SafetyInv, TypeInv, TypeOK
  <1>3. \A w \in Writes : InFlight(r, w)' => Sends(r, w)
    BY DEF Restart, InFlight, Sends
  <1>4. CASE phase[r] = "idle"
    BY <1>2, <1>3, <1>4
    DEF ProgressOK, CreatePhases, Acknowledged, Created, Active, Sends, Unanswered,
        SafetyInv, TypeInv, FlightOK, Writes
  <1>5. CASE phase[r] # "idle"
    <2>1. phase'[r] \in BoundPhases => phase'[r] = "acked" /\ phase[r] \in {"publishing", "acked"}
      BY <1>2, <1>5 DEF BoundPhases, Active
    <2>2. phase'[r] \notin {"upsert", "complete", "publishing"}
      BY <1>2 DEF Active
    <2>3. IsCreate(r) /\ phase[r] \in {"publishing", "acked"} => Done(identity[r].id)'
      <3> SUFFICES ASSUME IsCreate(r), phase[r] \in {"publishing", "acked"}
                   PROVE  Done(identity[r].id)'
        OBVIOUS
      <3>1. Done(identity[r].id) /\ identity[r].id \in MessageIds
        BY <1>5, IdentityType DEF SafetyInv, TypeInv, HandlerOK, ProgressInv, ProgressOK, Created,
           Acknowledged
      <3>2. \A m \in MessageIds : Done(m) => Done(m)'
        BY DoneStays
      <3> QED
        BY <1>1, <3>1, <3>2 DEF Done
    <2>4. phase[r] \in {"publishing", "acked"} => phase[r] \in BoundPhases
      BY DEF BoundPhases
    <2> QED
      BY <1>1, <1>3, <1>5, <2>1, <2>2, <2>3, <2>4, ProgressMove DEF BoundPhases
  <1> QED
    BY <1>4, <1>5
\* A step of one handler leaves the others alone.
LEMMA OthersSame ==
    ASSUME TypeOK, NEW r \in Requests,
           Arrive(r) \/ CreateStep(r) \/ UpdateStep(r) \/ Publish(r) \/ Abort(r),
           NEW q \in Requests \ {r}
    PROVE  Same(q)
  <1>1. CASE Arrive(r)
    BY <1>1 DEF Arrive, StartCreate, StartUpdate, GoTo, TypeOK, Same, InFlight
  <1>2. CASE CreateStep(r)
    BY <1>2 DEF CreateStep, Reserve, ReplayCompleted, PayloadMismatch, Insert, InsertErrors,
       RecheckMissing, SelectStored, UpsertLast, Complete, GoTo, TypeOK, Same, InFlight
  <1>3. CASE UpdateStep(r)
    BY <1>3 DEF UpdateStep, LoadContext, Find, FindRefuses, Update, GoTo, TypeOK, Same, InFlight
  <1>4. CASE Publish(r) \/ Abort(r)
    BY <1>4 DEF Publish, Abort, GoTo, TypeOK, Same, InFlight
  <1> QED
    BY <1>1, <1>2, <1>3, <1>4

\* A create stays a create, and one without a key keeps its identity.
LEMMA CreatedStays ==
    ASSUME SafetyInv, [Next]_vars, NEW q \in Requests, Created(q)
    PROVE  Created(q)' /\ command'[q] = command[q] /\ (~IsKeyed(q) => identity'[q] = identity[q])
  <1>1. ASSUME NEW r \in Requests, Arrive(r)
        PROVE  Created(q)' /\ command'[q] = command[q] /\ identity'[q] = identity[q]
    <2>1. q # r
      BY <1>1 DEF Arrive, StartCreate, StartUpdate, Created
    <2> QED
      BY <1>1, <2>1, OthersSame DEF SafetyInv, TypeInv, Same, Created, IsCreate
  <1>2. ASSUME NEW r \in Requests, CreateStep(r) \/ UpdateStep(r) \/ Publish(r) \/ Abort(r),
               q # r
        PROVE  Created(q)' /\ command'[q] = command[q] /\ identity'[q] = identity[q]
    BY <1>2, OthersSame DEF SafetyInv, TypeInv, Same, Created, IsCreate
  <1>3. ASSUME CreateStep(q)
        PROVE  Created(q)' /\ command'[q] = command[q] /\ (~IsKeyed(q) => identity'[q] = identity[q])
    BY <1>3 DEF CreateStep, Reserve, ReplayCompleted, PayloadMismatch, Insert, InsertErrors,
       RecheckMissing, SelectStored, UpsertLast, Complete, GoTo, Created, IsCreate,
       SafetyInv, TypeInv, TypeOK, HandlerOK
  <1>4. ASSUME UpdateStep(q)
        PROVE  FALSE
    BY <1>4 DEF UpdateStep, LoadContext, Find, FindRefuses, Update, Created, UpdatePhases,
       SafetyInv, TypeInv, HandlerOK
  <1>5. ASSUME Publish(q) \/ Abort(q)
        PROVE  Created(q)' /\ command'[q] = command[q] /\ identity'[q] = identity[q]
    BY <1>5 DEF Publish, Abort, GoTo, Created, IsCreate, SafetyInv, TypeInv, TypeOK
  <1>6. ASSUME NEW r \in Requests, NEW w \in Writes, Land(r, w)
        PROVE  Created(q)' /\ command'[q] = command[q] /\ identity'[q] = identity[q]
    BY <1>6 DEF Land, handlers, Created, IsCreate
  <1>7. CASE Restart
    BY <1>7 DEF Restart, Created, IsCreate, SafetyInv, TypeInv, TypeOK
  <1>8. CASE UNCHANGED vars
    BY <1>8 DEF vars, handlers, Created, IsCreate
  <1> QED
    BY <1>1, <1>2, <1>3, <1>4, <1>5, <1>6, <1>7, <1>8 DEF Next, Serve

LEMMA OriginStays ==
    ASSUME SafetyInv, [Next]_vars, StoresGrow, NEW m \in MessageIds, HasOrigin(m)
    PROVE  HasOrigin(m)'
  <1>1. ASSUME NEW s \in Slots, reservations[s] # None, reservations[s].identity.id = m
        PROVE  HasOrigin(m)'
    BY <1>1 DEF StoresGrow, HasOrigin
  <1>2. ASSUME NEW r \in Requests, Created(r), ~IsKeyed(r), identity[r].id = m
        PROVE  HasOrigin(m)'
    <2>1. Created(r)' /\ ~IsKeyed(r)' /\ identity'[r].id = m
      BY <1>2, CreatedStays DEF IsKeyed, IsCreate
    <2> QED
      BY <2>1 DEF HasOrigin
  <1> QED
    BY <1>1, <1>2 DEF HasOrigin

LEMMA ProgressInvStep ==
    ASSUME SafetyInv, [Next]_vars
    PROVE  ProgressInv'
  <1>1. StoresGrow /\ StoresFromCreates /\ TypeOK /\ TypeOK'
    BY StepGrows, NextTypeInv DEF SafetyInv, TypeInv
  <1>2. \A q \in Requests : ProgressOK(q)'
    <2>1. ASSUME NEW r \in Requests, Arrive(r)
          PROVE  ProgressOK(r)'
      BY <2>1, ArriveProgress DEF Arrive
    <2>2. ASSUME NEW r \in Requests, CreateStep(r)
          PROVE  ProgressOK(r)'
      BY <1>1, <2>2, ReserveProgress, ReplayProgress, UpsertLastProgress, MoveProgress
      DEF CreateStep
    <2>3. ASSUME NEW r \in Requests, UpdateStep(r) \/ Publish(r) \/ Abort(r)
          PROVE  ProgressOK(r)'
      BY <1>1, <2>3, FindProgress, MoveProgress DEF UpdateStep
    <2>4. ASSUME NEW r \in Requests, NEW q \in Requests \ {r},
                 Arrive(r) \/ CreateStep(r) \/ UpdateStep(r) \/ Publish(r) \/ Abort(r)
          PROVE  ProgressOK(q)'
      BY <1>1, <2>4, OthersSame, ProgressSame
    <2>5. ASSUME NEW r \in Requests, NEW w \in Writes, Land(r, w), NEW q \in Requests
          PROVE  ProgressOK(q)'
      <3>1. Same(q)
        BY <2>5 DEF Land, handlers, Same, InFlight
      <3> QED
        BY <1>1, <3>1, ProgressSame
    <2>6. ASSUME Restart, NEW q \in Requests
          PROVE  ProgressOK(q)'
      BY <1>1, <2>6, RestartProgress
    <2>7. ASSUME UNCHANGED vars, NEW q \in Requests
          PROVE  ProgressOK(q)'
      <3>1. Same(q)
        BY <2>7 DEF vars, handlers, Same, InFlight
      <3> QED
        BY <1>1, <3>1, ProgressSame
    <2> QED
      BY <2>1, <2>2, <2>3, <2>4, <2>5, <2>6, <2>7 DEF Next, Serve
  <1>3. ASSUME NEW s \in Slots
        PROVE  CompletedIsDone(s)'
    <2> SUFFICES ASSUME reservations'[s] # None, reservations'[s].state = "completed"
                 PROVE  Done(reservations[s].identity.id)'
      BY DEF CompletedIsDone
    <2>1. reservations[s] # None
      BY <1>1 DEF StoresFromCreates
    <2>2. Done(reservations[s].identity.id)
      BY <1>1, <2>1 DEF StoresFromCreates
    <2>3. reservations'[s].identity = reservations[s].identity
      BY <1>1, <2>1 DEF StoresGrow
    <2>4. reservations[s].identity.id \in MessageIds
      BY <1>1, <2>1, IdentityType DEF TypeOK, Reservation
    <2>5. \A m \in MessageIds : Done(m) => Done(m)'
      BY <1>1, DoneStays
    <2> QED
      BY <2>2, <2>3, <2>4, <2>5 DEF Done
  <1>4. ASSUME NEW m \in MessageIds, rows'[m] # None
        PROVE  HasOrigin(m)'
    <2>1. CASE rows[m] # None
      BY <1>1, <2>1, OriginStays DEF SafetyInv, ProgressInv
    <2>2. CASE rows[m] = None
      <3>1. PICK r \in Requests : /\ Created(r) /\ identity[r].id = m
                                  /\ IsKeyed(r) => Bound(r)
        BY <1>1, <1>4, <2>2 DEF StoresFromCreates
      <3>2. IsKeyed(r) => Slot(r) \in Slots
        BY <3>1, SlotType DEF SafetyInv, TypeInv, HandlerOK, Created
      <3>3. HasOrigin(m)
        BY <3>1, <3>2 DEF HasOrigin, Bound
      <3> QED
        BY <1>1, <3>3, OriginStays
    <2> QED
      BY <2>1, <2>2
  <1> QED
    BY <1>2, <1>3, <1>4 DEF ProgressInv
-----------------------------------------------------------------------------
(* Versions.                                                                *)

LEMMA SupersededStays ==
    ASSUME SafetyInv, TypeOK', StoresGrow, NEW m \in MessageIds, NEW v \in Row, Superseded(m, v)
    PROVE  Superseded(m, v)'
  <1>1. rows[m] # None /\ rows'[m] # None
    BY DEF Superseded, StoresGrow
  <1>2. rows[m].version \in Nat /\ rows'[m].version \in Nat /\ v.version \in Nat
    BY <1>1, RowType DEF SafetyInv, TypeInv, TypeOK
  <1> QED
    BY <1>1, <1>2 DEF Superseded, StoresGrow

\* Only a stored row is ever taken for the stored row.
LEMMA HoldsStep ==
    ASSUME SafetyInv, NEW r \in Requests,
           Arrive(r) \/ CreateStep(r) \/ UpdateStep(r) \/ Publish(r) \/ Abort(r),
           NEW m \in MessageIds, NEW v \in Row, Holds(r, m, v)'
    PROVE  \/ Holds(r, m, v)
           \/ rows'[m] # None /\ rows'[m] = v
  <1>1. CASE Arrive(r)
    BY <1>1 DEF Arrive, StartCreate, StartUpdate, GoTo, Holds, SafetyInv, TypeInv, TypeOK
  <1>2. CASE SelectStored(r)
    BY <1>2 DEF SelectStored, stores, GoTo, Holds, SafetyInv, TypeInv, TypeOK
  <1>3. CASE Update(r)
    <2>1. /\ command[r] \in Commands /\ identity[r] \in Identity /\ snapshot[r] \in Row
          /\ ~IsCreate(r) /\ \E base \in Row : BuiltOn(r, base)
      BY <1>3 DEF Update, SafetyInv, TypeInv, HandlerOK, UpdatePhases, VersionInv
    <2>2. identity'[r] = identity[r] /\ snapshot'[r] = snapshot[r] /\ UpdateIfVersion(r)
      BY <1>3 DEF Update
    <2>3. rows[identity[r].id].version = command[r].expected
      BY <1>3 DEF Update, GoTo, Holds, SafetyInv, TypeInv, TypeOK
    <2>4. rows'[identity[r].id] = snapshot[r]
      BY <2>1, <2>2, <2>3, UpdateEffect DEF SafetyInv, TypeInv, TypeOK, StoresOK
    <2> QED
      BY <2>2, <2>4, NoneIsNoValue DEF Holds
  <1>4. CASE Reserve(r) \/ ReplayCompleted(r)
    BY <1>4 DEF Reserve, ReplayCompleted, GoTo, Holds, IsCreate, CreatePhases,
       SafetyInv, TypeInv, TypeOK, HandlerOK
  <1>5. CASE PayloadMismatch(r) \/ Insert(r) \/ InsertErrors(r) \/ RecheckMissing(r)
    BY <1>5 DEF PayloadMismatch, Insert, InsertErrors, RecheckMissing, GoTo, Holds,
       SafetyInv, TypeInv, TypeOK
  <1>6. CASE UpsertLast(r) \/ Complete(r) \/ Publish(r)
    BY <1>6 DEF UpsertLast, Complete, Publish, GoTo, Holds, IsCreate, SafetyInv, TypeInv, TypeOK
  <1>7. CASE LoadContext(r) \/ Find(r) \/ FindRefuses(r) \/ Abort(r)
    BY <1>7 DEF LoadContext, Find, FindRefuses, Abort, GoTo, Holds, SafetyInv, TypeInv, TypeOK
  <1> QED
    BY <1>1, <1>2, <1>3, <1>4, <1>5, <1>6, <1>7 DEF CreateStep, UpdateStep

LEMMA WitnessedStep ==
    ASSUME SafetyInv, [Next]_vars, NEW m \in MessageIds, NEW v \in Row, Witnessed(m, v)'
    PROVE  Witnessed(m, v) \/ (rows'[m] # None /\ rows'[m] = v)
  <1>1. ASSUME NEW r \in Requests,
               Arrive(r) \/ CreateStep(r) \/ UpdateStep(r) \/ Publish(r) \/ Abort(r)
        PROVE  Witnessed(m, v) \/ (rows'[m] # None /\ rows'[m] = v)
    <2>1. ASSUME NEW q \in Requests, Holds(q, m, v)'
          PROVE  Holds(q, m, v) \/ (rows'[m] # None /\ rows'[m] = v)
      <3>1. CASE q = r
        BY <1>1, <2>1, <3>1, HoldsStep
      <3>2. CASE q # r
        BY <1>1, <2>1, <3>2, OthersSame DEF Same, Holds, IsCreate, SafetyInv, TypeInv
      <3> QED
        BY <3>1, <3>2
    <2>2. ASSUME NEW f \in published', f.id = m, f.message = v
          PROVE  Witnessed(m, v)
      <3>1. CASE Publish(r)
        BY <2>2, <3>1 DEF Publish, Witnessed, Holds
      <3>2. CASE ~Publish(r)
        <4>1. published' = published
          BY <1>1, <3>2 DEF Arrive, StartCreate, StartUpdate, CreateStep, UpdateStep, Reserve,
             ReplayCompleted, PayloadMismatch, Insert, InsertErrors, RecheckMissing,
             SelectStored, UpsertLast, Complete, LoadContext, Find, FindRefuses, Update, Abort,
             history
        <4> QED
          BY <2>2, <4>1 DEF Witnessed
      <3> QED
        BY <3>1, <3>2
    <2> QED
      BY <2>1, <2>2 DEF Witnessed
  <1>2. ASSUME NEW r \in Requests, NEW w \in Writes, Land(r, w)
        PROVE  Witnessed(m, v)
    BY <1>2 DEF Land, handlers, history, Witnessed, Holds, IsCreate
  <1>3. CASE Restart
    BY <1>3 DEF Restart, Active, history, Witnessed, Holds, IsCreate, SafetyInv, TypeInv, TypeOK
  <1>4. CASE UNCHANGED vars
    BY <1>4 DEF vars, handlers, history, Witnessed, Holds, IsCreate
  <1> QED
    BY <1>1, <1>2, <1>3, <1>4 DEF Next, Serve

\* The base of an edit or delete is the row it found.
LEMMA FindBuildsOn ==
    ASSUME SafetyInv, NEW r \in Requests, Find(r)
    PROVE  \E base \in Row : BuiltOn(r, base)'
  <1> DEFINE base == rows[command[r].target]
  <1>1. command[r] \in Commands /\ ~IsCreate(r)
    BY DEF Find, SafetyInv, TypeInv, HandlerOK, UpdatePhases
  <1>2. command[r].target \in MessageIds
    BY <1>1, CommandType DEF IsCreate
  <1>3. base \in Row
    BY <1>2 DEF Find, Visible, SafetyInv, TypeInv, TypeOK
  <1>4. PICK found \in Row : found = base
    BY <1>3
  <1>5. /\ identity'[r].id = command[r].target
        /\ snapshot'[r] = [found EXCEPT !.content = command[r].content,
                                        !.version = found.version + 1,
                                        !.deleted = (command[r].op = "delete")]
        /\ command' = command /\ rows' = rows
    BY <1>4 DEF Find, stores, SafetyInv, TypeInv, TypeOK
  <1>6. found.version = command[r].expected /\ ~found.deleted
    BY <1>4 DEF Find
  <1>7. rows'[identity'[r].id] = found /\ found # None
    BY <1>4, <1>5, NoneIsNoValue
  <1>8. BuiltOn(r, found)'
    BY <1>5, <1>6, <1>7 DEF BuiltOn, Superseded
  <1> QED
    BY <1>8
\* An edit or delete about to be written, or in flight, was sent or found.
LEMMA SendsUpdate ==
    ASSUME SafetyInv, [Next]_vars, NEW q \in Requests,
           phase'[q] = "update" \/ InFlight(q, "update")'
    PROVE  \/ Find(q)
           \/ /\ Sends(q, "update")
              /\ command'[q] = command[q] /\ identity'[q] = identity[q]
              /\ snapshot'[q] = snapshot[q]
  <1> DEFINE Kept(r) == /\ command'[r] = command[r] /\ identity'[r] = identity[r]
                        /\ snapshot'[r] = snapshot[r]
  <1>1. ASSUME Arrive(q) \/ CreateStep(q)
        PROVE  FALSE
    <2>1. phase'[q] # "update"
      BY <1>1 DEF Arrive, StartCreate, StartUpdate, CreateStep, Reserve, ReplayCompleted,
         PayloadMismatch, Insert, InsertErrors, RecheckMissing, SelectStored, UpsertLast,
         Complete, GoTo, SafetyInv, TypeInv, TypeOK
    <2>2. phase[q] # "failed"
      BY <1>1 DEF Arrive, StartCreate, StartUpdate, CreateStep, Reserve, ReplayCompleted,
         PayloadMismatch, Insert, InsertErrors, RecheckMissing, SelectStored, UpsertLast,
         Complete
    <2>3. ~InFlight(q, "update")
      BY <2>2 DEF SafetyInv, TypeInv, FlightOK, Writes
    <2>4. ~InFlight(q, "update")'
      BY <1>1, <2>3 DEF Arrive, StartCreate, StartUpdate, CreateStep, Reserve, ReplayCompleted,
         PayloadMismatch, Insert, InsertErrors, RecheckMissing, SelectStored, UpsertLast,
         Complete, InFlight
    <2> QED
      BY <2>1, <2>4
  <1>2. ASSUME LoadContext(q) \/ FindRefuses(q) \/ Update(q) \/ Publish(q)
        PROVE  FALSE
    <2>1. phase'[q] # "update"
      BY <1>2 DEF LoadContext, FindRefuses, Update, Publish, GoTo, SafetyInv, TypeInv, TypeOK
    <2>2. ~InFlight(q, "update")
      BY <1>2 DEF LoadContext, FindRefuses, Update, Publish, SafetyInv, TypeInv, FlightOK, Writes
    <2>3. ~InFlight(q, "update")'
      BY <1>2, <2>2 DEF LoadContext, FindRefuses, Update, Publish, InFlight
    <2> QED
      BY <2>1, <2>3
  <1>3. CASE Abort(q)
    BY <1>3 DEF Abort, GoTo, InFlight, Sends, SafetyInv, TypeInv, TypeOK
  <1>4. ASSUME NEW r \in Requests, q # r,
               Arrive(r) \/ CreateStep(r) \/ UpdateStep(r) \/ Publish(r) \/ Abort(r)
        PROVE  Sends(q, "update") /\ Kept(q)
    <2>1. Same(q)
      BY <1>4, OthersSame DEF SafetyInv, TypeInv
    <2> QED
      BY <2>1 DEF Same, Sends, Unanswered, Writes
  <1>5. ASSUME NEW r \in Requests, NEW w \in Writes, Land(r, w)
        PROVE  Sends(q, "update") /\ Kept(q)
    BY <1>5 DEF Land, handlers, Sends, InFlight, Unanswered, Writes
  <1>6. ASSUME Restart
        PROVE  Sends(q, "update") /\ Kept(q)
    BY <1>6 DEF Restart, InFlight, Sends, SafetyInv, TypeInv, TypeOK, Active
  <1>7. ASSUME UNCHANGED vars
        PROVE  Sends(q, "update") /\ Kept(q)
    BY <1>7 DEF vars, handlers, Sends, InFlight, Unanswered, Writes
  <1> QED
    BY <1>1, <1>2, <1>3, <1>4, <1>5, <1>6, <1>7 DEF Next, Serve, UpdateStep

LEMMA BuiltOnStep ==
    ASSUME SafetyInv, [Next]_vars, NEW q \in Requests,
           phase'[q] = "update" \/ InFlight(q, "update")'
    PROVE  \E base \in Row : BuiltOn(q, base)'
  <1>1. CASE Find(q)
    BY <1>1, FindBuildsOn
  <1>2. CASE /\ Sends(q, "update")
             /\ command'[q] = command[q] /\ identity'[q] = identity[q]
             /\ snapshot'[q] = snapshot[q]
    <2>1. PICK base \in Row : BuiltOn(q, base)
      BY <1>2, SenderFacts DEF Writes
    <2>2. identity[q].id \in MessageIds
      BY <1>2, SenderFacts, IdentityType DEF Writes
    <2>3. StoresGrow /\ TypeOK'
      BY StepGrows, NextTypeInv DEF SafetyInv, TypeInv
    <2>4. PICK m \in MessageIds : m = identity[q].id
      BY <2>2
    <2>5. Superseded(m, base)'
      BY <2>1, <2>3, <2>4, SupersededStays DEF BuiltOn
    <2>6. BuiltOn(q, base)'
      BY <1>2, <2>1, <2>4, <2>5 DEF BuiltOn, Superseded
    <2> QED
      BY <2>6
  <1> QED
    BY <1>1, <1>2, SendsUpdate

\* An acknowledged edit or delete was acknowledged before, or this step applied it.
LEMMA AckedUpdateStep ==
    ASSUME SafetyInv, [Next]_vars, NEW q \in Requests, phase'[q] \in Acknowledged, ~IsCreate(q)'
    PROVE  \/ /\ phase[q] \in Acknowledged /\ ~IsCreate(q)
              /\ identity'[q] = identity[q] /\ snapshot'[q] = snapshot[q]
           \/ Update(q)
  <1>1. ASSUME Arrive(q) \/ LoadContext(q) \/ Find(q) \/ FindRefuses(q) \/ Abort(q)
        PROVE  FALSE
    BY <1>1 DEF Arrive, StartCreate, StartUpdate, LoadContext, Find, FindRefuses, Abort, GoTo,
       Acknowledged, SafetyInv, TypeInv, TypeOK
  <1>2. ASSUME CreateStep(q)
        PROVE  FALSE
    <2>1. phase[q] \in CreatePhases /\ command'[q] = command[q]
      BY <1>2 DEF CreateStep, Reserve, ReplayCompleted, PayloadMismatch, Insert, InsertErrors,
         RecheckMissing, SelectStored, UpsertLast, Complete, CreatePhases
    <2> QED
      BY <2>1 DEF SafetyInv, TypeInv, HandlerOK, IsCreate
  <1>3. CASE Publish(q)
    BY <1>3 DEF Publish, GoTo, Acknowledged, IsCreate
  <1>4. ASSUME NEW r \in Requests, q # r,
               Arrive(r) \/ CreateStep(r) \/ UpdateStep(r) \/ Publish(r) \/ Abort(r)
        PROVE  /\ phase[q] \in Acknowledged /\ ~IsCreate(q)
               /\ identity'[q] = identity[q] /\ snapshot'[q] = snapshot[q]
    BY <1>4, OthersSame DEF SafetyInv, TypeInv, Same, IsCreate
  <1>5. ASSUME NEW r \in Requests, NEW w \in Writes, Land(r, w)
        PROVE  /\ phase[q] \in Acknowledged /\ ~IsCreate(q)
               /\ identity'[q] = identity[q] /\ snapshot'[q] = snapshot[q]
    BY <1>5 DEF Land, handlers, IsCreate
  <1>6. CASE Restart
    BY <1>6 DEF Restart, Active, Acknowledged, IsCreate, SafetyInv, TypeInv, TypeOK
  <1>7. CASE UNCHANGED vars
    BY <1>7 DEF vars, handlers, IsCreate
  <1> QED
    BY <1>1, <1>2, <1>3, <1>4, <1>5, <1>6, <1>7 DEF Next, Serve, UpdateStep

LEMMA UpdateBeatsAcked ==
    ASSUME SafetyInv, NEW r \in Requests, NEW o \in Requests, Update(r),
           phase'[r] \in Acknowledged,
           phase[o] \in Acknowledged, ~IsCreate(o), identity[o].id = identity[r].id
    PROVE  snapshot[r].version # snapshot[o].version
  <1>1. /\ command[r] \in Commands /\ identity[r] \in Identity
        /\ \E base \in Row : BuiltOn(r, base)
    BY DEF Update, SafetyInv, TypeInv, HandlerOK, VersionInv
  <1>2. PICK base \in Row : BuiltOn(r, base)
    BY <1>1
  <1>3. rows[identity[r].id].version = command[r].expected
    BY DEF Update, GoTo, Acknowledged, SafetyInv, TypeInv, TypeOK
  <1>4. /\ snapshot[r].version = base.version + 1
        /\ base.version = rows[identity[r].id].version /\ base.version \in Nat
    BY <1>1, <1>2, <1>3, BuiltOnRow, RowType DEF BuiltOn
  <1>5. snapshot[o] \in Row /\ identity[r].id \in MessageIds
    BY <1>1, IdentityType DEF SafetyInv, TypeInv, HandlerOK, Acknowledged
  <1>6. Holds(o, identity[r].id, snapshot[o])
    BY DEF Holds, Acknowledged
  <1>7. Superseded(identity[r].id, snapshot[o])
    BY <1>5, <1>6 DEF SafetyInv, VersionInv, Witnessed
  <1>8. snapshot[o].version \in Nat /\ snapshot[o].version <= rows[identity[r].id].version
    BY <1>4, <1>5, <1>7, RowType DEF Superseded
  <1> QED
    BY <1>4, <1>8
LEMMA NoLostUpdateStep ==
    ASSUME SafetyInv, [Next]_vars
    PROVE  NoLostUpdate'
  <1> SUFFICES ASSUME NEW r \in Requests, NEW o \in Requests, r # o,
                      phase'[r] \in Acknowledged, phase'[o] \in Acknowledged,
                      ~IsCreate(r)', ~IsCreate(o)', identity'[r].id = identity'[o].id
               PROVE  snapshot'[r].version # snapshot'[o].version
    BY DEF NoLostUpdate
  <1>1. CASE Update(r)
    <2>1. Same(o) /\ identity'[r] = identity[r] /\ snapshot'[r] = snapshot[r]
      BY <1>1, OthersSame DEF UpdateStep, Update, SafetyInv, TypeInv
    <2> QED
      BY <1>1, <2>1, UpdateBeatsAcked DEF Same, IsCreate
  <1>2. CASE Update(o)
    <2>1. Same(r) /\ identity'[o] = identity[o] /\ snapshot'[o] = snapshot[o]
      BY <1>2, OthersSame DEF UpdateStep, Update, SafetyInv, TypeInv
    <2> QED
      BY <1>2, <2>1, UpdateBeatsAcked DEF Same, IsCreate
  <1>3. CASE ~Update(r) /\ ~Update(o)
    BY <1>3, AckedUpdateStep DEF SafetyInv, VersionInv, NoLostUpdate
  <1> QED
    BY <1>1, <1>2, <1>3

\* A frame that says "created" is of a create that was done.
LEMMA CreatedFrameStep ==
    ASSUME SafetyInv, [Next]_vars, NEW f \in published', f.kind = "created"
    PROVE  Done(f.id)'
  <1>1. StoresGrow /\ TypeOK' /\ TypeOK
    BY StepGrows, NextTypeInv DEF SafetyInv, TypeInv
  <1>2. f \in published \/ (\E r \in Requests : Publish(r) /\ f \notin published)
    BY DEF Next, Serve, Arrive, StartCreate, StartUpdate, CreateStep, UpdateStep, Reserve,
       ReplayCompleted, PayloadMismatch, Insert, InsertErrors, RecheckMissing, SelectStored,
       UpsertLast, Complete, LoadContext, Find, FindRefuses, Update, Abort, Land, Restart,
       vars, history
  <1>3. CASE f \in published
    <2>1. Done(f.id) /\ f.id \in MessageIds
      BY <1>1, <1>3 DEF SafetyInv, VersionInv, TypeOK, Frame
    <2> QED
      BY <1>1, <2>1, DoneStays
  <1>4. ASSUME NEW r \in Requests, Publish(r), f \notin published
        PROVE  Done(f.id)'
    <2>1. /\ FrameKind(command[r].op) = "created" /\ f.id = identity[r].id
          /\ command[r] \in Commands
      BY <1>4 DEF Publish, SafetyInv, TypeInv, HandlerOK
    <2>2. IsCreate(r)
      BY <2>1, CommandType DEF FrameKind, IsCreate
    <2>3. Done(identity[r].id) /\ identity[r].id \in MessageIds
      BY <1>4, <2>2, IdentityType
      DEF Publish, SafetyInv, TypeInv, HandlerOK, ProgressInv, ProgressOK, Created, Acknowledged
    <2> QED
      BY <1>1, <2>1, <2>3, DoneStays
  <1> QED
    BY <1>2, <1>3, <1>4

LEMMA VersionInvStep ==
    ASSUME SafetyInv, [Next]_vars
    PROVE  VersionInv'
  <1>1. StoresGrow /\ TypeOK'
    BY StepGrows, NextTypeInv DEF SafetyInv, TypeInv
  <1>2. ASSUME NEW m \in MessageIds, NEW v \in Row, Witnessed(m, v)'
        PROVE  Superseded(m, v)'
    <2>1. CASE Witnessed(m, v)
      BY <1>1, <2>1, SupersededStays DEF SafetyInv, VersionInv
    <2>2. CASE rows'[m] # None /\ rows'[m] = v
      BY <2>2 DEF Superseded
    <2> QED
      BY <1>2, <2>1, <2>2, WitnessedStep
  <1>3. ASSUME NEW m \in MessageIds, NEW v \in Row, NEW w \in Row,
               Witnessed(m, v)', Witnessed(m, w)', v.version = w.version
        PROVE  v = w
    <2>1. Superseded(m, v)' /\ Superseded(m, w)'
      BY <1>2, <1>3
    <2>2. v.version \in Nat /\ w.version \in Nat
      BY RowType
    <2>3. CASE Witnessed(m, v) /\ Witnessed(m, w)
      BY <1>3, <2>3 DEF SafetyInv, VersionInv
    <2>4. CASE rows'[m] = v \/ rows'[m] = w
      BY <1>3, <2>1, <2>2, <2>4 DEF Superseded
    <2> QED
      BY <1>3, <2>3, <2>4, WitnessedStep
  <1>4. \A r \in Requests :
           phase'[r] = "update" \/ InFlight(r, "update")' => \E base \in Row : BuiltOn(r, base)'
    BY BuiltOnStep
  <1>5. \A f \in published' : f.kind = "created" => Done(f.id)'
    BY CreatedFrameStep
  <1>6. NoLostUpdate'
    BY NoLostUpdateStep
  <1> QED
    BY <1>2, <1>3, <1>4, <1>5, <1>6 DEF VersionInv

-----------------------------------------------------------------------------
(* The theorems.                                                            *)

LEMMA InitSafetyInv == Init => SafetyInv
  <1> SUFFICES ASSUME Init
               PROVE  SafetyInv
    OBVIOUS
  <1>1. \A i \in Identity : ~Known(i)
    BY NoneIsNoValue DEF Init, Known, Created
  <1>2. IdentitiesAgree
    BY <1>1 DEF Init, IdentitiesAgree
  <1>3. ProgressInv
    BY DEF Init, ProgressInv, ProgressOK, CompletedIsDone, Created, InFlight, CreatePhases,
       Acknowledged
  <1>4. \A m \in MessageIds, v \in Row : ~Witnessed(m, v)
    BY DEF Init, Witnessed, Holds
  <1>5. VersionInv
    BY <1>4 DEF Init, VersionInv, InFlight, NoLostUpdate, Acknowledged
  <1> QED
    BY <1>2, <1>3, <1>5, InitTypeInv DEF SafetyInv

LEMMA NextSafetyInv == SafetyInv /\ [Next]_vars => SafetyInv'
  BY NextTypeInv, IdentitiesAgreeStep, ProgressInvStep, VersionInvStep DEF SafetyInv

LEMMA SafetyInvariant == Spec => []SafetyInv
  BY InitSafetyInv, NextSafetyInv, PTL DEF Spec

LEMMA DoneIsReachable ==
    ASSUME SafetyInv, NEW m \in MessageIds, Done(m)
    PROVE  Reachable(m)
  <1>1. rows[m] # None /\ lastMessage # None /\ rows[m].at <= lastMessage.at
    BY DEF Done
  <1>2. rows[m].at \in Nat /\ lastMessage.at \in Nat
    BY <1>1, RowType, IdentityType DEF SafetyInv, TypeInv, TypeOK
  <1>3. \A a, b \in Nat : a <= b => Bucket(a) <= Bucket(b)
    BY DivMonotone, BoundAssumption DEF Bucket
  <1> QED
    BY <1>1, <1>2, <1>3 DEF Reachable

\* A 2xx answer to a create means that its message is stored in a bucket that
\* list, edit and delete reach, whatever failed or landed late before and after.
THEOREM AckedReachable == Spec => []AcknowledgedIsReachable
  <1>1. SafetyInv => AcknowledgedIsReachable
    <2> SUFFICES ASSUME SafetyInv, NEW r \in Requests, phase[r] \in Acknowledged, IsCreate(r)
                 PROVE  Reachable(identity[r].id)
      BY DEF AcknowledgedIsReachable
    <2>1. Done(identity[r].id) /\ identity[r].id \in MessageIds
      BY IdentityType DEF SafetyInv, TypeInv, HandlerOK, ProgressInv, ProgressOK, Created,
         Acknowledged
    <2> QED
      BY <2>1, DoneIsReachable
  <1> QED
    BY <1>1, SafetyInvariant, PTL

\* A replay may answer from a completed reservation alone: its message is stored
\* and reachable.
THEOREM CompletedReachable == Spec => []CompletedIsReachable
  <1>1. SafetyInv => CompletedIsReachable
    <2> SUFFICES ASSUME SafetyInv, NEW s \in Slots,
                        reservations[s] # None, reservations[s].state = "completed"
                 PROVE  Reachable(reservations[s].identity.id)
      BY DEF CompletedIsReachable
    <2>1. reservations[s].identity.id \in MessageIds
      BY IdentityType DEF SafetyInv, TypeInv, TypeOK, Reservation
    <2>2. Done(reservations[s].identity.id)
      BY DEF SafetyInv, ProgressInv, CompletedIsDone
    <2> QED
      BY <2>1, <2>2, DoneIsReachable
  <1> QED
    BY <1>1, SafetyInvariant, PTL

\* However often a create is retried under one key, one message comes of it.
THEOREM KeyNamesOneMessage == Spec => []OneMessagePerKey
  <1>1. SafetyInv => OneMessagePerKey
    <2> SUFFICES ASSUME SafetyInv
                 PROVE  OneMessagePerKey
      OBVIOUS
    <2>1. ASSUME NEW r \in Requests, NEW o \in Requests,
                 phase[r] \in Acknowledged, phase[o] \in Acknowledged,
                 IsKeyed(r), IsKeyed(o), Slot(r) = Slot(o)
          PROVE  identity[r] = identity[o]
      BY <2>1 DEF SafetyInv, ProgressInv, ProgressOK, Bound
    <2>2. ASSUME NEW m \in MessageIds, rows[m] # None
          PROVE  \/ \E s \in Slots : reservations[s] # None /\ reservations[s].identity.id = m
                 \/ \E r \in Requests : /\ phase[r] # "idle" /\ IsCreate(r) /\ ~IsKeyed(r)
                                        /\ identity[r].id = m
      BY <2>2 DEF SafetyInv, ProgressInv, HasOrigin, Created
    <2> QED
      BY <2>1, <2>2 DEF OneMessagePerKey
  <1> QED
    BY <1>1, SafetyInvariant, PTL

\* What a realtime frame shows was persisted first and is replaced in the store
\* only by a newer version.
THEOREM PublishedPersisted == Spec => []PublishedIsPersisted
  <1>1. SafetyInv => PublishedIsPersisted
    <2> SUFFICES ASSUME SafetyInv, NEW f \in published
                 PROVE  /\ f.kind = "created" => Reachable(f.id)
                        /\ rows[f.id] # None
                        /\ \/ rows[f.id].version > f.message.version
                           \/ rows[f.id] = f.message
      BY DEF PublishedIsPersisted
    <2>1. f.id \in MessageIds /\ f.message \in Row
      BY DEF SafetyInv, TypeInv, TypeOK, Frame
    <2>2. f.kind = "created" => Reachable(f.id)
      BY <2>1, DoneIsReachable DEF SafetyInv, VersionInv
    <2>3. Superseded(f.id, f.message)
      BY <2>1 DEF SafetyInv, VersionInv, Witnessed
    <2> QED
      BY <2>2, <2>3 DEF Superseded
  <1> QED
    BY <1>1, SafetyInvariant, PTL

\* Two frames with one message id and one version show the same message.
THEOREM FramesConsistent == Spec => []FramesAgree
  <1>1. SafetyInv => FramesAgree
    <2> SUFFICES ASSUME SafetyInv, NEW f \in published, NEW g \in published,
                        f.id = g.id, f.message.version = g.message.version
                 PROVE  f.message = g.message
      BY DEF FramesAgree
    <2>1. f.id \in MessageIds /\ f.message \in Row /\ g.message \in Row
      BY DEF SafetyInv, TypeInv, TypeOK, Frame
    <2>2. Witnessed(f.id, f.message) /\ Witnessed(f.id, g.message)
      BY DEF Witnessed
    <2> QED
      BY <2>1, <2>2 DEF SafetyInv, VersionInv
  <1> QED
    BY <1>1, SafetyInvariant, PTL

\* No two acknowledged edits or deletes of a message were built on one version.
THEOREM LostUpdatesNever == Spec => []NoLostUpdate
  <1>1. SafetyInv => NoLostUpdate
    BY DEF SafetyInv, VersionInv
  <1> QED
    BY <1>1, SafetyInvariant, PTL

-----------------------------------------------------------------------------
(* Requests that came after an acknowledgement.                             *)

Completed(s) == reservations[s] # None /\ reservations[s].state = "completed"

\* What was acknowledged before r started still holds, and r has seen it.
SettledOK(r) ==
    /\ phase[r] # "idle"
    /\ IsCreate(r) => /\ IsKeyed(r) /\ Completed(Slot(r))
                      /\ phase[r] \in {"reserve", "acked", "mismatch", "failed"}
    /\ ~IsCreate(r) => /\ Done(command[r].target)
                       /\ phase[r] # "not_found"
                       /\ phase[r] = "find" => Visible(command[r].target, upper[r])

SettledInv ==
    /\ \A r \in Requests : phase[r] \in Acknowledged /\ IsKeyed(r) => Completed(Slot(r))
    /\ \A r \in settled : SettledOK(r)

LEMMA CompletedStays ==
    ASSUME SafetyInv, [Next]_vars, NEW s \in Slots, Completed(s)
    PROVE  Completed(s)'
  <1>1. CASE UNCHANGED stores
    BY <1>1 DEF stores, Completed
  <1>2. ASSUME NEW r \in Requests, NEW w \in Writes, Sends(r, w), Write(r, w)
        PROVE  Completed(s)'
    <2>1. /\ command[r] \in Commands /\ identity[r] \in Identity /\ StoresOK
          /\ w \in {"reserve", "complete"} => IsKeyed(r)
      BY <1>2, SenderFacts DEF SafetyInv, TypeInv, TypeOK, StoresOK
    <2>2. CASE w = "reserve"
      BY <1>2, <2>1, <2>2, ReserveEffect DEF Write, Completed
    <2>3. CASE w = "complete"
      <3>1. reservations[s] \in Reservation
        BY <2>1 DEF StoresOK, Completed
      <3>2. /\ [reservations[s] EXCEPT !.state = "completed"] \in Reservation
            /\ [reservations[s] EXCEPT !.state = "completed"].state = "completed"
        BY <3>1 DEF Reservation
      <3> QED
        BY <1>2, <2>1, <2>3, <3>2, NoneIsNoValue DEF Write, CompleteKey, Completed, StoresOK
    <2>4. CASE w \in {"insert", "upsert", "update"}
      BY <1>2, <2>4 DEF Write, InsertIfNotExists, UpsertLastMessage, UpdateIfVersion, Completed
    <2> QED
      BY <2>2, <2>3, <2>4 DEF Writes
  <1> QED
    BY <1>1, <1>2, StepWrites

\* CompleteKey leaves the key of its handler completed.
LEMMA CompleteCompletes ==
    ASSUME SafetyInv, NEW r \in Requests, Complete(r)
    PROVE  IsKeyed(r) /\ Completed(Slot(r))'
  <1>1. /\ IsKeyed(r) /\ command[r] \in Commands /\ Bound(r)
        /\ reservations \in [Slots -> Reservation \cup {None}]
    BY DEF Complete, SafetyInv, TypeInv, TypeOK, HandlerOK, CreatePhases, ProgressInv, ProgressOK
  <1>2. Slot(r) \in Slots /\ reservations[Slot(r)] # None
    BY <1>1, SlotType DEF Bound
  <1>3. /\ [reservations[Slot(r)] EXCEPT !.state = "completed"] \in Reservation
        /\ [reservations[Slot(r)] EXCEPT !.state = "completed"].state = "completed"
    BY <1>1, <1>2 DEF Reservation
  <1>4. reservations'[Slot(r)] = [reservations[Slot(r)] EXCEPT !.state = "completed"]
    BY <1>1, <1>2 DEF Complete, CompleteKey
  <1>5. Slot(r)' = Slot(r)
    BY DEF Complete, Slot
  <1> QED
    BY <1>1, <1>3, <1>4, <1>5, NoneIsNoValue DEF Completed

\* An acknowledged create with a key has completed it.
LEMMA AckedKeyStep ==
    ASSUME SafetyInv, SettledInv, [Next]_vars,
           NEW r \in Requests, phase'[r] \in Acknowledged, IsKeyed(r)'
    PROVE  Completed(Slot(r))'
  <1>1. ASSUME phase[r] \in Acknowledged, command'[r] = command[r]
        PROVE  Completed(Slot(r))'
    <2>1. IsKeyed(r) /\ Completed(Slot(r)) /\ Slot(r)' = Slot(r)
      BY <1>1 DEF SettledInv, IsKeyed, IsCreate, Slot
    <2>2. Slot(r) \in Slots
      BY <1>1, <2>1, SlotType DEF SafetyInv, TypeInv, HandlerOK, Acknowledged
    <2>3. PICK s \in Slots : s = Slot(r)
      BY <2>2
    <2>4. Completed(s)'
      BY <2>1, <2>3, CompletedStays
    <2> QED
      BY <2>1, <2>3, <2>4 DEF Completed
  <1>2. ASSUME NEW q \in Requests, Arrive(q) \/ CreateStep(q) \/ UpdateStep(q) \/ Publish(q) \/ Abort(q),
               q # r
        PROVE  Completed(Slot(r))'
    BY <1>1, <1>2, OthersSame DEF SafetyInv, TypeInv, Same
  <1>3. CASE Arrive(r)
    BY <1>3 DEF Arrive, StartCreate, StartUpdate, GoTo, SafetyInv, TypeInv, TypeOK, Acknowledged
  <1>4. CASE ReplayCompleted(r)
    BY <1>4 DEF ReplayCompleted, stores, Completed, Slot
  <1>5. CASE Complete(r)
    BY <1>5, CompleteCompletes
  <1>6. CASE UpsertLast(r)
    BY <1>6 DEF UpsertLast, GoTo, IsKeyed, IsCreate, SafetyInv, TypeInv, TypeOK, Acknowledged
  <1>7. CASE Reserve(r) \/ PayloadMismatch(r) \/ Insert(r) \/ InsertErrors(r)
             \/ RecheckMissing(r) \/ SelectStored(r)
    BY <1>7 DEF Reserve, PayloadMismatch, Insert, InsertErrors, RecheckMissing, SelectStored,
       GoTo, SafetyInv, TypeInv, TypeOK, Acknowledged
  <1>8. CASE UpdateStep(r)
    BY <1>8 DEF UpdateStep, LoadContext, Find, FindRefuses, Update, GoTo, IsKeyed, IsCreate,
       SafetyInv, TypeInv, TypeOK, HandlerOK, UpdatePhases
  <1>9. CASE Publish(r)
    BY <1>1, <1>9 DEF Publish, Acknowledged
  <1>10. CASE Abort(r)
    BY <1>10 DEF Abort, GoTo, SafetyInv, TypeInv, TypeOK, Acknowledged
  <1>11. ASSUME NEW q \in Requests, NEW w \in Writes, Land(q, w)
         PROVE  Completed(Slot(r))'
    BY <1>1, <1>11 DEF Land, handlers
  <1>12. CASE Restart
    BY <1>1, <1>12 DEF Restart, SafetyInv, TypeInv, TypeOK, Acknowledged, Active
  <1>13. CASE UNCHANGED vars
    BY <1>1, <1>13 DEF vars, handlers
  <1> QED
    BY <1>2, <1>3, <1>4, <1>5, <1>6, <1>7, <1>8, <1>9, <1>10, <1>11, <1>12, <1>13
    DEF Next, Serve, CreateStep

\* A request is settled from the moment it starts, or not at all.
LEMMA SettledAtStart ==
    ASSUME SafetyInv, SettledInv, NEW r \in Requests, Arrive(r), r \in settled'
    PROVE  SettledOK(r)'
  <1>0. phase \in [Requests -> Phases] /\ command \in [Requests -> Commands \cup {None}]
        /\ upper \in [Requests -> Nat]
    BY DEF SafetyInv, TypeInv, TypeOK
  <1>1. PICK c \in Commands : StartCreate(r, c) \/ StartUpdate(r, c)
    BY DEF Arrive
  <1>2. r \notin settled
    BY <1>1 DEF SettledInv, SettledOK, StartCreate, StartUpdate
  <1>3. CASE StartCreate(r, c)
    <2>1. command'[r] = c /\ c.op = "create" /\ UNCHANGED stores
      BY <1>0, <1>3 DEF StartCreate
    <2>2. KeyAcknowledged(c)
      BY <1>2, <1>3 DEF StartCreate
    <2>3. PICK o \in Requests : /\ phase[o] \in Acknowledged /\ IsKeyed(o)
                                /\ Slot(o) = <<c.principal, c.key>>
      BY <2>2 DEF KeyAcknowledged
    <2>4. Completed(<<c.principal, c.key>>) /\ c.key # NoKey
      BY <2>2, <2>3 DEF SettledInv, KeyAcknowledged
    <2>5. phase'[r] = "reserve"
      BY <1>0, <1>3, <2>4 DEF StartCreate, GoTo
    <2> QED
      BY <2>1, <2>4, <2>5 DEF SettledOK, IsCreate, IsKeyed, Slot, Completed, stores
  <1>4. CASE StartUpdate(r, c)
    <2>1. command'[r] = c /\ c.op # "create" /\ phase'[r] = "load" /\ UNCHANGED stores
      BY <1>0, <1>4 DEF StartUpdate, GoTo
    <2>2. PICK o \in Requests : /\ phase[o] \in Acknowledged /\ IsCreate(o)
                                /\ identity[o].id = c.target
      BY <1>2, <1>4 DEF StartUpdate, TargetAcknowledged
    <2>3. Done(identity[o].id)
      BY <2>2 DEF SafetyInv, ProgressInv, ProgressOK, Created, Acknowledged
    <2>4. Done(c.target)
      BY <2>2, <2>3
    <2>5. Done(c.target)'
      BY <2>1, <2>4 DEF Done, stores
    <2> QED
      BY <2>1, <2>5 DEF SettledOK, IsCreate, Done
  <1> QED
    BY <1>1, <1>3, <1>4

\* A create after the acknowledgement of its key can only replay or be refused.
LEMMA SettledCreateStep ==
    ASSUME SafetyInv, SettledInv, [Next]_vars, NEW r \in settled, IsCreate(r)
    PROVE  SettledOK(r)'
  <1>0. /\ r \in Requests /\ phase \in [Requests -> Phases]
        /\ reservations \in [Slots -> Reservation \cup {None}]
    BY DEF SafetyInv, TypeInv, TypeOK
  <1>1. /\ phase[r] \in {"reserve", "acked", "mismatch", "failed"}
        /\ IsKeyed(r) /\ Completed(Slot(r)) /\ command[r] \in Commands
    BY <1>0 DEF SettledInv, SettledOK, SafetyInv, TypeInv, HandlerOK
  <1>2. command'[r] = command[r]
    BY <1>0, <1>1, CreatedStays DEF Created
  <1>3. PICK s \in Slots : s = Slot(r)
    BY <1>0, <1>1, SlotType
  <1>4. Completed(s)' /\ Slot(r)' = s /\ IsCreate(r)' /\ IsKeyed(r)'
    BY <1>1, <1>2, <1>3, CompletedStays DEF Slot, IsCreate, IsKeyed
  <1>5. phase'[r] \in {"reserve", "acked", "mismatch", "failed"}
    <2>1. ASSUME NEW q \in Requests,
                 Arrive(q) \/ CreateStep(q) \/ UpdateStep(q) \/ Publish(q) \/ Abort(q), q # r
          PROVE  phase'[r] = phase[r]
      BY <1>0, <2>1, OthersSame DEF SafetyInv, TypeInv, Same
    <2>2. ~Reserve(r)
      <3> SUFFICES ASSUME Reserve(r)
                   PROVE  FALSE
        OBVIOUS
      <3>1. reservations'[s].state = "reserved"
        BY <1>3 DEF Reserve
      <3> QED
        BY <1>4, <3>1 DEF Completed
    <2>3. ASSUME Arrive(r) \/ Publish(r) \/ UpdateStep(r)
          PROVE  FALSE
      BY <1>1, <2>3 DEF Arrive, StartCreate, StartUpdate, Publish, UpdateStep, LoadContext,
         Find, FindRefuses, Update
    <2>4. ASSUME CreateStep(r)
          PROVE  phase'[r] \in {"acked", "mismatch"}
      BY <1>0, <1>1, <2>2, <2>4 DEF CreateStep, ReplayCompleted, PayloadMismatch, Insert,
         InsertErrors, RecheckMissing, SelectStored, UpsertLast, Complete, GoTo
    <2>5. ASSUME Abort(r)
          PROVE  phase'[r] = "failed"
      BY <1>0, <2>5 DEF Abort, GoTo
    <2>6. ASSUME NEW q \in Requests, NEW w \in Writes, Land(q, w)
          PROVE  phase'[r] = phase[r]
      BY <2>6 DEF Land, handlers
    <2>7. ASSUME Restart
          PROVE  phase'[r] \in {phase[r], "failed"}
      BY <1>0, <1>1, <2>7 DEF Restart
    <2>8. ASSUME UNCHANGED vars
          PROVE  phase'[r] = phase[r]
      BY <2>8 DEF vars, handlers
    <2> QED
      BY <1>0, <1>1, <2>1, <2>3, <2>4, <2>5, <2>6, <2>7, <2>8 DEF Next, Serve
  <1> QED
    BY <1>1, <1>3, <1>4, <1>5 DEF SettledOK, Completed

\* An edit or delete after the acknowledgement of its message looks into the
\* message's bucket, whatever the channel's last message is by then.
LEMMA SettledUpdateStep ==
    ASSUME SafetyInv, SettledInv, [Next]_vars, TypeOK', NEW r \in settled, ~IsCreate(r)
    PROVE  SettledOK(r)'
  <1>0. /\ r \in Requests /\ phase \in [Requests -> Phases]
        /\ upper \in [Requests -> Nat] /\ identity \in [Requests -> Identity \cup {None}]
        /\ rows \in [MessageIds -> Row \cup {None}]
        /\ lastMessage \in Identity \cup {None}
    BY DEF SafetyInv, TypeInv, TypeOK
  <1>1. /\ phase[r] # "idle" /\ phase[r] # "not_found" /\ Done(command[r].target)
        /\ phase[r] = "find" => Visible(command[r].target, upper[r])
        /\ command[r] \in Commands /\ command[r].op # "create"
    BY <1>0 DEF SettledInv, SettledOK, SafetyInv, TypeInv, HandlerOK, IsCreate
  <1>2. PICK m \in MessageIds : m = command[r].target
    BY <1>1, CommandType
  <1>3. Done(m) /\ Done(m)' /\ rows'[m].at = rows[m].at
    BY <1>1, <1>2, StepGrows, DoneStays DEF StoresGrow, Done
  <1>4. ASSUME phase'[r] = phase[r], command'[r] = command[r], upper'[r] = upper[r]
        PROVE  SettledOK(r)'
    BY <1>1, <1>2, <1>3, <1>4 DEF SettledOK, IsCreate, Visible, Done
  <1>5. ASSUME command'[r] = command[r], phase'[r] \notin {"idle", "find", "not_found"}
        PROVE  SettledOK(r)'
    BY <1>1, <1>2, <1>3, <1>5 DEF SettledOK, IsCreate, Done
  <1>6. ASSUME NEW q \in Requests,
               Arrive(q) \/ CreateStep(q) \/ UpdateStep(q) \/ Publish(q) \/ Abort(q), q # r
        PROVE  SettledOK(r)'
    <2>1. upper'[r] = upper[r]
      BY <1>0, <1>6 DEF Arrive, StartCreate, StartUpdate, CreateStep, Reserve, ReplayCompleted,
         PayloadMismatch, Insert, InsertErrors, RecheckMissing, SelectStored, UpsertLast,
         Complete, UpdateStep, LoadContext, Find, FindRefuses, Update, Publish, Abort
    <2> QED
      BY <1>0, <1>4, <1>6, <2>1, OthersSame DEF SafetyInv, TypeInv, Same
  <1>7. CASE Arrive(r) \/ CreateStep(r)
    BY <1>0, <1>1, <1>7 DEF Arrive, StartCreate, StartUpdate, CreateStep, Reserve, ReplayCompleted,
       PayloadMismatch, Insert, InsertErrors, RecheckMissing, SelectStored, UpsertLast, Complete,
       SafetyInv, TypeInv, HandlerOK, CreatePhases, IsCreate
  <1>8. CASE LoadContext(r)
    <2>1. lastMessage # None /\ rows[m].at <= lastMessage.at
      BY <1>3 DEF Done
    <2>2. upper'[r] = Bucket(lastMessage.at) /\ phase'[r] = "find" /\ UNCHANGED <<stores, command>>
      BY <1>0, <1>8, <2>1 DEF LoadContext, GoTo
    <2>3. rows[m].at \in Nat /\ lastMessage.at \in Nat
      BY <1>0, <1>3, <2>1, RowType, IdentityType DEF Done
    <2>4. Bucket(rows[m].at) <= Bucket(lastMessage.at)
      BY <2>1, <2>3, DivMonotone, BoundAssumption DEF Bucket
    <2> QED
      BY <1>1, <1>2, <1>3, <2>2, <2>4 DEF SettledOK, IsCreate, Visible, Done, stores
  <1>9. CASE Find(r) \/ Update(r) \/ Publish(r) \/ Abort(r)
    BY <1>0, <1>5, <1>9 DEF Find, Update, Publish, Abort, GoTo, handlers
  <1>10. CASE FindRefuses(r)
    <2>1. phase'[r] \in {"forbidden", "conflict"} /\ command'[r] = command[r]
      BY <1>0, <1>1, <1>10 DEF FindRefuses, GoTo
    <2> QED
      BY <1>5, <2>1
  <1>11. ASSUME NEW q \in Requests, NEW w \in Writes, Land(q, w)
         PROVE  SettledOK(r)'
    BY <1>4, <1>11 DEF Land, handlers
  <1>12. CASE Restart
    <2>1. phase'[r] \in {phase[r], "failed", "acked"} /\ command'[r] = command[r]
          /\ upper'[r] = upper[r]
      BY <1>0, <1>12 DEF Restart
    <2> QED
      BY <1>4, <1>5, <2>1
  <1>13. CASE UNCHANGED vars
    BY <1>4, <1>13 DEF vars, handlers
  <1> QED
    BY <1>6, <1>7, <1>8, <1>9, <1>10, <1>11, <1>12, <1>13 DEF Next, Serve, UpdateStep

\* Nobody is settled later than at the start.
LEMMA SettledGrows ==
    ASSUME SafetyInv, [Next]_vars, NEW r \in settled', r \notin settled
    PROVE  r \in Requests /\ Arrive(r)
  <1>1. ASSUME NEW q \in Requests, Arrive(q)
        PROVE  r = q
    BY <1>1 DEF Arrive, StartCreate, StartUpdate
  <1>2. ASSUME NEW q \in Requests, CreateStep(q) \/ UpdateStep(q) \/ Publish(q) \/ Abort(q)
        PROVE  FALSE
    BY <1>2 DEF CreateStep, Reserve, ReplayCompleted, PayloadMismatch, Insert, InsertErrors,
       RecheckMissing, SelectStored, UpsertLast, Complete, UpdateStep, LoadContext, Find,
       FindRefuses, Update, Publish, Abort, history
  <1>3. ASSUME NEW q \in Requests, NEW w \in Writes, Land(q, w)
        PROVE  FALSE
    BY <1>3 DEF Land, history
  <1>4. ASSUME Restart \/ UNCHANGED vars
        PROVE  FALSE
    BY <1>4 DEF Restart, vars, history
  <1> QED
    BY <1>1, <1>2, <1>3, <1>4 DEF Next, Serve

LEMMA NextSettledInv == SafetyInv /\ SettledInv /\ [Next]_vars => SettledInv'
  <1> SUFFICES ASSUME SafetyInv, SettledInv, [Next]_vars
               PROVE  SettledInv'
    OBVIOUS
  <1>1. TypeOK'
    BY NextSafetyInv DEF SafetyInv, TypeInv
  <1>2. \A r \in Requests : phase'[r] \in Acknowledged /\ IsKeyed(r)' => Completed(Slot(r))'
    BY AckedKeyStep
  <1>3. ASSUME NEW r \in settled', r \notin settled
        PROVE  SettledOK(r)'
    BY <1>3, SettledGrows, SettledAtStart
  <1>4. ASSUME NEW r \in settled
        PROVE  SettledOK(r)'
    BY <1>1, SettledCreateStep, SettledUpdateStep
  <1> QED
    BY <1>2, <1>3, <1>4 DEF SettledInv

LEMMA SettledInvariant == Spec => []SettledInv
  <1>1. Init => SettledInv
    BY DEF Init, SettledInv, Acknowledged
  <1> QED
    BY <1>1, SafetyInvariant, NextSettledInv, PTL DEF Spec

\* A request whose key was acknowledged before it started writes nothing and
\* publishes nothing: it replays the stored message, is refused, or fails.
THEOREM RetriesOnlyReplay == Spec => []NoRepublishAfterAck
  <1>1. SettledInv => NoRepublishAfterAck
    BY DEF SettledInv, SettledOK, NoRepublishAfterAck
  <1> QED
    BY <1>1, SettledInvariant, PTL

\* An edit or delete that starts after its message was acknowledged finds it:
\* the bucket it looks into first is never older than the message's own.
THEOREM AcknowledgedFound == Spec => []AcknowledgedIsNeverNotFound
  <1>1. SettledInv => AcknowledgedIsNeverNotFound
    BY DEF SettledInv, SettledOK, AcknowledgedIsNeverNotFound
  <1> QED
    BY <1>1, SettledInvariant, PTL

-----------------------------------------------------------------------------
(***************************************************************************)
(* MessageWrites implements MessageRegister: each applied INSERT is a      *)
(* Post, each applied conditional UPDATE an Edit or a Tombstone, and every *)
(* other step a stutter.                                                   *)
(***************************************************************************)

LEMMA CommandContents ==
    ASSUME NEW c \in Commands
    PROVE  /\ c.op \in {"create", "edit"} => c.content \in Contents
           /\ c.op = "delete" => c.content = Empty
  BY CommandsAssumption DEF CreateCommand, EditCommand, DeleteCommand

LEMMA InsertPosts ==
    ASSUME SafetyInv, NEW r \in Requests, Sends(r, "insert"), InsertIfNotExists(r)
    PROVE  UNCHANGED rows \/ \E m \in MessageIds : Register!Post(m)
  <1>1. command[r] \in Commands /\ IsCreate(r) /\ identity[r] \in Identity
    BY SenderFacts DEF Writes, Created
  <1>2. identity[r].id \in MessageIds /\ identity[r].at \in Times
    BY <1>1, IdentityType
  <1>3. command[r].principal \in Principals /\ command[r].content \in Contents
    BY <1>1, CommandType, CommandContents DEF IsCreate
  <1>4. rows \in [MessageIds -> Row \cup {None}]
    BY DEF SafetyInv, TypeInv, TypeOK
  <1>5. CASE rows[identity[r].id] = None
    <2>1. rows' = [rows EXCEPT ![identity[r].id] =
             [author |-> command[r].principal, content |-> command[r].content,
              version |-> 1, deleted |-> FALSE, at |-> identity[r].at]]
      BY <1>5, <1>4, <1>2 DEF InsertIfNotExists, FirstVersion
    <2>2. Register!Post(identity[r].id)
      BY <1>2, <1>3, <1>5, <2>1 DEF Register!Post
    <2> QED
      BY <1>2, <2>2
  <1>6. CASE rows[identity[r].id] # None
    BY <1>2, <1>4, <1>6 DEF InsertIfNotExists
  <1> QED
    BY <1>5, <1>6

\* Built on base, the edit or delete is the register's next version of base.
LEMMA BuiltOnIsNext ==
    ASSUME NEW r \in Requests, command[r] \in Commands, ~IsCreate(r),
           NEW base \in Row, BuiltOn(r, base)
    PROVE  \/ \E c \in Contents :
                 snapshot[r] = [base EXCEPT !.content = c, !.version = base.version + 1]
           \/ snapshot[r] = [base EXCEPT !.content = Empty, !.version = base.version + 1,
                                         !.deleted = TRUE]
  <1>1. CASE command[r].op = "edit"
    <2>1. command[r].content \in Contents
      BY <1>1, CommandContents
    <2>2. base.deleted = FALSE
      BY DEF BuiltOn, Row
    <2>3. (command[r].op = "delete") = base.deleted
      BY <1>1, <2>2
    <2>4. snapshot[r] = [base EXCEPT !.content = command[r].content,
                                    !.version = base.version + 1,
                                    !.deleted = base.deleted]
      BY <2>3 DEF BuiltOn
    <2>5. snapshot[r] = [base EXCEPT !.content = command[r].content,
                                    !.version = base.version + 1]
      BY <2>4 DEF Row
    <2> QED
      BY <2>1, <2>5
  <1>2. CASE command[r].op = "delete"
    <2>1. command[r].content = Empty
      BY <1>2, CommandContents
    <2>2. (command[r].op = "delete") = TRUE
      BY <1>2
    <2> QED
      BY <2>1, <2>2 DEF BuiltOn
  <1> QED
    BY <1>1, <1>2, CommandType DEF IsCreate

LEMMA UpdateMoves ==
    ASSUME SafetyInv, NEW r \in Requests, Sends(r, "update"), UpdateIfVersion(r)
    PROVE  UNCHANGED rows \/ \E m \in MessageIds : Register!Edit(m) \/ Register!Tombstone(m)
  <1>1. command[r] \in Commands /\ identity[r] \in Identity /\ snapshot[r] \in Row
    BY SenderFacts DEF Writes
  <1>2. PICK base \in Row : BuiltOn(r, base)
    BY SenderFacts DEF Writes
  <1>3. ~IsCreate(r)
    BY DEF Sends, Unanswered, Writes, SafetyInv, TypeInv, HandlerOK, FlightOK, UpdatePhases
  <1>4. PICK m \in MessageIds : m = identity[r].id
    BY <1>1, IdentityType
  <1>5. rows \in [MessageIds -> Row \cup {None}]
    BY DEF SafetyInv, TypeInv, TypeOK
  <1>6. CASE rows[m] = base /\ rows' = [rows EXCEPT ![m] = snapshot[r]]
    <2>1. Register!Live(m)
      BY <1>2, <1>6, NoneIsNoValue DEF Register!Live, BuiltOn
    <2>2. ASSUME NEW c \in Contents,
                 snapshot[r] = [base EXCEPT !.content = c, !.version = base.version + 1]
          PROVE  Register!Edit(m)
      <3>1. rows' = [rows EXCEPT ![m] =
               [rows[m] EXCEPT !.content = c, !.version = rows[m].version + 1]]
        BY <1>6, <2>2
      <3> QED
        BY <2>1, <3>1, Zenon DEF Register!Edit
    <2>3. ASSUME snapshot[r] = [base EXCEPT !.content = Empty, !.version = base.version + 1,
                                            !.deleted = TRUE]
          PROVE  Register!Tombstone(m)
      <3>1. rows' = [rows EXCEPT ![m] =
               [rows[m] EXCEPT !.content = Empty, !.version = rows[m].version + 1,
                               !.deleted = TRUE]]
        BY <1>6, <2>3
      <3> QED
        BY <2>1, <3>1, Zenon DEF Register!Tombstone
    <2> QED
      BY <1>1, <1>2, <1>3, <2>2, <2>3, BuiltOnIsNext
  <1>7. CASE ~(rows[m] # None /\ rows[m].version = command[r].expected)
    BY <1>4, <1>5, <1>7 DEF UpdateIfVersion
  <1>8. CASE rows[m] # None /\ rows[m].version = command[r].expected
    <2>1. rows[m] = base
      BY <1>1, <1>2, <1>4, <1>8, UpdateEffect DEF SafetyInv, TypeInv, TypeOK, StoresOK
    <2>2. rows' = [rows EXCEPT ![m] = snapshot[r]]
      BY <1>4, <1>8 DEF UpdateIfVersion
    <2> QED
      BY <1>6, <2>1, <2>2
  <1> QED
    BY <1>7, <1>8

LEMMA RegisterStep ==
    ASSUME SafetyInv, [Next]_vars
    PROVE  [Register!Next]_rows
  <1>1. CASE UNCHANGED stores
    BY <1>1 DEF stores
  <1>2. ASSUME NEW r \in Requests, NEW w \in Writes, Sends(r, w), Write(r, w)
        PROVE  [Register!Next]_rows
    <2>1. CASE w = "reserve"
      BY <1>2, <2>1 DEF Write, ReserveKey
    <2>2. CASE w = "insert"
      BY <1>2, <2>2, InsertPosts DEF Write, Register!Next
    <2>3. CASE w = "upsert"
      BY <1>2, <2>3 DEF Write, UpsertLastMessage
    <2>4. CASE w = "complete"
      BY <1>2, <2>4 DEF Write, CompleteKey
    <2>5. CASE w = "update"
      BY <1>2, <2>5, UpdateMoves DEF Write, Register!Next
    <2> QED
      BY <2>1, <2>2, <2>3, <2>4, <2>5 DEF Writes
  <1> QED
    BY <1>1, <1>2, StepWrites

\* Whatever fails, lands late or is retried, a stored message is written once
\* and then moves version by version until its tombstone.
THEOREM RegisterImplemented == Spec => ImplementsRegister
  <1>1. Init => Register!Init
    BY DEF Init, Register!Init
  <1>2. SafetyInv /\ [Next]_vars => [Register!Next]_rows
    BY RegisterStep
  <1> QED
    BY <1>1, <1>2, SafetyInvariant, PTL DEF Spec, ImplementsRegister, Register!Spec

=============================================================================
