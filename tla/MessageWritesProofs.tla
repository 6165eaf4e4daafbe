------------------------ MODULE MessageWritesProofs ------------------------
(* Proofs about MessageWrites, for every value of its constants. *)
EXTENDS MessageWrites, TLAPS

(***************************************************************************)
(* Type correctness.  TypeOK is not inductive: what a handler may do next  *)
(* depends on which command it serves, so HandlersOK ties the phase of a   *)
(* handler, and the statements it left in flight, to its command.          *)
(***************************************************************************)

CreatePhases == {"reserve", "insert", "recheck", "reinsert", "select", "upsert", "complete"}

UpdatePhases == {"load", "find", "update"}

InFlight(r, w) == <<r, w>> \in inflight

HandlerOK(r) ==
    /\ phase[r] # "idle" => command[r] \in Commands
    /\ phase[r] \in CreatePhases => IsCreate(r)
    /\ phase[r] \in {"reserve", "complete"} => IsKeyed(r)
    /\ phase[r] \in UpdatePhases => ~IsCreate(r)
    /\ phase[r] # "idle" /\ IsCreate(r) => identity[r] \in Identity
    /\ phase[r] \in {"update", "publishing", "acked"} =>
         identity[r] \in Identity /\ snapshot[r] \in Row
    /\ phase[r] \in {"upsert", "complete"} => snapshot[r] \in Row

FlightOK(r) ==
    /\ phase[r] = "idle" => \A w \in Writes : ~InFlight(r, w)
    /\ \A w \in Writes \ {"insert"} : InFlight(r, w) => phase[r] = "failed"
    /\ \A w \in Writes \ {"update"} : InFlight(r, w) => IsCreate(r)
    /\ InFlight(r, "reserve") \/ InFlight(r, "complete") => IsKeyed(r)
    /\ InFlight(r, "update") => /\ ~IsCreate(r)
                                /\ identity[r] \in Identity
                                /\ snapshot[r] \in Row

TypeInv == TypeOK /\ \A r \in Requests : HandlerOK(r) /\ FlightOK(r)

LEMMA DivType ==
    ASSUME NEW a \in Nat, NEW d \in Nat \ {0}
    PROVE  a \div d \in Nat
  BY SMT

LEMMA DivMonotone ==
    ASSUME NEW a \in Nat, NEW b \in Nat, NEW d \in Nat \ {0}, a <= b
    PROVE  a \div d <= b \div d
  BY SMTT(30)

LEMMA InitTypeInv == Init => TypeInv
  BY BoundAssumption, SentinelAssumption
     DEF Init, TypeInv, TypeOK, HandlerOK, FlightOK, InFlight, Phases, CreatePhases, UpdatePhases

LEMMA CommandType ==
    ASSUME NEW c \in Commands
    PROVE  /\ c.op \in {"create", "edit", "delete"}
           /\ c.principal \in Principals
           /\ c.op = "create" => c.key \in Keys \cup {NoKey} /\ c.content \in Contents
           /\ c.op # "create" => /\ c.target \in MessageIds
                                /\ c.expected \in Nat
                                /\ c.content \in Contents \cup {Empty}
  BY CommandsAssumption DEF CreateCommand, EditCommand, DeleteCommand

LEMMA ClockType ==
    ASSUME bootClock \in 1..MaxClock, NEW now \in bootClock..MaxClock
    PROVE  CreatedAt(now) \in Times /\ CreatedAt(now) \in Nat
  <1>1. now \in 1..MaxClock /\ now \in Nat
    BY BoundAssumption
  <1>2. CreatedAt(now) \in Nat
    BY <1>1, BoundAssumption, DivType DEF CreatedAt
  <1>3. CreatedAt(now) <= MaxClock \div Second
    BY <1>1, BoundAssumption, DivMonotone DEF CreatedAt
  <1>4. MaxClock \div Second \in Nat
    BY BoundAssumption, DivType
  <1> QED
    BY <1>2, <1>3, <1>4 DEF Times

LEMMA TimesAreNat == Times \subseteq Nat
  BY BoundAssumption, DivType DEF Times

LEMMA BucketType ==
    ASSUME NEW at \in Nat
    PROVE  Bucket(at) \in Nat
  BY BoundAssumption, DivType DEF Bucket

LEMMA FirstVersionType ==
    ASSUME NEW r \in Requests, command[r] \in Commands, IsCreate(r), NEW i \in Identity
    PROVE  FirstVersion(r, i) \in Row
  BY CommandType DEF FirstVersion, Row, Identity, IsCreate

StoresOK ==
    /\ reservations \in [Slots -> Reservation \cup {None}]
    /\ rows \in [MessageIds -> Row \cup {None}]
    /\ lastMessage \in Identity \cup {None}

LEMMA SlotType ==
    ASSUME NEW r \in Requests, command[r] \in Commands, IsKeyed(r)
    PROVE  Slot(r) \in Slots
  BY CommandType, SentinelAssumption DEF Slot, Slots, IsKeyed, IsCreate

(* A statement leaves the stores well typed, whoever applies it. *)

LEMMA ReserveKeyType ==
    ASSUME StoresOK, NEW r \in Requests, command[r] \in Commands, IsKeyed(r),
           identity[r] \in Identity, ReserveKey(r)
    PROVE  StoresOK'
  BY CommandType, SlotType DEF StoresOK, ReserveKey, Reservation, IsKeyed, IsCreate

LEMMA InsertType ==
    ASSUME StoresOK, NEW r \in Requests, command[r] \in Commands, IsCreate(r),
           identity[r] \in Identity, InsertIfNotExists(r)
    PROVE  StoresOK'
  BY FirstVersionType DEF StoresOK, InsertIfNotExists

LEMMA UpsertType ==
    ASSUME StoresOK, NEW r \in Requests, identity[r] \in Identity, UpsertLastMessage(r)
    PROVE  StoresOK'
  BY DEF StoresOK, UpsertLastMessage

LEMMA CompleteKeyType ==
    ASSUME StoresOK, NEW r \in Requests, CompleteKey(r)
    PROVE  StoresOK'
  BY DEF StoresOK, CompleteKey, Reservation

LEMMA UpdateType ==
    ASSUME StoresOK, NEW r \in Requests, snapshot[r] \in Row, UpdateIfVersion(r)
    PROVE  StoresOK'
  BY DEF StoresOK, UpdateIfVersion

(* A step of handler r leaves every other handler as it was; a statement of   *)
(* another handler may land.                                                 *)

Same(q) ==
    /\ phase'[q] = phase[q]
    /\ command'[q] = command[q]
    /\ identity'[q] = identity[q]
    /\ snapshot'[q] = snapshot[q]
    /\ \A w \in Writes : InFlight(q, w)' => InFlight(q, w)

LEMMA SameHandler ==
    ASSUME NEW q \in Requests, HandlerOK(q), FlightOK(q), Same(q)
    PROVE  HandlerOK(q)' /\ FlightOK(q)'
  BY DEF HandlerOK, FlightOK, Same, IsCreate, IsKeyed, Writes

LEMMA TypeInvStep ==
    ASSUME TypeInv, TypeOK', NEW r \in Requests, HandlerOK(r)', FlightOK(r)',
           \A q \in Requests \ {r} : Same(q)
    PROVE  TypeInv'
  BY SameHandler DEF TypeInv

LEMMA StartCreateType ==
    ASSUME TypeInv, NEW r \in Requests, NEW c \in Commands, StartCreate(r, c)
    PROVE  TypeInv'
  <1> USE DEF StartCreate, GoTo, process, stores
  <1>1. PICK now \in bootClock..MaxClock :
           LET id == IF now > nextMessageId THEN now ELSE nextMessageId + 1 IN
           /\ id <= MaxId
           /\ nextMessageId' = id
           /\ identity' = [identity EXCEPT ![r] = [id |-> id, at |-> CreatedAt(now)]]
    OBVIOUS
  <1>2. nextMessageId' \in MessageIds
    BY <1>1, BoundAssumption DEF TypeInv, TypeOK, MessageIds
  <1>3. [id |-> nextMessageId', at |-> CreatedAt(now)] \in Identity
    BY <1>2, ClockType DEF TypeInv, TypeOK, Identity
  <1>4. TypeOK'
    BY <1>1, <1>2, <1>3 DEF TypeInv, TypeOK, MessageIds, Phases, Active
  <1>5. HandlerOK(r)' /\ FlightOK(r)'
    BY <1>1, <1>3 DEF TypeInv, TypeOK, HandlerOK, FlightOK, InFlight, IsCreate, IsKeyed,
       CreatePhases, UpdatePhases, Writes
  <1>6. \A q \in Requests \ {r} : Same(q)
    BY DEF TypeInv, TypeOK, Same, InFlight
  <1> QED
    BY <1>4, <1>5, <1>6, TypeInvStep

LEMMA StartUpdateType ==
    ASSUME TypeInv, NEW r \in Requests, NEW c \in Commands, StartUpdate(r, c)
    PROVE  TypeInv'
  <1> USE DEF StartUpdate, GoTo, process, stores
  <1>1. TypeOK'
    BY DEF TypeInv, TypeOK, Phases, Active
  <1>2. HandlerOK(r)' /\ FlightOK(r)'
    BY DEF TypeInv, TypeOK, HandlerOK, FlightOK, InFlight, IsCreate, IsKeyed,
       CreatePhases, UpdatePhases, Writes
  <1>3. \A q \in Requests \ {r} : Same(q)
    BY DEF TypeInv, TypeOK, Same, InFlight
  <1> QED
    BY <1>1, <1>2, <1>3, TypeInvStep

LEMMA ReservedType ==
    ASSUME StoresOK, NEW r \in Requests, command[r] \in Commands, IsKeyed(r),
           identity[r] \in Identity, ReserveKey(r)
    PROVE  reservations'[Slot(r)] \in Reservation
  <1>1. reservations'[Slot(r)] \in Reservation \cup {None}
    BY ReserveKeyType, SlotType DEF StoresOK
  <1>2. reservations'[Slot(r)] # None
    <2>1. CASE reservations[Slot(r)] # None
      BY <2>1, SlotType DEF StoresOK, ReserveKey
    <2>2. CASE reservations[Slot(r)] = None
      <3>1. reservations'[Slot(r)] = [fingerprint |-> command[r].content,
                                      state |-> "reserved", identity |-> identity[r]]
        BY <2>2, SlotType DEF StoresOK, ReserveKey
      <3>2. reservations'[Slot(r)] \in Reservation
        BY <3>1, CommandType DEF Reservation, IsKeyed, IsCreate
      <3> QED
        BY <3>2, SentinelAssumption
    <2> QED
      BY <2>1, <2>2
  <1> QED
    BY <1>1, <1>2

LEMMA ReserveStepType ==
    ASSUME TypeInv, NEW r \in Requests, Reserve(r)
    PROVE  TypeInv'
  <1> USE DEF Reserve, GoTo, process
  <1>1. command[r] \in Commands /\ IsKeyed(r) /\ IsCreate(r) /\ identity[r] \in Identity
    BY DEF TypeInv, TypeOK, HandlerOK, CreatePhases
  <1>2. StoresOK' /\ reservations'[Slot(r)] \in Reservation
    BY <1>1, ReserveKeyType, ReservedType DEF TypeInv, TypeOK, StoresOK
  <1>3. identity' \in [Requests -> Identity \cup {None}]
    BY <1>2 DEF TypeInv, TypeOK, Reservation
  <1>4. TypeOK'
    BY <1>2, <1>3 DEF TypeInv, TypeOK, StoresOK, Phases, Active, history
  <1>5. HandlerOK(r)' /\ FlightOK(r)'
    BY <1>1, <1>2 DEF TypeInv, TypeOK, HandlerOK, FlightOK, InFlight, IsCreate, IsKeyed,
       CreatePhases, UpdatePhases, Writes, Reservation
  <1>6. \A q \in Requests \ {r} : Same(q)
    BY DEF TypeInv, TypeOK, Same, InFlight
  <1> QED
    BY <1>4, <1>5, <1>6, TypeInvStep

LEMMA ReplayCompletedType ==
    ASSUME TypeInv, NEW r \in Requests, ReplayCompleted(r)
    PROVE  TypeInv'
  <1> USE DEF ReplayCompleted, GoTo, process, stores, history
  <1> DEFINE stored == reservations[Slot(r)]
  <1>1. command[r] \in Commands /\ IsKeyed(r) /\ IsCreate(r)
    BY DEF TypeInv, TypeOK, HandlerOK, CreatePhases
  <1>2. stored.identity \in Identity /\ FirstVersion(r, stored.identity) \in Row
    BY <1>1, SlotType, FirstVersionType DEF TypeInv, TypeOK, Reservation
  <1>3. TypeOK'
    BY <1>2 DEF TypeInv, TypeOK, Phases, Acknowledged
  <1>4. HandlerOK(r)' /\ FlightOK(r)'
    BY <1>1, <1>2 DEF TypeInv, TypeOK, HandlerOK, FlightOK, InFlight, IsCreate, IsKeyed,
       CreatePhases, UpdatePhases, Writes
  <1>5. \A q \in Requests \ {r} : Same(q)
    BY DEF TypeInv, TypeOK, Same, InFlight
  <1> QED
    BY <1>3, <1>4, <1>5, TypeInvStep

LEMMA InsertStepType ==
    ASSUME TypeInv, NEW r \in Requests, Insert(r)
    PROVE  TypeInv'
  <1> USE DEF Insert, GoTo, process, history
  <1>1. command[r] \in Commands /\ IsCreate(r) /\ identity[r] \in Identity
    BY DEF TypeInv, TypeOK, HandlerOK, CreatePhases
  <1>2. StoresOK'
    BY <1>1, InsertType DEF TypeInv, TypeOK, StoresOK
  <1>3. TypeOK'
    BY <1>2 DEF TypeInv, TypeOK, StoresOK, Phases, Active
  <1>4. HandlerOK(r)' /\ FlightOK(r)'
    BY <1>1 DEF TypeInv, TypeOK, HandlerOK, FlightOK, InFlight, IsCreate, IsKeyed,
       CreatePhases, UpdatePhases, Writes
  <1>5. \A q \in Requests \ {r} : Same(q)
    BY DEF TypeInv, TypeOK, Same, InFlight
  <1> QED
    BY <1>3, <1>4, <1>5, TypeInvStep

(* A step that only moves handler r on, with the stores as they are. *)

LEMMA MoveType ==
    ASSUME TypeInv, NEW r \in Requests,
           PayloadMismatch(r) \/ InsertErrors(r) \/ RecheckMissing(r) \/ SelectStored(r)
             \/ FindRefuses(r) \/ Abort(r)
    PROVE  TypeInv'
  <1> USE DEF GoTo, process, stores, history
  <1>1. TypeOK'
    <2>1. phase' \in [Requests -> Phases]
      BY DEF TypeInv, TypeOK, Phases, Active, Refused,
         PayloadMismatch, InsertErrors, RecheckMissing, SelectStored, FindRefuses, Abort
    <2>2. snapshot' \in [Requests -> Row \cup {None}]
      BY DEF TypeInv, TypeOK, HandlerOK, CreatePhases, Identity,
         PayloadMismatch, InsertErrors, RecheckMissing, SelectStored, FindRefuses, Abort
    <2>3. inflight' \subseteq Requests \X Writes
      BY DEF TypeInv, TypeOK, Unanswered, Writes,
         PayloadMismatch, InsertErrors, RecheckMissing, SelectStored, FindRefuses, Abort
    <2> QED
      BY <2>1, <2>2, <2>3 DEF TypeInv, TypeOK,
         PayloadMismatch, InsertErrors, RecheckMissing, SelectStored, FindRefuses, Abort
  <1>2. HandlerOK(r)' /\ FlightOK(r)'
    BY DEF TypeInv, TypeOK, HandlerOK, FlightOK, InFlight, IsCreate, IsKeyed,
       CreatePhases, UpdatePhases, Writes, Unanswered, Active, Identity,
       PayloadMismatch, InsertErrors, RecheckMissing, SelectStored, FindRefuses, Abort
  <1>3. \A q \in Requests \ {r} : Same(q)
    BY DEF TypeInv, TypeOK, Same, InFlight, Unanswered,
       PayloadMismatch, InsertErrors, RecheckMissing, SelectStored, FindRefuses, Abort
  <1> QED
    BY <1>1, <1>2, <1>3, TypeInvStep

(* A step that applies one statement and moves handler r on. *)

LEMMA WriteStepType ==
    ASSUME TypeInv, NEW r \in Requests, UpsertLast(r) \/ Complete(r) \/ Update(r)
    PROVE  TypeInv'
  <1> USE DEF GoTo, process, history
  <1>1. StoresOK'
    <2>1. CASE UpsertLast(r)
      BY <2>1, UpsertType
      DEF UpsertLast, TypeInv, TypeOK, StoresOK, HandlerOK, CreatePhases
    <2>2. CASE Complete(r)
      BY <2>2, CompleteKeyType DEF Complete, TypeInv, TypeOK, StoresOK
    <2>3. CASE Update(r)
      BY <2>3, UpdateType DEF Update, TypeInv, TypeOK, StoresOK, HandlerOK
    <2> QED
      BY <2>1, <2>2, <2>3
  <1>2. TypeOK'
    BY <1>1 DEF TypeInv, TypeOK, StoresOK, Phases, Active, Acknowledged, Refused,
       UpsertLast, Complete, Update
  <1>3. HandlerOK(r)' /\ FlightOK(r)'
    BY DEF TypeInv, TypeOK, HandlerOK, FlightOK, InFlight, IsCreate, IsKeyed,
       CreatePhases, UpdatePhases, Writes, UpsertLast, Complete, Update
  <1>4. \A q \in Requests \ {r} : Same(q)
    BY DEF TypeInv, TypeOK, Same, InFlight, UpsertLast, Complete, Update
  <1> QED
    BY <1>2, <1>3, <1>4, TypeInvStep

LEMMA LoadContextType ==
    ASSUME TypeInv, NEW r \in Requests, LoadContext(r)
    PROVE  TypeInv'
  <1> USE DEF LoadContext, GoTo, process, stores, history
  <1>1. upper' \in [Requests -> Nat]
    <2>1. PICK now \in bootClock..MaxClock :
             upper' = [upper EXCEPT ![r] =
                 Bucket(IF lastMessage = None THEN CreatedAt(now) ELSE lastMessage.at)]
      OBVIOUS
    <2>2. (IF lastMessage = None THEN CreatedAt(now) ELSE lastMessage.at) \in Nat
      BY ClockType, TimesAreNat DEF TypeInv, TypeOK, Identity
    <2> QED
      BY <2>1, <2>2, BucketType DEF TypeInv, TypeOK
  <1>2. TypeOK'
    BY <1>1 DEF TypeInv, TypeOK, Phases, Active
  <1>3. HandlerOK(r)' /\ FlightOK(r)'
    BY DEF TypeInv, TypeOK, HandlerOK, FlightOK, InFlight, IsCreate, IsKeyed,
       CreatePhases, UpdatePhases, Writes
  <1>4. \A q \in Requests \ {r} : Same(q)
    BY DEF TypeInv, TypeOK, Same, InFlight
  <1> QED
    BY <1>2, <1>3, <1>4, TypeInvStep

LEMMA EditedType ==
    ASSUME NEW m \in Row, NEW c \in Contents \cup {Empty}, NEW v \in Nat, NEW d \in BOOLEAN
    PROVE  [m EXCEPT !.content = c, !.version = v, !.deleted = d] \in Row
  BY Zenon DEF Row

LEMMA FindType ==
    ASSUME TypeInv, NEW r \in Requests, Find(r)
    PROVE  TypeInv'
  <1> USE DEF Find, GoTo, process, stores, history
  <1> DEFINE c == command[r]
             stored == rows[c.target]
             edited == [stored EXCEPT !.content = c.content,
                                      !.version = stored.version + 1,
                                      !.deleted = (c.op = "delete")]
  <1>1. c \in Commands /\ ~IsCreate(r)
    BY DEF TypeInv, TypeOK, HandlerOK, UpdatePhases
  <1>2. c.target \in MessageIds /\ c.content \in Contents \cup {Empty}
    BY <1>1, CommandType DEF IsCreate
  <1>3. stored \in Row
    BY <1>2 DEF TypeInv, TypeOK, Visible
  <1>4. edited \in Row /\ [id |-> c.target, at |-> stored.at] \in Identity
    <2>1. (c.op = "delete") \in BOOLEAN
      OBVIOUS
    <2>2. stored.version + 1 \in Nat
      BY <1>3 DEF Row
    <2>3. edited \in Row
      BY <1>2, <1>3, <2>1, <2>2, EditedType, Zenon
    <2>4. [id |-> c.target, at |-> stored.at] \in Identity
      BY <1>2, <1>3 DEF Row, Identity
    <2> QED
      BY <2>3, <2>4
  <1>5. TypeOK'
    BY <1>4 DEF TypeInv, TypeOK, Phases, Active
  <1>6. HandlerOK(r)' /\ FlightOK(r)'
    BY <1>1, <1>4 DEF TypeInv, TypeOK, HandlerOK, FlightOK, InFlight, IsCreate, IsKeyed,
       CreatePhases, UpdatePhases, Writes
  <1>7. \A q \in Requests \ {r} : Same(q)
    BY DEF TypeInv, TypeOK, Same, InFlight
  <1> QED
    BY <1>5, <1>6, <1>7, TypeInvStep

LEMMA PublishType ==
    ASSUME TypeInv, NEW r \in Requests, Publish(r)
    PROVE  TypeInv'
  <1> USE DEF Publish, GoTo, process, stores
  <1>1. command[r] \in Commands /\ identity[r] \in Identity /\ snapshot[r] \in Row
    BY DEF TypeInv, TypeOK, HandlerOK
  <1>2. FrameKind(command[r].op) \in {"created", "updated", "deleted"}
    BY <1>1, CommandType DEF FrameKind
  <1>3. published' \subseteq Frame
    BY <1>1, <1>2 DEF TypeInv, TypeOK, Frame, Identity
  <1>4. TypeOK'
    BY <1>3 DEF TypeInv, TypeOK, Phases, Acknowledged
  <1>5. HandlerOK(r)' /\ FlightOK(r)'
    BY DEF TypeInv, TypeOK, HandlerOK, FlightOK, InFlight, IsCreate, IsKeyed,
       CreatePhases, UpdatePhases, Writes
  <1>6. \A q \in Requests \ {r} : Same(q)
    BY DEF TypeInv, TypeOK, Same, InFlight
  <1> QED
    BY <1>4, <1>5, <1>6, TypeInvStep

LEMMA LandType ==
    ASSUME TypeInv, NEW r \in Requests, NEW w \in Writes, Land(r, w)
    PROVE  TypeInv'
  <1> USE DEF Land, process, handlers, history
  <1>1. command[r] \in Commands
    BY DEF TypeInv, TypeOK, HandlerOK, FlightOK, InFlight
  <1>2. w # "update" => IsCreate(r) /\ identity[r] \in Identity
    BY DEF TypeInv, HandlerOK, FlightOK, InFlight
  <1>3. w = "reserve" => IsKeyed(r)
    BY DEF TypeInv, FlightOK, InFlight
  <1>4. w = "update" => snapshot[r] \in Row
    BY DEF TypeInv, FlightOK, InFlight
  <1>5. StoresOK
    BY DEF TypeInv, TypeOK, StoresOK
  <1>6. StoresOK'
    BY <1>1, <1>2, <1>3, <1>4, <1>5,
       ReserveKeyType, InsertType, UpsertType, CompleteKeyType, UpdateType DEF Write
  <1>7. TypeOK'
    BY <1>6 DEF TypeInv, TypeOK, StoresOK
  <1>8. \A q \in Requests : Same(q)
    BY DEF Same, InFlight
  <1> QED
    BY <1>7, <1>8, SameHandler DEF TypeInv

LEMMA RestartType ==
    ASSUME TypeInv, Restart
    PROVE  TypeInv'
  <1> USE DEF Restart, stores
  <1>1. phase' \in [Requests -> Phases]
    BY DEF TypeInv, TypeOK, Phases, Active, Acknowledged, Refused
  <1>2. inflight' \subseteq Requests \X Writes
    BY DEF TypeInv, TypeOK, Unanswered, Writes
  <1>3. nextMessageId' \in 0..MaxId
    BY BoundAssumption DEF TypeInv, TypeOK
  <1>4. TypeOK'
    BY <1>1, <1>2, <1>3 DEF TypeInv, TypeOK, history
  <1>5. ASSUME NEW q \in Requests
        PROVE  HandlerOK(q)' /\ FlightOK(q)'
    <2>1. \A w \in Writes : InFlight(q, w)' <=> InFlight(q, w) \/ w \in Unanswered(phase[q])
      BY DEF InFlight
    <2>2. phase'[q] = IF phase[q] \in Active THEN "failed"
                      ELSE IF phase[q] = "publishing" THEN "acked" ELSE phase[q]
      BY DEF TypeInv, TypeOK
    <2>3. HandlerOK(q)'
      BY <2>2 DEF TypeInv, TypeOK, HandlerOK, IsCreate, IsKeyed, CreatePhases,
         UpdatePhases, Active, history
    <2>4. FlightOK(q)'
      BY <2>1, <2>2 DEF TypeInv, TypeOK, HandlerOK, FlightOK, IsCreate, IsKeyed, CreatePhases,
         UpdatePhases, Active, Writes, Unanswered, history
    <2> QED
      BY <2>3, <2>4
  <1> QED
    BY <1>4, <1>5 DEF TypeInv

LEMMA NextTypeInv ==
    ASSUME TypeInv, [Next]_vars
    PROVE  TypeInv'
  <1>1. ASSUME NEW r \in Requests, Arrive(r)
        PROVE  TypeInv'
    BY <1>1, StartCreateType, StartUpdateType DEF Arrive
  <1>2. ASSUME NEW r \in Requests, CreateStep(r)
        PROVE  TypeInv'
    BY <1>2, ReserveStepType, ReplayCompletedType, InsertStepType, MoveType, WriteStepType
    DEF CreateStep
  <1>3. ASSUME NEW r \in Requests, UpdateStep(r)
        PROVE  TypeInv'
    BY <1>3, LoadContextType, FindType, MoveType, WriteStepType DEF UpdateStep
  <1>4. ASSUME NEW r \in Requests, Publish(r) \/ Abort(r)
        PROVE  TypeInv'
    BY <1>4, PublishType, MoveType
  <1>5. ASSUME NEW r \in Requests, NEW w \in Writes, Land(r, w)
        PROVE  TypeInv'
    BY <1>5, LandType
  <1>6. CASE Restart
    BY <1>6, RestartType
  <1>7. CASE UNCHANGED vars
    BY <1>7 DEF vars, process, stores, handlers, history, TypeInv, TypeOK, HandlerOK, FlightOK,
       InFlight, IsCreate, IsKeyed
  <1> QED
    BY <1>1, <1>2, <1>3, <1>4, <1>5, <1>6, <1>7 DEF Next, Serve

\* Every reachable state is well typed: no handler is ever in a phase that its
\* command does not have, and no statement writes anything but a whole row,
\* reservation or identity.
THEOREM TypeCorrect == Spec => []TypeOK
  <1>1. Init => TypeInv
    BY InitTypeInv
  <1>2. TypeInv /\ [Next]_vars => TypeInv'
    BY NextTypeInv
  <1>3. TypeInv => TypeOK
    BY DEF TypeInv
  <1> QED
    BY <1>1, <1>2, <1>3, PTL DEF Spec

=============================================================================
