------------------------ MODULE MessageHistoryProofs ------------------------
(***************************************************************************)
(* Proofs about MessageHistory, for every value of its constants.  The     *)
(* reader takes no lock and remembers one cursor, so the inductive         *)
(* invariant relates the cursor and the scanned buckets to the rows that   *)
(* other requests write meanwhile.                                         *)
(***************************************************************************)
EXTENDS MessageHistory, MessageSafetyProofs, FiniteSetTheorems, FunctionTheorems

Stored == {m \in MessageIds : rows[m] # None}

\* The client meets k before m.
Ahead(m, k) == Beyond(Position(m), Position(k))

Ordered(S) ==
    /\ \A m \in S : ~Ahead(m, m)
    /\ \A m, k \in S : m # k => Ahead(m, k) \/ Ahead(k, m)
    /\ \A m, k, j \in S : Ahead(m, k) /\ Ahead(k, j) => Ahead(m, j)

-----------------------------------------------------------------------------
(* The n nearest ids.                                                       *)

\* Whatever is left out of a page has a full page of ids before it.
LEMMA NearestIsNearest ==
    ASSUME NEW S, IsFiniteSet(S), Ordered(S), NEW n \in Nat
    PROVE  /\ Nearest(S, n) \subseteq S
           /\ \A m \in S \ Nearest(S, n) :
                 /\ Cardinality(Nearest(S, n)) >= n
                 /\ \A k \in Nearest(S, n) : Ahead(m, k)
           /\ Cardinality(S) <= n => Nearest(S, n) = S
  <1> DEFINE Behind(m) == {k \in S : Ahead(m, k)}
             size == Cardinality(S)
             rank == [m \in S |-> Cardinality(Behind(m))]
             near == Nearest(S, n)
  <1>0. size \in Nat
    BY FS_CardinalityType
  <1>1. ASSUME NEW m \in S
        PROVE  /\ IsFiniteSet(Behind(m)) /\ Cardinality(Behind(m)) \in Nat
               /\ Cardinality(Behind(m)) < size
    <2>1. Behind(m) \in SUBSET S /\ m \notin Behind(m)
      BY DEF Ordered
    <2>2. IsFiniteSet(Behind(m)) /\ Cardinality(Behind(m)) <= size
          /\ (size = Cardinality(Behind(m)) => S = Behind(m))
      BY <2>1, FS_Subset
    <2>3. Cardinality(Behind(m)) \in Nat
      BY <2>2, FS_CardinalityType
    <2> QED
      BY <1>0, <2>1, <2>2, <2>3
  <1>10. \A m \in S : rank[m] = Cardinality(Behind(m))
    OBVIOUS
  <1>11. rank \in [S -> {rank[m] : m \in S}]
    OBVIOUS
  <1>2. ASSUME NEW m \in S, NEW k \in S, Ahead(m, k)
        PROVE  Cardinality(Behind(k)) < Cardinality(Behind(m))
    <2>1. Behind(k) \in SUBSET Behind(m) /\ k \in Behind(m) /\ k \notin Behind(k)
      BY <1>2 DEF Ordered
    <2>2. Cardinality(Behind(k)) <= Cardinality(Behind(m))
          /\ (Cardinality(Behind(m)) = Cardinality(Behind(k)) => Behind(m) = Behind(k))
      BY <1>1, <2>1, FS_Subset
    <2>3. Behind(m) # Behind(k)
      BY <2>1
    <2>4. Cardinality(Behind(m)) \in Nat /\ Cardinality(Behind(k)) \in Nat
      BY <1>1
    <2> HIDE DEF Behind
    <2> QED
      BY <2>2, <2>3, <2>4
  <1>12. \A m \in S : m \in near <=> rank[m] < n
    BY <1>10 DEF Nearest, Ahead
  <1> HIDE DEF Behind, rank, size
  <1>3. \A m \in S : rank[m] \in 0..(size - 1)
    BY <1>0, <1>1, <1>10
  <1>4. \A m, k \in S : rank[m] = rank[k] => m = k
    <2> SUFFICES ASSUME NEW m \in S, NEW k \in S, m # k
                 PROVE  rank[m] # rank[k]
      OBVIOUS
    <2>1. CASE Ahead(m, k)
      BY <1>1, <1>2, <1>10, <2>1
    <2>2. CASE Ahead(k, m)
      BY <1>1, <1>2, <1>10, <2>2
    <2> QED
      BY <2>1, <2>2 DEF Ordered
  <1>6. near \subseteq S
    BY DEF Nearest
  <1>7. ASSUME NEW m \in S \ near, NEW k \in near
        PROVE  Ahead(m, k)
    <2>1. rank[k] < n /\ ~(rank[m] < n) /\ m # k /\ k \in S
      BY <1>12, <1>6
    <2>2. rank[m] \in Nat /\ rank[k] \in Nat
      BY <1>0, <1>3, <2>1
    <2>3. ~Ahead(k, m)
      BY <1>2, <1>10, <2>1, <2>2
    <2> QED
      BY <2>1, <2>3 DEF Ordered
  <1>8. ASSUME NEW m \in S \ near
        PROVE  Cardinality(near) >= n
    <2>1. rank \in Injection(S, 0..(size - 1))
      <3>1. rank \in [S -> 0..(size - 1)]
        BY <1>3, <1>11
      <3> QED
        BY <1>4, <3>1, Fun_IsInj
    <2>2. IsFiniteSet(0..(size - 1)) /\ Cardinality(0..(size - 1)) = size
      BY <1>0, FS_Interval
    <2>3. rank \in Surjection(S, 0..(size - 1))
      <3> DEFINE T == 0..(size - 1)
      <3>1. IsFiniteSet(T) /\ Cardinality(S) = Cardinality(T) /\ rank \in Injection(S, T)
        BY <2>1, <2>2 DEF size
      <3> HIDE DEF T
      <3>2. rank \in Surjection(S, T)
        BY <3>1, FS_Injection
      <3> QED
        BY <3>2 DEF T
    <2>4. n <= size - 1
      BY <1>0, <1>3, <1>12
    <2>5. \A i \in 0..(n - 1) : \E k \in near : rank[k] = i
      <3> SUFFICES ASSUME NEW i \in 0..(n - 1)
                   PROVE  \E k \in near : rank[k] = i
        OBVIOUS
      <3>1. i \in 0..(size - 1) /\ i < n
        BY <1>0, <2>4
      <3>2. PICK k \in S : rank[k] = i
        BY <2>3, <3>1 DEF Surjection
      <3> QED
        BY <1>12, <3>1, <3>2
    <2> DEFINE g == [k \in near |-> rank[k]]
    <2>6. \A k \in near : rank[k] \in 0..(n - 1)
      BY <1>3, <1>12, <1>6, <1>0
    <2>7. g \in Surjection(near, 0..(n - 1))
      BY <2>5, <2>6 DEF Surjection
    <2>8. IsFiniteSet(near)
      BY <1>6, FS_Subset
    <2>9. Cardinality(0..(n - 1)) <= Cardinality(near)
      BY <2>7, <2>8, FS_Surjection
    <2>10. Cardinality(0..(n - 1)) = n
      BY FS_Interval
    <2> QED
      BY <2>8, <2>9, <2>10, FS_CardinalityType
  <1>9. size <= n => near = S
    BY <1>0, <1>3, <1>12, <1>6
  <1> QED
    BY <1>6, <1>7, <1>8, <1>9 DEF size

-----------------------------------------------------------------------------
(* The inductive invariant.                                                 *)

Asking == {"context", "scan"}

HoldsStored ==
    /\ page \cup delivered \cup owed \cup heard \subseteq Stored
    /\ cursor # None => \E c \in Stored : cursor = Position(c)
    /\ \A m \in owed : Done(m)

StageOK ==
    /\ stage \in {"online", "away"} => delivered = {}
    /\ stage # "scan" => page = {}
    /\ stage \in Asking /\ direction = "after" => cursor # None
    /\ stage = "done" => owed \subseteq delivered

Past(m) == cursor = None \/ Beyond(Position(m), cursor)

Scanned(m) ==
    IF direction = "before" THEN Bucket(rows[m].at) > bucket ELSE Bucket(rows[m].at) < bucket

\* What was delivered lies up to the cursor, what is owed beyond it.
WalkOK ==
    stage \in Asking =>
        /\ \A d \in delivered :
              cursor # None /\ (cursor = Position(d) \/ Beyond(cursor, Position(d)))
        /\ \A m \in owed \ delivered : Past(m)

\* What is owed is on the page, in a bucket still to come, or cut off by a page
\* that is full of nearer messages.
ScanOK ==
    stage = "scan" =>
        /\ cursor # None => IF direction = "before" THEN bucket <= Bucket(cursor.at)
                                                   ELSE bucket >= Bucket(cursor.at)
        /\ \A m \in page : Past(m) /\ Scanned(m)
        /\ \A m \in owed \ delivered :
              \/ m \in page
              \/ ~Scanned(m)
              \/ Cardinality(page) > Limit /\ \A k \in page : Ahead(m, k)
        /\ \A m \in owed : Bucket(rows[m].at) <= newest

ListInv == ListTypeOK /\ HoldsStored /\ StageOK /\ WalkOK /\ ScanOK

LEMMA StoredType ==
    ASSUME SafetyInv, NEW m \in Stored
    PROVE  /\ m \in MessageIds /\ m \in Nat
           /\ Position(m) \in Identity /\ Position(m) # None
           /\ Position(m).id = m /\ Position(m).at = rows[m].at
           /\ Bucket(rows[m].at) \in Nat
  <1>1. m \in MessageIds /\ rows[m] \in Row
    BY DEF Stored, SafetyInv, TypeInv, TypeOK
  <1>2. rows[m].at \in Times /\ rows[m].at \in Nat
    BY <1>1, RowType
  <1>3. Bucket(rows[m].at) \in Nat
    BY <1>2, DivType, BoundAssumption DEF Bucket
  <1>4. Position(m) \in Identity
    BY <1>1, <1>2 DEF Position, Identity
  <1> QED
    BY <1>1, <1>2, <1>3, <1>4, NoneIsNoValue DEF Position, MessageIds

LEMMA BeyondStored ==
    ASSUME SafetyInv, NEW m \in Stored, NEW k \in Stored
    PROVE  Beyond(Position(m), Position(k)) <=>
               IF direction = "before"
               THEN \/ Bucket(rows[m].at) < Bucket(rows[k].at)
                    \/ Bucket(rows[m].at) = Bucket(rows[k].at) /\ m < k
               ELSE \/ Bucket(rows[k].at) < Bucket(rows[m].at)
                    \/ Bucket(rows[m].at) = Bucket(rows[k].at) /\ k < m
  BY StoredType DEF Beyond, Precedes

LEMMA StoredOrdered ==
    ASSUME SafetyInv, NEW S \in SUBSET Stored
    PROVE  Ordered(S)
  <1>1. \A m, k \in S : Ahead(m, k) <=>
               IF direction = "before"
               THEN \/ Bucket(rows[m].at) < Bucket(rows[k].at)
                    \/ Bucket(rows[m].at) = Bucket(rows[k].at) /\ m < k
               ELSE \/ Bucket(rows[k].at) < Bucket(rows[m].at)
                    \/ Bucket(rows[m].at) = Bucket(rows[k].at) /\ k < m
    BY BeyondStored DEF Ahead
  <1>2. \A m \in S : Bucket(rows[m].at) \in Nat /\ m \in Nat
    BY StoredType
  <1>3. \A m \in S : ~Ahead(m, m)
    BY <1>1, <1>2
  <1>4. \A m, k \in S : m # k => Ahead(m, k) \/ Ahead(k, m)
    BY <1>1, <1>2
  <1>5. \A m, k, j \in S : Ahead(m, k) /\ Ahead(k, j) => Ahead(m, j)
    BY <1>1, <1>2
  <1> QED
    BY <1>3, <1>4, <1>5 DEF Ordered

\* A stored message is stored for good, at the same position, and a message
\* that is done stays done.
LEMMA StoredStays ==
    ASSUME SafetyInv, [Next]_vars, NEW m \in Stored
    PROVE  /\ m \in Stored' /\ Position(m)' = Position(m) /\ rows'[m].at = rows[m].at
           /\ Done(m) => Done(m)'
  <1>1. m \in MessageIds /\ rows[m] # None
    BY DEF Stored
  <1>2. rows'[m] # None /\ rows'[m].at = rows[m].at
    BY <1>1, StepGrows DEF StoresGrow
  <1>3. TypeOK'
    BY NextSafetyInv DEF SafetyInv, TypeInv
  <1>4. Done(m) => Done(m)'
    BY <1>1, <1>3, StepGrows, DoneStays
  <1> QED
    BY <1>1, <1>2, <1>4 DEF Stored, Position

\* The stores hold what was published and what was acknowledged.
LEMMA FramedIsStored ==
    ASSUME SafetyInv
    PROVE  Framed \subseteq Stored
  <1> SUFFICES ASSUME NEW f \in published
               PROVE  f.id \in Stored
    BY DEF Framed
  <1>1. f.id \in MessageIds /\ f.message \in Row
    BY DEF SafetyInv, TypeInv, TypeOK, Frame
  <1>2. Superseded(f.id, f.message)
    BY <1>1 DEF SafetyInv, VersionInv, Witnessed
  <1> QED
    BY <1>1, <1>2 DEF Superseded, Stored

LEMMA AckedIsDone ==
    ASSUME SafetyInv, NEW m \in Acked
    PROVE  m \in Stored /\ Done(m)
  <1>1. PICK r \in Requests : phase[r] \in Acknowledged /\ IsCreate(r) /\ m = identity[r].id
    BY DEF Acked
  <1>2. Done(identity[r].id) /\ identity[r] \in Identity
    BY <1>1 DEF SafetyInv, TypeInv, HandlerOK, ProgressInv, ProgressOK, Created, Acknowledged
  <1>3. m \in MessageIds
    BY <1>1, <1>2, IdentityType
  <1> QED
    BY <1>1, <1>2, <1>3 DEF Done, Stored

-----------------------------------------------------------------------------
(* Steps of the write path, between two steps of the reader.                *)

SameWalk == UNCHANGED <<direction, cursor, newest, bucket, delivered, owed, missed>>

\* The requests of others leave the reader's knowledge true, and so does a
\* restart that makes it repeat its request.
LEMMA WritesKeepListInv ==
    ASSUME SafetyInv, ListInv, [Next]_vars, SameWalk,
           \/ stage' = stage /\ page' = page
           \/ page' = {} /\ stage' = (IF stage = "scan" THEN "context" ELSE stage)
           \/ page' = {} /\ stage = "online" /\ stage' = "away",
           heard' \in {heard, Framed}
    PROVE  ListInv'
  <1>1. /\ page \subseteq Stored /\ delivered \subseteq Stored /\ owed \subseteq Stored
        /\ heard \subseteq Stored /\ page' \subseteq page /\ heard' \subseteq Stored
    BY FramedIsStored DEF ListInv, HoldsStored
  <1>2. \A m \in Stored : /\ m \in Stored' /\ Position(m)' = Position(m)
                          /\ rows'[m].at = rows[m].at
                          /\ Done(m) => Done(m)'
    BY StoredStays
  <1>3. ListTypeOK'
    BY <1>1 DEF ListInv, ListTypeOK, SameWalk, Stored
  <1>4. HoldsStored'
    <2>1. page' \cup delivered' \cup owed' \cup heard' \subseteq Stored'
      BY <1>1, <1>2 DEF SameWalk
    <2>2. cursor' # None => \E c \in Stored' : cursor' = Position(c)'
      BY <1>2 DEF ListInv, HoldsStored, SameWalk
    <2>3. \A m \in owed' : Done(m)'
      BY <1>1, <1>2 DEF ListInv, HoldsStored, SameWalk
    <2> QED
      BY <2>1, <2>2, <2>3 DEF HoldsStored
  <1>5. StageOK'
    BY DEF ListInv, StageOK, SameWalk, Asking
  <1>6. \A i, j \in Identity : Beyond(i, j)' <=> Beyond(i, j)
    BY DEF Beyond, Precedes, SameWalk
  <1>7. \A m \in Stored : (Past(m)' <=> Past(m)) /\ (Scanned(m)' <=> Scanned(m))
    BY <1>2 DEF Past, Scanned, Beyond, SameWalk
  <1>8. WalkOK'
    <2> SUFFICES ASSUME stage' \in Asking
                 PROVE  /\ \A d \in delivered :
                              cursor # None /\ (cursor = Position(d)' \/ Beyond(cursor, Position(d))')
                        /\ \A m \in owed \ delivered : Past(m)'
      BY DEF WalkOK, SameWalk
    <2>1. stage \in Asking
      BY DEF Asking
    <2>2. \A d \in delivered : Beyond(cursor, Position(d))' <=> Beyond(cursor, Position(d))
      BY <1>1, <1>2 DEF Beyond, SameWalk
    <2> QED
      BY <1>1, <1>2, <1>7, <2>1, <2>2 DEF ListInv, WalkOK
  <1>9. ScanOK'
    <2> SUFFICES ASSUME stage' = "scan"
                 PROVE  ScanOK'
      BY DEF ScanOK
    <2>1. stage = "scan" /\ page' = page
      OBVIOUS
    <2>2. \A m, k \in Stored : Ahead(m, k)' <=> Ahead(m, k)
      BY <1>2 DEF Ahead, Beyond, SameWalk
    <2> QED
      BY <1>1, <1>2, <1>7, <2>1, <2>2 DEF ListInv, ScanOK, SameWalk
  <1> QED
    BY <1>3, <1>4, <1>5, <1>8, <1>9 DEF ListInv

-----------------------------------------------------------------------------
(* Steps of the reader.                                                     *)

LEMMA DisconnectStep ==
    ASSUME SafetyInv, ListInv, UNCHANGED vars, Disconnect
    PROVE  ListInv'
  <1>1. page = {}
    BY DEF Disconnect, ListInv, StageOK
  <1> QED
    BY <1>1, WritesKeepListInv DEF Disconnect, request, SameWalk

\* A chain begins with nothing delivered, and owes what was acknowledged.
LEMMA OpenLatestStep ==
    ASSUME SafetyInv, ListInv, UNCHANGED vars, OpenLatest
    PROVE  ListInv'
  <1>1. /\ stage' = "context" /\ direction' = "before" /\ cursor' = None /\ owed' = Acked
        /\ UNCHANGED <<newest, bucket, page, delivered, heard, missed>>
    BY DEF OpenLatest
  <1>2. delivered = {} /\ page = {}
    BY DEF OpenLatest, ListInv, StageOK
  <1>3. Acked \subseteq Stored /\ \A m \in Acked : Done(m)
    BY AckedIsDone
  <1>4. Stored' = Stored /\ \A m : Done(m)' <=> Done(m)
    BY DEF vars, stores, Stored, Done
  <1>5. ListTypeOK'
    BY <1>1, <1>3 DEF ListInv, ListTypeOK, Stored
  <1>6. HoldsStored'
    BY <1>1, <1>2, <1>3, <1>4 DEF ListInv, HoldsStored
  <1>7. StageOK' /\ WalkOK' /\ ScanOK'
    BY <1>1, <1>2 DEF StageOK, WalkOK, ScanOK, Past
  <1> QED
    BY <1>5, <1>6, <1>7 DEF ListInv

LEMMA ReconnectStep ==
    ASSUME SafetyInv, ListInv, UNCHANGED vars, Reconnect
    PROVE  ListInv'
  <1>1. PICK m \in heard : /\ cursor' = Position(m)
                           /\ owed' = {k \in Acked : Precedes(Position(m), Position(k))}
    BY DEF Reconnect
  <1>2. /\ stage' = "context" /\ direction' = "after"
        /\ missed' = (Acked \cap Framed) \ heard
        /\ UNCHANGED <<newest, bucket, page, delivered, heard>>
    BY DEF Reconnect
  <1>3. delivered = {} /\ page = {}
    BY DEF Reconnect, ListInv, StageOK
  <1>4. Acked \subseteq Stored /\ \A k \in Acked : Done(k)
    BY AckedIsDone
  <1>5. /\ Stored' = Stored
        /\ \A k : Position(k)' = Position(k) /\ (Done(k)' <=> Done(k))
    BY DEF vars, stores, Stored, Position, Done
  <1>6. m \in Stored /\ Position(m) \in Identity /\ Position(m) # None
    BY StoredType DEF ListInv, HoldsStored
  <1>7. ListTypeOK'
    BY <1>1, <1>2, <1>4, <1>6 DEF ListInv, ListTypeOK, Stored
  <1>8. HoldsStored'
    <2>1. owed' \subseteq Acked
      BY <1>1
    <2> QED
      BY <1>1, <1>2, <1>3, <1>4, <1>5, <1>6, <2>1 DEF ListInv, HoldsStored
  <1>9. \A k \in owed' : Past(k)'
    BY <1>1, <1>2, <1>5 DEF Past, Beyond
  <1>10. StageOK' /\ WalkOK' /\ ScanOK'
    BY <1>1, <1>2, <1>3, <1>6, <1>9 DEF StageOK, WalkOK, ScanOK
  <1> QED
    BY <1>7, <1>8, <1>10 DEF ListInv

\* The bucket a request starts in hides nothing that is owed.
LEMMA LoadListContextStep ==
    ASSUME SafetyInv, ListInv, UNCHANGED vars, LoadListContext
    PROVE  ListInv'
  <1>1. PICK now \in bootClock..MaxClock :
           newest' = Bucket(IF lastMessage = None THEN CreatedAt(now) ELSE lastMessage.at)
    BY DEF LoadListContext
  <1>2. /\ stage = "context" /\ stage' = "scan" /\ page = {} /\ page' = {}
        /\ bucket' = IF cursor = None THEN newest' ELSE Bucket(cursor.at)
        /\ UNCHANGED <<direction, cursor, delivered, owed, heard, missed>>
    BY DEF LoadListContext, chain, ListInv, StageOK
  <1>3. newest' \in Nat
    <2>1. now \in Nat /\ CreatedAt(now) \in Nat
      BY BoundAssumption, DivType DEF SafetyInv, TypeInv, TypeOK, CreatedAt
    <2>2. lastMessage # None => lastMessage.at \in Nat
      BY IdentityType DEF SafetyInv, TypeInv, TypeOK
    <2> QED
      BY <1>1, <2>1, <2>2, DivType, BoundAssumption DEF Bucket
  <1>4. cursor # None => cursor.at \in Nat /\ Bucket(cursor.at) \in Nat
    BY IdentityType, DivType, BoundAssumption DEF ListInv, ListTypeOK, Bucket
  <1>5. Stored' = Stored /\ rows' = rows /\ lastMessage' = lastMessage
    BY DEF vars, stores, Stored
  <1>6. ListTypeOK'
    BY <1>2, <1>3, <1>4 DEF ListInv, ListTypeOK
  <1>7. HoldsStored' /\ StageOK' /\ WalkOK'
    BY <1>2, <1>5 DEF ListInv, HoldsStored, StageOK, WalkOK, Past, Position, Done, Beyond, Asking
  <1>8. ASSUME NEW m \in owed
        PROVE  Bucket(rows[m].at) <= newest'
    <2>1. lastMessage # None /\ rows[m].at <= lastMessage.at /\ m \in Stored
      BY <1>8 DEF ListInv, HoldsStored, Done
    <2>2. rows[m].at \in Nat /\ lastMessage.at \in Nat
      BY <2>1, RowType, IdentityType DEF SafetyInv, TypeInv, TypeOK, Stored
    <2>3. Bucket(rows[m].at) <= Bucket(lastMessage.at)
      BY <2>1, <2>2, DivMonotone, BoundAssumption DEF Bucket
    <2> QED
      BY <1>1, <2>1, <2>3
  <1>9. ASSUME NEW m \in owed \ delivered
        PROVE  ~Scanned(m)'
    <2>1. m \in Stored /\ Bucket(rows[m].at) \in Nat /\ Past(m)
      BY <1>2, StoredType DEF ListInv, HoldsStored, WalkOK, Asking
    <2>2. CASE cursor = None
      <3>1. direction = "before" /\ bucket' = newest'
        BY <1>2, <2>2 DEF ListInv, ListTypeOK, StageOK, Asking
      <3> QED
        BY <1>2, <1>3, <1>5, <1>8, <2>1, <3>1 DEF Scanned
    <2>3. CASE cursor # None
      <3>1. PICK c \in Stored : cursor = Position(c)
        BY <2>3 DEF ListInv, HoldsStored
      <3>2. cursor.at = rows[c].at /\ Bucket(rows[c].at) \in Nat
        BY <3>1, StoredType
      <3>3. Beyond(Position(m), Position(c))
        BY <2>1, <2>3, <3>1 DEF Past
      <3>4. IF direction = "before" THEN Bucket(rows[m].at) <= Bucket(rows[c].at)
                                    ELSE Bucket(rows[m].at) >= Bucket(rows[c].at)
        BY <2>1, <3>2, <3>3, BeyondStored
      <3> QED
        BY <1>2, <1>5, <2>1, <2>3, <3>2, <3>4 DEF Scanned
    <2> QED
      BY <2>2, <2>3
  <1>10. ScanOK'
    BY <1>2, <1>4, <1>5, <1>8, <1>9 DEF ScanOK
  <1> QED
    BY <1>6, <1>7, <1>10 DEF ListInv

LEMMA FoundType ==
    ASSUME SafetyInv, ListInv, NEW S \in SUBSET Stored
    PROVE  IsFiniteSet(S) /\ Ordered(S) /\ Cardinality(S) \in Nat
  <1>1. IsFiniteSet(MessageIds)
    BY FS_Interval, BoundAssumption DEF MessageIds
  <1>2. S \in SUBSET MessageIds
    BY DEF Stored
  <1>3. IsFiniteSet(S)
    BY <1>1, <1>2, FS_Subset
  <1> QED
    BY <1>3, StoredOrdered, FS_CardinalityType

\* In the bucket of the cursor the range filter decides, in every other bucket
\* of the way nothing has been met yet.
LEMMA FoundIsPast ==
    ASSUME SafetyInv, ListInv, NEW m \in Stored, Bucket(rows[m].at) = bucket
    PROVE  /\ Past(m) => PastCursor(m)
           /\ /\ PastCursor(m)
              /\ cursor # None => IF direction = "before" THEN bucket <= Bucket(cursor.at)
                                                         ELSE bucket >= Bucket(cursor.at)
              => Past(m)
  <1>1. CASE cursor = None
    BY <1>1 DEF Past, PastCursor
  <1>2. CASE cursor # None
    <2>1. PICK c \in Stored : cursor = Position(c)
      BY <1>2 DEF ListInv, HoldsStored
    <2>2. /\ cursor.id = c /\ cursor.at = rows[c].at /\ c \in Nat /\ m \in Nat
          /\ Bucket(rows[c].at) \in Nat /\ Bucket(rows[m].at) \in Nat
      BY <2>1, StoredType
    <2>3. Past(m) <=> IF direction = "before"
               THEN \/ Bucket(rows[m].at) < Bucket(rows[c].at)
                    \/ Bucket(rows[m].at) = Bucket(rows[c].at) /\ m < c
               ELSE \/ Bucket(rows[c].at) < Bucket(rows[m].at)
                    \/ Bucket(rows[m].at) = Bucket(rows[c].at) /\ c < m
      BY <1>2, <2>1, BeyondStored DEF Past
    <2> QED
      BY <1>2, <2>2, <2>3 DEF PastCursor
  <1> QED
    BY <1>1, <1>2

\* One query: what it returns lies beyond the cursor, and what it leaves behind
\* in its bucket is cut off by a full page.
LEMMA ScanBucketStep ==
    ASSUME SafetyInv, ListInv, UNCHANGED vars, ScanBucket
    PROVE  ListInv'
  <1> DEFINE n == Limit + 1 - Cardinality(page)
             near == Nearest(Found, n)
  <1>1. /\ stage = "scan" /\ stage' = "scan" /\ Scanning
        /\ page' = page \cup near
        /\ bucket' = IF direction = "before" THEN bucket - 1 ELSE bucket + 1
        /\ UNCHANGED <<direction, cursor, newest, delivered, owed, heard, missed>>
    BY DEF ScanBucket, chain
  <1>2. /\ page \in SUBSET Stored /\ owed \subseteq Stored /\ Found \in SUBSET Stored
        /\ \A m \in Found : Bucket(rows[m].at) = bucket /\ PastCursor(m)
    BY DEF ListInv, HoldsStored, Found, Stored
  <1>3. /\ IsFiniteSet(page) /\ Cardinality(page) \in Nat
        /\ IsFiniteSet(Found) /\ Ordered(Found)
    BY <1>2, FoundType
  <1>4. Limit \in Nat /\ n \in Nat /\ Cardinality(page) <= Limit
    BY <1>1, <1>3, LimitAssumption DEF Scanning
  <1>5. bucket \in Int /\ (direction = "before" => bucket \in Nat)
        /\ (direction # "before" => bucket <= newest)
    BY <1>1 DEF ListInv, ListTypeOK, Scanning, Oldest
  <1>6. /\ near \subseteq Found
        /\ \A m \in Found \ near : /\ Cardinality(near) >= n
                                   /\ \A k \in near : Ahead(m, k)
    BY <1>3, <1>4, NearestIsNearest
  <1> HIDE DEF n, near
  <1>7. /\ Stored' = Stored /\ rows' = rows
        /\ \A m : Position(m)' = Position(m) /\ (Done(m)' <=> Done(m)) /\ (Past(m)' <=> Past(m))
        /\ \A m, k : (Ahead(m, k)' <=> Ahead(m, k))
    BY <1>1 DEF vars, stores, Stored, Position, Done, Ahead, Past, Beyond
  <1>8. ListTypeOK'
    <2>1. bucket' \in Nat \cup {Oldest - 1}
      BY <1>1, <1>5 DEF Oldest, ListInv, ListTypeOK
    <2>2. page' \subseteq MessageIds
      BY <1>1, <1>2, <1>6 DEF Stored
    <2> QED
      BY <1>1, <2>1, <2>2 DEF ListInv, ListTypeOK
  <1>9. HoldsStored'
    BY <1>1, <1>2, <1>6, <1>7 DEF ListInv, HoldsStored
  <1>10. StageOK' /\ WalkOK'
    BY <1>1, <1>7 DEF ListInv, StageOK, WalkOK, Asking, Beyond
  <1>11. cursor # None => /\ Bucket(cursor.at) \in Nat
                          /\ IF direction = "before" THEN bucket <= Bucket(cursor.at)
                                                     ELSE bucket >= Bucket(cursor.at)
    <2>1. cursor # None => Bucket(cursor.at) \in Nat
      BY IdentityType, DivType, BoundAssumption DEF ListInv, ListTypeOK, Bucket
    <2> QED
      BY <1>1, <2>1 DEF ListInv, ScanOK
  <1>12. ASSUME NEW m \in page'
         PROVE  Past(m) /\ Scanned(m)'
    <2>1. CASE m \in page
      <3>1. Past(m) /\ Scanned(m) /\ Bucket(rows[m].at) \in Nat
        BY <1>1, <1>2, <2>1, StoredType DEF ListInv, ScanOK
      <3> QED
        BY <1>1, <1>5, <1>7, <3>1 DEF Scanned
    <2>2. CASE m \in near
      <3>1. m \in Stored /\ Bucket(rows[m].at) = bucket /\ PastCursor(m)
        BY <1>2, <1>6, <2>2
      <3>2. Past(m)
        BY <1>11, <3>1, FoundIsPast
      <3> QED
        BY <1>1, <1>5, <1>7, <3>1, <3>2 DEF Scanned
    <2> QED
      BY <1>1, <2>1, <2>2
  <1>13. ASSUME NEW m \in owed \ delivered, m \notin page', Scanned(m)'
         PROVE  Cardinality(page') > Limit /\ \A k \in page' : Ahead(m, k)
    <2>1. m \in Stored /\ Bucket(rows[m].at) \in Nat /\ Past(m) /\ m \notin page
      BY <1>1, <1>2, <1>13, StoredType DEF ListInv, WalkOK, Asking
    <2>2. ~Scanned(m)
      BY <1>1, <1>3, <1>4, <2>1 DEF ListInv, ScanOK
    <2>3. Bucket(rows[m].at) = bucket
      BY <1>1, <1>5, <1>7, <1>13, <2>1, <2>2 DEF Scanned
    <2>4. m \in Found \ near
      BY <1>1, <1>13, <2>1, <2>3, FoundIsPast DEF Found, Stored
    <2>5. Cardinality(near) >= n /\ \A k \in near : Ahead(m, k)
      BY <1>6, <2>4
    <2>6. \A k \in page : Ahead(m, k)
      <3> SUFFICES ASSUME NEW k \in page
                   PROVE  Ahead(m, k)
        OBVIOUS
      <3>1. k \in Stored /\ Scanned(k) /\ Bucket(rows[k].at) \in Nat
        BY <1>1, <1>2, StoredType DEF ListInv, ScanOK
      <3> QED
        BY <1>5, <2>1, <2>3, <3>1, BeyondStored DEF Ahead, Scanned
    <2>7. page \cap near = {}
      <3> SUFFICES ASSUME NEW k \in page, k \in near
                   PROVE  FALSE
        OBVIOUS
      <3>1. Scanned(k) /\ Bucket(rows[k].at) = bucket
        BY <1>1, <1>2, <1>6 DEF ListInv, ScanOK
      <3> QED
        BY <1>5, <3>1 DEF Scanned
    <2>8. IsFiniteSet(near) /\ Cardinality(near) \in Nat
      BY <1>3, <1>6, FS_Subset, FS_CardinalityType
    <2>9. Cardinality(page') = Cardinality(page) + Cardinality(near)
      <3>1. Cardinality(page \cap near) = 0
        BY <2>7, FS_EmptySet
      <3>2. Cardinality(page \cup near)
               = Cardinality(page) + Cardinality(near) - Cardinality(page \cap near)
        BY <1>3, <2>8, FS_Union
      <3> QED
        BY <1>1, <1>3, <2>8, <3>1, <3>2
    <2>10. Cardinality(page') > Limit
      BY <1>3, <1>4, <2>5, <2>8, <2>9 DEF n
    <2> QED
      BY <1>1, <2>5, <2>6, <2>10
  <1>14. ScanOK'
    <2>1. cursor # None => IF direction = "before" THEN bucket' <= Bucket(cursor.at)
                                                   ELSE bucket' >= Bucket(cursor.at)
      BY <1>1, <1>5, <1>11
    <2>2. \A m \in owed : Bucket(rows[m].at) <= newest
      BY <1>1 DEF ListInv, ScanOK
    <2> QED
      BY <1>1, <1>7, <1>12, <1>13, <2>1, <2>2 DEF ScanOK
  <1> QED
    BY <1>8, <1>9, <1>10, <1>14 DEF ListInv

LEMMA KeptOfPage ==
    ASSUME SafetyInv, ListInv
    PROVE  /\ Kept \subseteq page
           /\ \A m \in page \ Kept, k \in Kept : Ahead(m, k)
           /\ Cardinality(page) <= Limit => Kept = page
  <1>1. page \in SUBSET Stored
    BY DEF ListInv, HoldsStored
  <1>2. IsFiniteSet(page) /\ Ordered(page)
    BY <1>1, FoundType
  <1>3. Limit \in Nat
    BY LimitAssumption
  <1> QED
    BY <1>2, <1>3, NearestIsNearest DEF Kept

\* The way has no bucket left that could hold a message that is owed.
LEMMA LastPageStep ==
    ASSUME SafetyInv, ListInv, UNCHANGED vars, LastPage
    PROVE  ListInv'
  <1>1. /\ stage = "scan" /\ stage' = "done" /\ page' = {} /\ delivered' = delivered \cup Kept
        /\ ~Scanning /\ Cardinality(page) <= Limit
        /\ UNCHANGED <<direction, cursor, newest, bucket, owed, heard, missed>>
    BY DEF LastPage
  <1>2. Kept = page /\ page \subseteq Stored /\ owed \subseteq Stored
    BY <1>1, KeptOfPage DEF ListInv, HoldsStored
  <1>3. /\ Stored' = Stored
        /\ \A m : Position(m)' = Position(m) /\ (Done(m)' <=> Done(m))
    BY DEF vars, stores, Stored, Position, Done
  <1>4. owed \subseteq delivered'
    <2> SUFFICES ASSUME NEW m \in owed \ delivered
                 PROVE  m \in page
      BY <1>1, <1>2
    <2>1. Bucket(rows[m].at) \in Nat /\ Bucket(rows[m].at) <= newest
      BY <1>1, <1>2, StoredType DEF ListInv, ScanOK
    <2>2. bucket \in Int /\ newest \in Nat
          /\ ~(IF direction = "before" THEN bucket >= Oldest ELSE bucket <= newest)
      BY <1>1 DEF ListInv, ListTypeOK, Scanning, Oldest
    <2>3. Scanned(m)
      BY <2>1, <2>2 DEF Scanned, Oldest
    <2>4. ~(Cardinality(page) > Limit)
      <3>1. Cardinality(page) \in Nat /\ Limit \in Nat
        BY <1>2, FoundType, LimitAssumption
      <3> QED
        BY <1>1, <3>1
    <2> QED
      BY <1>1, <2>3, <2>4 DEF ListInv, ScanOK
  <1>5. ListTypeOK'
    BY <1>1, <1>2 DEF ListInv, ListTypeOK, Stored
  <1>6. HoldsStored'
    BY <1>1, <1>2, <1>3 DEF ListInv, HoldsStored
  <1>7. StageOK' /\ WalkOK' /\ ScanOK'
    BY <1>1, <1>4 DEF StageOK, WalkOK, ScanOK, Asking
  <1> QED
    BY <1>5, <1>6, <1>7 DEF ListInv

\* The cursor is the last message of the page that was kept: everything kept
\* lies up to it, everything that is owed and was not kept beyond it.
LEMMA NextPageStep ==
    ASSUME SafetyInv, ListInv, UNCHANGED vars, NextPage
    PROVE  ListInv'
  <1>1. /\ stage = "scan" /\ stage' = "context" /\ page' = {} /\ delivered' = delivered \cup Kept
        /\ UNCHANGED <<direction, newest, bucket, owed, heard, missed>>
    BY DEF NextPage
  <1>2. PICK c \in Kept : /\ \A k \in Kept \ {c} : Beyond(Position(c), Position(k))
                          /\ cursor' = Position(c)
    BY DEF NextPage
  <1>3. /\ page \subseteq Stored /\ owed \subseteq Stored /\ delivered \subseteq Stored
        /\ Kept \subseteq page /\ c \in Stored /\ c \in page
    BY KeptOfPage DEF ListInv, HoldsStored
  <1>4. Position(c) \in Identity /\ Position(c) # None
    BY <1>3, StoredType
  <1>5. /\ Stored' = Stored
        /\ \A m : Position(m)' = Position(m) /\ (Done(m)' <=> Done(m))
        /\ \A i, j : Beyond(i, j)' <=> Beyond(i, j)
    BY <1>1 DEF vars, stores, Stored, Position, Done, Beyond
  <1>6. ListTypeOK'
    BY <1>1, <1>2, <1>3, <1>4 DEF ListInv, ListTypeOK, Stored
  <1>7. HoldsStored'
    BY <1>1, <1>2, <1>3, <1>5 DEF ListInv, HoldsStored
  <1>8. ASSUME NEW d \in delivered'
        PROVE  Position(c) = Position(d) \/ Beyond(Position(c), Position(d))
    <2>1. CASE d \in Kept
      BY <1>2, <2>1
    <2>2. CASE d \in delivered
      <3>1. cursor # None /\ (cursor = Position(d) \/ Beyond(cursor, Position(d)))
        BY <1>1, <2>2 DEF ListInv, WalkOK, Asking
      <3>2. Beyond(Position(c), cursor)
        BY <1>1, <1>3, <3>1 DEF ListInv, ScanOK, Past
      <3>3. PICK b \in Stored : cursor = Position(b)
        BY <3>1 DEF ListInv, HoldsStored
      <3>4. {b, c, d} \in SUBSET Stored
        BY <1>3, <2>2, <3>3
      <3>5. Ordered({b, c, d})
        BY <3>4, StoredOrdered
      <3>6. Ahead(c, b) /\ (Position(b) = Position(d) \/ Ahead(b, d))
        BY <3>1, <3>2, <3>3 DEF Ahead
      <3> QED
        BY <3>5, <3>6 DEF Ordered, Ahead
    <2> QED
      BY <1>1, <2>1, <2>2
  <1>9. ASSUME NEW m \in owed \ delivered'
        PROVE  Beyond(Position(m), Position(c))
    <2>1. m \in owed \ delivered /\ m \notin Kept /\ m \in Stored
      BY <1>1, <1>3
    <2>2. CASE m \in page
      BY <1>2, <2>1, <2>2, KeptOfPage DEF Ahead
    <2>3. CASE ~Scanned(m)
      <3>1. Scanned(c) /\ Bucket(rows[c].at) \in Nat /\ Bucket(rows[m].at) \in Nat
            /\ bucket \in Int
        BY <1>1, <1>3, <2>1, StoredType DEF ListInv, ScanOK, ListTypeOK, Oldest
      <3> QED
        BY <1>3, <2>1, <2>3, <3>1, BeyondStored DEF Scanned
    <2>4. CASE \A k \in page : Ahead(m, k)
      BY <1>3, <2>4 DEF Ahead
    <2> QED
      BY <1>1, <2>1, <2>2, <2>3, <2>4 DEF ListInv, ScanOK
  <1>10. WalkOK'
    BY <1>1, <1>2, <1>4, <1>5, <1>8, <1>9 DEF WalkOK, Past
  <1>11. StageOK' /\ ScanOK'
    BY <1>1, <1>2, <1>4 DEF StageOK, ScanOK
  <1> QED
    BY <1>6, <1>7, <1>10, <1>11 DEF ListInv

LEMMA ListFailsStep ==
    ASSUME SafetyInv, ListInv, UNCHANGED vars, ListFails
    PROVE  ListInv'
  BY WritesKeepListInv DEF ListFails, chain, SameWalk

-----------------------------------------------------------------------------
(* The theorems.                                                            *)

LEMMA InitListInv == HistoryInit => ListInv
  <1> SUFFICES ASSUME HistoryInit
               PROVE  ListInv
    OBVIOUS
  <1>1. ListTypeOK /\ HoldsStored /\ StageOK /\ WalkOK /\ ScanOK
    BY DEF HistoryInit, ListInit, ListTypeOK, HoldsStored, StageOK, WalkOK, ScanOK, Asking
  <1> QED
    BY <1>1 DEF ListInv

LEMMA NextListInv ==
    ASSUME SafetyInv, ListInv, [HistoryNext]_<<vars, reader>>
    PROVE  SafetyInv' /\ ListInv'
  <1>1. [Next]_vars
    BY DEF HistoryNext, RestartDropsClient, Next
  <1>2. SafetyInv'
    BY <1>1, NextSafetyInv
  <1> SUFFICES ListInv'
    BY <1>2
  <1>3. CASE UNCHANGED reader
    <2>1. SameWalk /\ stage' = stage /\ page' = page /\ heard' = heard
      BY <1>3 DEF reader, request, chain, SameWalk
    <2> QED
      BY <1>1, <2>1, WritesKeepListInv
  <1>4. CASE RestartDropsClient
    <2>1. SameWalk /\ page' = {}
      BY <1>4 DEF RestartDropsClient, SameWalk
    <2>2. heard' \in {heard, Framed}
      BY <1>4 DEF RestartDropsClient
    <2>3. CASE stage = "online"
      <3>1. stage' = "away"
        BY <1>4, <2>3 DEF RestartDropsClient
      <3> QED
        BY <1>1, <2>1, <2>2, <2>3, <3>1, WritesKeepListInv
    <2>4. CASE stage # "online"
      <3>1. stage' = (IF stage = "scan" THEN "context" ELSE stage)
        BY <1>4, <2>4 DEF RestartDropsClient
      <3> QED
        BY <1>1, <2>1, <2>2, <3>1, WritesKeepListInv
    <2> QED
      BY <2>3, <2>4
  <1>5. CASE ListStep /\ UNCHANGED vars
    <2>1. CASE Disconnect
      BY <1>5, <2>1, DisconnectStep
    <2>2. CASE OpenLatest
      BY <1>5, <2>2, OpenLatestStep
    <2>3. CASE Reconnect
      BY <1>5, <2>3, ReconnectStep
    <2>4. CASE LoadListContext
      BY <1>5, <2>4, LoadListContextStep
    <2>5. CASE ScanBucket
      BY <1>5, <2>5, ScanBucketStep
    <2>6. CASE LastPage
      BY <1>5, <2>6, LastPageStep
    <2>7. CASE NextPage
      BY <1>5, <2>7, NextPageStep
    <2>8. CASE ListFails
      BY <1>5, <2>8, ListFailsStep
    <2> QED
      BY <1>5, <2>1, <2>2, <2>3, <2>4, <2>5, <2>6, <2>7, <2>8 DEF ListStep
  <1> QED
    BY <1>3, <1>4, <1>5 DEF HistoryNext

LEMMA ListInvariant == HistorySpec => [](SafetyInv /\ ListInv)
  <1>1. HistoryInit => SafetyInv /\ ListInv
    BY InitListInv, InitSafetyInv DEF HistoryInit
  <1>2. SafetyInv /\ ListInv /\ [HistoryNext]_<<vars, reader>> => (SafetyInv /\ ListInv)'
    BY NextListInv
  <1> QED
    BY <1>1, <1>2, PTL DEF HistorySpec

\* What the reader holds between two queries has its type, the bucket below the
\* channel's own day included.
THEOREM ListTypeCorrect == HistorySpec => []ListTypeOK
  <1>1. ListInv => ListTypeOK
    BY DEF ListInv
  <1> QED
    BY <1>1, ListInvariant, PTL

\* A client that follows the cursors to the end holds every message that was
\* acknowledged before it began, whatever is written between its queries.
THEOREM ChainsMissNothing == HistorySpec => []ChainMissesNothing
  <1>1. ListInv => ChainMissesNothing
    BY DEF ListInv, StageOK, ChainMissesNothing
  <1> QED
    BY <1>1, ListInvariant, PTL

\* A page holds nothing that an earlier page of the chain held, and nothing from
\* before it on the way.
THEOREM PagesOnlyMoveOn == HistorySpec => []PagesMoveOn
  <1>1. SafetyInv /\ ListInv => PagesMoveOn
    <2> SUFFICES ASSUME SafetyInv, ListInv, NEW m \in page, NEW d \in delivered
                 PROVE  Beyond(Position(m), Position(d))
      BY DEF PagesMoveOn
    <2>1. stage = "scan" /\ m \in Stored /\ d \in Stored
      BY DEF ListInv, StageOK, HoldsStored
    <2>2. cursor # None /\ (cursor = Position(d) \/ Beyond(cursor, Position(d)))
      BY <2>1 DEF ListInv, WalkOK, Asking
    <2>3. Beyond(Position(m), cursor)
      BY <2>1, <2>2 DEF ListInv, ScanOK, Past
    <2>4. PICK b \in Stored : cursor = Position(b)
      BY <2>2 DEF ListInv, HoldsStored
    <2>5. {m, b, d} \in SUBSET Stored
      BY <2>1, <2>4
    <2>6. Ordered({m, b, d})
      BY <2>5, StoredOrdered
    <2> QED
      BY <2>2, <2>3, <2>4, <2>6 DEF Ordered, Ahead
  <1> QED
    BY <1>1, ListInvariant, PTL

=============================================================================
