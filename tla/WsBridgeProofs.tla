---------------------------- MODULE WsBridgeProofs ----------------------------
(* Proofs about the bridge, for any pages, sockets, faults and bounds.  The
   invariant speaks of the record the callbacks work on, so that what a callback
   keeps is stated once, whichever handler calls it.                         *)
EXTENDS WsBridge, TLAPS

SocketRecord ==
    [st : SocketStates, page : Pages \cup {None}, on : Pages \cup {None}]

Worlds == [b : Bridge, s : [Sockets -> SocketRecord], t : [Pages -> Int]]

Down == {"free", "closing"}

\* socketRef holds a socket that works, intentionallyClosingSocketRef one whose
\* close event is to come, and connectInFlightRef belongs to a ticket request or
\* to a socket that will still open or close.
RefsOK(w) ==
    /\ w.b.ref # None => w.s[w.b.ref].st \notin Down
    /\ w.b.intentional # None => w.s[w.b.intentional].st = "closing"
    /\ w.b.inFlight =>
          w.b.holder # None /\ (w.b.holder # "ticket" => w.s[w.b.holder].st \notin Down)

Subscribed(w, p) ==
    w.b.phase = "ready" /\ w.b.ref # None /\ w.s[w.b.ref].st \in {"ready", "reauth"}
      => w.s[w.b.ref].on = p /\ w.b.subscribed = p

Sound(w, p) == w \in Worlds /\ RefsOK(w) /\ Subscribed(w, p)

\* Nothing is connected, requested or timed.
Idle(b) == b.ref = None /\ ~b.timer /\ ~b.inFlight /\ b.holder # "ticket"

\* Something will move the bridge on.
Moving(w) ==
    \/ w.b.holder = "ticket" \/ w.b.ref # None
    \/ w.b.timer /\ ~w.b.inFlight
    \/ \E s \in Sockets : w.s[s].st \notin Down /\ s # w.b.ref

\* Only the sign-out that ends an attempt may outrun the bound.
Bounded(w) ==
    \A p \in Pages :
        w.t[p] \in 0..MaxStale + 1 /\ (~w.b.redirecting => w.t[p] <= MaxStale)

\* The bridge on a protected page p.
Lively(w, p) ==
    /\ Sound(w, p)
    /\ Bounded(w)
    /\ IF w.b.redirecting THEN Idle(w.b) ELSE Moving(w)

\* A user who is signed out: nothing is connected, requested or timed.
Quiet(b) ==
    /\ b.ref = None /\ b.subscribed = None /\ b.holder = None /\ ~b.inFlight
    /\ ~b.timer /\ ~b.banner /\ b.phase \in {"idle", "closed"}

\* The bridge between a sign-out and the unload of the document.
Dismissed(w) ==
    w \in Worlds /\ Quiet(w.b) /\ \A p \in Pages : w.t[p] \in 0..MaxStale + 1

Asleep ==
    /\ bridge = Fresh
    /\ sock = [s \in Sockets |-> Free]
    /\ stale = [p \in Pages |-> 0]
    /\ refreshing = {}

BridgeInv ==
    /\ session \in {"in", "out"} /\ page \in Pages \cup {Login}
    /\ refreshing \subseteq Sockets /\ calm \in BOOLEAN
    /\ page = Login => Asleep
    /\ ShouldConnect => Lively(World, page)
    /\ Leaving => Dismissed(World)

-----------------------------------------------------------------------------
(* The record of the callbacks.                                             *)

LEMMA SetType ==
    ASSUME NEW w \in Worlds, NEW b \in Bridge
    PROVE  /\ Set(w, b) \in Worlds /\ Set(w, b).b = b
           /\ Set(w, b).s = w.s /\ Set(w, b).t = w.t
  BY DEF Set, Worlds

LEMMA SetSocketType ==
    ASSUME NEW w \in Worlds, NEW s \in Sockets, NEW v \in SocketRecord
    PROVE  /\ SetSocket(w, s, v) \in Worlds /\ SetSocket(w, s, v).b = w.b
           /\ SetSocket(w, s, v).s = [w.s EXCEPT ![s] = v] /\ SetSocket(w, s, v).t = w.t
  BY DEF SetSocket, Worlds

LEMMA SetStaleType ==
    ASSUME NEW w \in Worlds, NEW p \in Pages, NEW n \in Int
    PROVE  /\ SetStale(w, p, n) \in Worlds /\ SetStale(w, p, n).b = w.b
           /\ SetStale(w, p, n).s = w.s /\ SetStale(w, p, n).t = [w.t EXCEPT ![p] = n]
  BY DEF SetStale, Worlds

LEMMA AdvanceType ==
    ASSUME NEW w \in Worlds, NEW s \in Sockets, NEW st \in SocketStates
    PROVE  LET c == Advance(w, s, st) IN
           /\ c \in Worlds /\ c.b = w.b /\ c.t = w.t
           /\ c.s[s].st = st /\ c.s[s].on = w.s[s].on
           /\ \A z \in Sockets \ {s} : c.s[z] = w.s[z]
  <1> DEFINE v == [w.s[s] EXCEPT !.st = st]
  <1>1. v \in SocketRecord /\ v.st = st /\ v.on = w.s[s].on
    BY DEF Worlds, SocketRecord
  <1>2. Advance(w, s, st) = SetSocket(w, s, v)
    BY DEF Advance
  <1> HIDE DEF v
  <1>3. w.s \in [Sockets -> SocketRecord]
    BY DEF Worlds
  <1>4. [w.s EXCEPT ![s] = v][s] = v
    BY <1>3
  <1>5. \A z \in Sockets \ {s} : [w.s EXCEPT ![s] = v][z] = w.s[z]
    BY <1>3
  <1>6. LET c == SetSocket(w, s, v) IN
           /\ c \in Worlds /\ c.b = w.b /\ c.t = w.t
           /\ c.s[s].st = st /\ c.s[s].on = w.s[s].on
           /\ \A z \in Sockets \ {s} : c.s[z] = w.s[z]
    BY <1>1, <1>4, <1>5, SetSocketType
  <1> QED
    BY <1>2, <1>6

LEMMA WorldFields ==
    ASSUME NEW w \in Worlds
    PROVE  /\ w.b \in Bridge /\ w.s \in [Sockets -> SocketRecord] /\ w.t \in [Pages -> Int]
           /\ \A s \in Sockets : w.s[s] \in SocketRecord /\ w.s[s].st \in SocketStates
           /\ w.b.ref \in Sockets \cup {None} /\ w.b.intentional \in Sockets \cup {None}
           /\ w.b.holder \in Sockets \cup {"ticket", None}
           /\ w.b.inFlight \in BOOLEAN /\ w.b.timer \in BOOLEAN /\ w.b.redirecting \in BOOLEAN
  BY DEF Worlds, Bridge, SocketRecord

-----------------------------------------------------------------------------
(* What each callback does to the fields the invariant speaks of.           *)

LEMMA ClearType ==
    ASSUME NEW w \in Worlds
    PROVE  LET c == ClearReconnectTimer(w) IN
           /\ c \in Worlds /\ c.s = w.s /\ c.t = w.t
           /\ ~c.b.timer
           /\ c.b.ref = w.b.ref /\ c.b.intentional = w.b.intentional
           /\ c.b.inFlight = w.b.inFlight /\ c.b.holder = w.b.holder
           /\ c.b.phase = w.b.phase /\ c.b.subscribed = w.b.subscribed
           /\ c.b.redirecting = w.b.redirecting /\ c.b.banner = w.b.banner
  <1> DEFINE d == [w.b EXCEPT !.timer = FALSE]
  <1>1. /\ d \in Bridge /\ ~d.timer
        /\ d.ref = w.b.ref /\ d.intentional = w.b.intentional
        /\ d.inFlight = w.b.inFlight /\ d.holder = w.b.holder
        /\ d.phase = w.b.phase /\ d.subscribed = w.b.subscribed
        /\ d.redirecting = w.b.redirecting /\ d.banner = w.b.banner
    BY WorldFields DEF Bridge
  <1>2. ClearReconnectTimer(w) = Set(w, d)
    BY DEF ClearReconnectTimer, Set, Worlds, Bridge
  <1> HIDE DEF d
  <1> QED
    BY <1>1, <1>2, SetType

LEMMA ClearSound ==
    ASSUME NEW w, NEW p, Sound(w, p)
    PROVE  Sound(ClearReconnectTimer(w), p)
  BY ClearType DEF Sound, RefsOK, Subscribed

LEMMA CloseSound ==
    ASSUME NEW w, NEW p, Sound(w, p), ~w.b.inFlight
    PROVE  LET c == CloseCurrentSocket(w) IN
           /\ Sound(c, p) /\ c.t = w.t
           /\ c.b.ref = None
           /\ c.b.timer = w.b.timer /\ c.b.inFlight = w.b.inFlight
           /\ c.b.holder = w.b.holder /\ c.b.redirecting = w.b.redirecting
  <1>0. w \in Worlds
    BY DEF Sound
  <1>1. CASE w.b.ref = None
    BY <1>0, <1>1 DEF CloseCurrentSocket
  <1>2. CASE w.b.ref # None
    <2> DEFINE d == [w.b EXCEPT !.intentional = w.b.ref, !.ref = None, !.subscribed = None]
               e == Set(w, d)
               c == Advance(e, w.b.ref, "closing")
    <2>1. /\ d \in Bridge /\ d.ref = None /\ d.intentional = w.b.ref
          /\ d.timer = w.b.timer /\ d.inFlight = w.b.inFlight
          /\ d.holder = w.b.holder /\ d.redirecting = w.b.redirecting
      BY <1>0, WorldFields DEF Bridge
    <2>2. CloseCurrentSocket(w) = c
      BY <1>2 DEF CloseCurrentSocket
    <2> HIDE DEF d
    <2>3. e \in Worlds /\ e.b = d /\ e.s = w.s /\ e.t = w.t
      BY <1>0, <2>1, SetType
    <2> HIDE DEF e
    <2>4. w.b.ref \in Sockets /\ "closing" \in SocketStates
      BY <1>0, <1>2, WorldFields DEF SocketStates
    <2>5. /\ c \in Worlds /\ c.b = d /\ c.t = w.t
          /\ c.s[w.b.ref].st = "closing"
          /\ \A z \in Sockets \ {w.b.ref} : c.s[z] = w.s[z]
      <3>1. /\ c \in Worlds /\ c.b = e.b /\ c.t = e.t
            /\ c.s[w.b.ref].st = "closing"
            /\ \A z \in Sockets \ {w.b.ref} : c.s[z] = e.s[z]
        BY <2>3, <2>4, AdvanceType
      <3> QED
        BY <2>3, <3>1
    <2> HIDE DEF c
    <2>6. RefsOK(c) /\ Subscribed(c, p)
      BY <2>1, <2>5 DEF RefsOK, Subscribed
    <2> QED
      BY <2>1, <2>2, <2>5, <2>6 DEF Sound
  <1> QED
    BY <1>1, <1>2

LEMMA CancelSound ==
    ASSUME NEW w, NEW p, Sound(w, p), NEW from \in Pages
    PROVE  LET c == CancelConnectAttempts(w, from) IN
           /\ Sound(c, p)
           /\ w.b.holder = "ticket" => c.t = [w.t EXCEPT ![from] = w.t[from] + 1]
           /\ w.b.holder # "ticket" => c.t = w.t
           /\ ~c.b.inFlight /\ c.b.holder = None
           /\ c.b.ref = w.b.ref /\ c.b.timer = w.b.timer
           /\ c.b.redirecting = w.b.redirecting
  <1> DEFINE d == [w.b EXCEPT !.inFlight = FALSE, !.holder = None]
             e == Set(w, d)
             c == CancelConnectAttempts(w, from)
  <1>0. w \in Worlds
    BY DEF Sound
  <1>1. /\ d \in Bridge /\ ~d.inFlight /\ d.holder = None
        /\ d.ref = w.b.ref /\ d.intentional = w.b.intentional
        /\ d.timer = w.b.timer /\ d.redirecting = w.b.redirecting
        /\ d.phase = w.b.phase /\ d.subscribed = w.b.subscribed
    BY <1>0, WorldFields DEF Bridge
  <1>2. c = IF w.b.holder = "ticket" THEN SetStale(e, from, w.t[from] + 1) ELSE e
    BY DEF CancelConnectAttempts
  <1> HIDE DEF d
  <1>3. e \in Worlds /\ e.b = d /\ e.s = w.s /\ e.t = w.t
    BY <1>0, <1>1, SetType
  <1>4. w.t[from] + 1 \in Int
    BY <1>0, WorldFields
  <1> HIDE DEF e
  <1>5. /\ c \in Worlds /\ c.b = d /\ c.s = w.s
        /\ w.b.holder = "ticket" => c.t = [w.t EXCEPT ![from] = w.t[from] + 1]
        /\ w.b.holder # "ticket" => c.t = w.t
    BY <1>2, <1>3, <1>4, SetStaleType
  <1> HIDE DEF c
  <1>6. Sound(c, p)
    BY <1>1, <1>5 DEF Sound, RefsOK, Subscribed
  <1>7. /\ ~c.b.inFlight /\ c.b.holder = None
        /\ c.b.ref = w.b.ref /\ c.b.timer = w.b.timer
        /\ c.b.redirecting = w.b.redirecting
    BY <1>1, <1>5
  <1> QED
    BY <1>5, <1>6, <1>7 DEF c

LEMMA FinishType ==
    ASSUME NEW w \in Worlds, NEW attempt
    PROVE  LET c == FinishConnectAttempt(w, attempt) IN
           /\ c \in Worlds /\ c.s = w.s /\ c.t = w.t
           /\ c.b.inFlight => w.b.inFlight /\ w.b.holder # attempt
           /\ c.b.ref = w.b.ref /\ c.b.intentional = w.b.intentional
           /\ c.b.timer = w.b.timer /\ c.b.holder = w.b.holder
           /\ c.b.phase = w.b.phase /\ c.b.subscribed = w.b.subscribed
           /\ c.b.redirecting = w.b.redirecting /\ c.b.banner = w.b.banner
  <1> DEFINE d == [w.b EXCEPT !.inFlight = FALSE]
             c == FinishConnectAttempt(w, attempt)
  <1>1. /\ d \in Bridge /\ ~d.inFlight
        /\ d.ref = w.b.ref /\ d.intentional = w.b.intentional
        /\ d.timer = w.b.timer /\ d.holder = w.b.holder
        /\ d.phase = w.b.phase /\ d.subscribed = w.b.subscribed
        /\ d.redirecting = w.b.redirecting /\ d.banner = w.b.banner
    BY WorldFields DEF Bridge
  <1>2. CASE w.b.holder = attempt
    <2>1. c = Set(w, d)
      BY <1>2 DEF FinishConnectAttempt
    <2> HIDE DEF d
    <2>2. c \in Worlds /\ c.b = d /\ c.s = w.s /\ c.t = w.t
      BY <1>1, <2>1, SetType
    <2> HIDE DEF c
    <2>3. /\ c \in Worlds /\ c.s = w.s /\ c.t = w.t
          /\ ~c.b.inFlight
          /\ c.b.ref = w.b.ref /\ c.b.intentional = w.b.intentional
          /\ c.b.timer = w.b.timer /\ c.b.holder = w.b.holder
          /\ c.b.phase = w.b.phase /\ c.b.subscribed = w.b.subscribed
          /\ c.b.redirecting = w.b.redirecting /\ c.b.banner = w.b.banner
      BY <1>1, <2>2
    <2> QED
      BY <2>3 DEF c
  <1>3. CASE w.b.holder # attempt
    BY <1>3 DEF FinishConnectAttempt
  <1> QED
    BY <1>2, <1>3

\* The user is on the way to the login page: everything is given up, once.
LEMMA RedirectLively ==
    ASSUME NEW w, NEW p, Sound(w, p), Bounded(w), page \in Pages, ~w.b.redirecting
    PROVE  Lively(RedirectToLogin(w), p)
  <1> DEFINE d == [w.b EXCEPT !.redirecting = TRUE]
             e == Set(w, d)
             f == CancelConnectAttempts(e, page)
             g == ClearReconnectTimer(f)
             c == CloseCurrentSocket(g)
  <1>0. w \in Worlds
    BY DEF Sound
  <1>1. /\ d \in Bridge /\ d.redirecting
        /\ d.ref = w.b.ref /\ d.intentional = w.b.intentional
        /\ d.inFlight = w.b.inFlight /\ d.holder = w.b.holder
        /\ d.phase = w.b.phase /\ d.subscribed = w.b.subscribed
    BY <1>0, WorldFields DEF Bridge
  <1>2. RedirectToLogin(w) = c
    BY DEF RedirectToLogin
  <1> HIDE DEF d
  <1>3. e \in Worlds /\ e.b = d /\ e.s = w.s /\ e.t = w.t
    BY <1>0, <1>1, SetType
  <1> HIDE DEF e
  <1>4. Sound(e, p) /\ e.b.redirecting
    BY <1>1, <1>3 DEF Sound, RefsOK, Subscribed
  <1>5. /\ Sound(f, p)
        /\ e.b.holder = "ticket" => f.t = [e.t EXCEPT ![page] = e.t[page] + 1]
        /\ e.b.holder # "ticket" => f.t = e.t
        /\ ~f.b.inFlight /\ f.b.holder = None /\ f.b.redirecting
    BY <1>4, CancelSound
  <1> HIDE DEF f
  <1>6. /\ Sound(g, p) /\ g.t = f.t /\ ~g.b.timer
        /\ ~g.b.inFlight /\ g.b.holder = None /\ g.b.redirecting
    BY <1>5, ClearSound, ClearType DEF Sound
  <1> HIDE DEF g
  <1>7. /\ Sound(c, p) /\ c.t = f.t /\ c.b.ref = None /\ ~c.b.timer
        /\ ~c.b.inFlight /\ c.b.holder = None /\ c.b.redirecting
    BY <1>6, CloseSound
  <1> HIDE DEF c
  <1>8. \A q \in Pages : c.t[q] \in 0..MaxStale + 1
    <2>1. \A q \in Pages : w.t[q] \in Int /\ w.t[q] >= 0 /\ w.t[q] <= MaxStale
      BY <1>0, WorldFields, BridgeAssumption DEF Bounded
    <2>2. w.t \in [Pages -> Int] /\ MaxStale \in Nat
      BY <1>0, WorldFields, BridgeAssumption
    <2> QED
      BY <1>3, <1>5, <1>7, <2>1, <2>2
  <1>9. Idle(c.b)
    BY <1>7, BridgeAssumption DEF Idle
  <1> QED
    BY <1>2, <1>7, <1>8, <1>9 DEF Lively, Bounded

LEMMA ScheduleType ==
    ASSUME NEW w, NEW p, Sound(w, p), NEW banner \in BOOLEAN, ShouldConnect,
           ~w.b.redirecting
    PROVE  LET c == ScheduleReconnect(w, banner) IN
           /\ Sound(c, p) /\ c.s = w.s /\ c.t = w.t
           /\ c.b.timer /\ c.b.inFlight = w.b.inFlight /\ c.b.holder = w.b.holder
           /\ c.b.ref = w.b.ref /\ ~c.b.redirecting
  <1> DEFINE d == [w.b EXCEPT !.timer = TRUE, !.banner = banner, !.phase = "closed"]
             c == ScheduleReconnect(w, banner)
  <1>0. w \in Worlds
    BY DEF Sound
  <1>1. /\ d \in Bridge /\ d.timer /\ d.phase = "closed"
        /\ d.ref = w.b.ref /\ d.intentional = w.b.intentional
        /\ d.inFlight = w.b.inFlight /\ d.holder = w.b.holder
        /\ d.redirecting = w.b.redirecting
    BY <1>0, WorldFields DEF Bridge
  <1>2. c = Set(w, d)
    BY DEF ScheduleReconnect
  <1> HIDE DEF d
  <1>3. c \in Worlds /\ c.b = d /\ c.s = w.s /\ c.t = w.t
    BY <1>0, <1>1, <1>2, SetType
  <1> HIDE DEF c
  <1>4. Sound(c, p)
    BY <1>1, <1>3 DEF Sound, RefsOK, Subscribed
  <1> QED
    BY <1>1, <1>3, <1>4 DEF c

\* Whoever holds connectInFlightRef moves the bridge on.
LEMMA BusyMoves ==
    ASSUME NEW w, w \in Worlds, RefsOK(w), w.b.inFlight
    PROVE  Moving(w)
  <1>1. CASE w.b.holder = "ticket"
    BY <1>1 DEF Moving
  <1>2. CASE w.b.ref # None
    BY <1>2 DEF Moving
  <1>3. CASE w.b.holder # "ticket" /\ w.b.ref = None
    <2>1. /\ w.b.holder \in Sockets /\ w.s[w.b.holder].st \notin Down
          /\ w.b.holder # w.b.ref
      BY <1>3, WorldFields DEF RefsOK
    <2> QED
      BY <2>1 DEF Moving
  <1> QED
    BY <1>1, <1>2, <1>3

LEMMA ScheduleLively ==
    ASSUME NEW w, NEW p, Sound(w, p), Bounded(w), NEW banner \in BOOLEAN, ShouldConnect,
           ~w.b.redirecting
    PROVE  Lively(ScheduleReconnect(w, banner), p)
  <1> DEFINE r == ScheduleReconnect(w, banner)
  <1>1. /\ Sound(r, p) /\ r.s = w.s /\ r.t = w.t
        /\ r.b.timer /\ r.b.inFlight = w.b.inFlight /\ r.b.holder = w.b.holder
        /\ r.b.ref = w.b.ref /\ ~r.b.redirecting
    BY ScheduleType
  <1> HIDE DEF r
  <1>2. Bounded(r)
    BY <1>1 DEF Bounded
  <1>3. Moving(r)
    BY <1>1, BusyMoves DEF Moving, Sound
  <1> QED
    BY <1>1, <1>2, <1>3 DEF Lively, r

\* connect() begins an attempt, unless one is under way.
LEMMA ConnectType ==
    ASSUME NEW w, NEW p, Sound(w, p)
    PROVE  LET c == Connect(w) IN
           /\ Sound(c, p) /\ c.t = w.t /\ c.b.redirecting = w.b.redirecting
           /\ IF w.b.redirecting \/ w.b.inFlight THEN c = w ELSE c.b.holder = "ticket"
  <1> DEFINE f == ClearReconnectTimer(w)
             g == CloseCurrentSocket(f)
             d == [g.b EXCEPT !.inFlight = TRUE, !.holder = "ticket", !.phase = "connecting"]
             c == Connect(w)
  <1>1. CASE w.b.redirecting \/ w.b.inFlight
    BY <1>1 DEF Connect
  <1>2. CASE ~w.b.redirecting /\ ~w.b.inFlight
    <2>1. c = Set(g, d)
      BY <1>2 DEF Connect
    <2>2. Sound(f, p) /\ f.t = w.t /\ ~f.b.inFlight /\ f.b.redirecting = w.b.redirecting
      BY <1>2, ClearSound, ClearType DEF Sound
    <2> HIDE DEF f
    <2>3. Sound(g, p) /\ g.t = w.t /\ g.b.redirecting = w.b.redirecting
      BY <2>2, CloseSound
    <2> HIDE DEF g
    <2>4. g \in Worlds
      BY <2>3 DEF Sound
    <2>5. /\ d \in Bridge /\ d.holder = "ticket" /\ d.phase = "connecting"
          /\ d.ref = g.b.ref /\ d.intentional = g.b.intentional
          /\ d.redirecting = g.b.redirecting
      BY <2>4, WorldFields DEF Bridge
    <2> HIDE DEF d
    <2>6. c \in Worlds /\ c.b = d /\ c.s = g.s /\ c.t = g.t
      BY <2>1, <2>4, <2>5, SetType
    <2> HIDE DEF c
    <2>7. Sound(c, p)
      BY <2>3, <2>5, <2>6, BridgeAssumption DEF Sound, RefsOK, Subscribed
    <2>8. c.t = w.t /\ c.b.redirecting = w.b.redirecting /\ c.b.holder = "ticket"
      BY <2>3, <2>5, <2>6
    <2> QED
      BY <1>2, <2>7, <2>8 DEF c
  <1> QED
    BY <1>1, <1>2

LEMMA ConnectLively ==
    ASSUME NEW w, NEW p, Sound(w, p), Bounded(w), w.b.redirecting => Idle(w.b)
    PROVE  Lively(Connect(w), p)
  <1> DEFINE c == Connect(w)
  <1>1. /\ Sound(c, p) /\ c.t = w.t /\ c.b.redirecting = w.b.redirecting
        /\ IF w.b.redirecting \/ w.b.inFlight THEN c = w ELSE c.b.holder = "ticket"
    BY ConnectType
  <1> HIDE DEF c
  <1>2. Bounded(c)
    BY <1>1 DEF Bounded
  <1>3. IF c.b.redirecting THEN Idle(c.b) ELSE Moving(c)
    BY <1>1, BusyMoves DEF Moving, Sound
  <1> QED
    BY <1>1, <1>2, <1>3 DEF Lively, c

-----------------------------------------------------------------------------
(* Socket events.                                                           *)

\* A socket is gone: either the one that was closed here, or the bridge lets
\* go of it and retries or redirects.
LEMMA CloseLively ==
    ASSUME NEW u, page \in Pages, Lively(u, page), session = "in",
           NEW s \in Sockets, NEW code
    PROVE  Lively(HandleSocketClose(SetSocket(u, s, Free), s, code), page)
  <1> DEFINE w == SetSocket(u, s, Free)
             r == HandleSocketClose(w, s, code)
  <1> SUFFICES Lively(r, page)
    OBVIOUS
  <1>0. /\ u \in Worlds /\ RefsOK(u) /\ Subscribed(u, page) /\ Bounded(u)
        /\ IF u.b.redirecting THEN Idle(u.b) ELSE Moving(u)
    BY DEF Lively, Sound
  <1>1. Free \in SocketRecord /\ Free.st = "free"
    BY DEF Free, SocketRecord, SocketStates
  <1>2. /\ w \in Worlds /\ w.b = u.b /\ w.t = u.t
        /\ \A z \in Sockets \ {s} : w.s[z] = u.s[z]
    <2>1. w \in Worlds /\ w.b = u.b /\ w.t = u.t /\ w.s = [u.s EXCEPT ![s] = Free]
      BY <1>0, <1>1, SetSocketType
    <2> QED
      BY <1>0, <2>1, WorldFields
  <1>3. ShouldConnect
    BY DEF ShouldConnect
  <1>4. /\ u.b.ref \in Sockets \cup {None} /\ u.b.intentional \in Sockets \cup {None}
        /\ u.b.holder \in Sockets \cup {"ticket", None} /\ s # None
    BY <1>0, WorldFields, BridgeAssumption
  <1>5. CASE u.b.intentional = s
    <2> DEFINE d == [w.b EXCEPT !.intentional = None]
               e == Set(w, d)
               c == FinishConnectAttempt(e, s)
    <2>1. r = c
      BY <1>2, <1>5 DEF HandleSocketClose
    <2>2. /\ d \in Bridge /\ d.intentional = None
          /\ d.ref = w.b.ref /\ d.timer = w.b.timer
          /\ d.inFlight = w.b.inFlight /\ d.holder = w.b.holder
          /\ d.phase = w.b.phase /\ d.subscribed = w.b.subscribed
          /\ d.redirecting = w.b.redirecting
      BY <1>2, WorldFields DEF Bridge
    <2> HIDE DEF d
    <2>3. e \in Worlds /\ e.b = d /\ e.s = w.s /\ e.t = w.t
      BY <1>2, <2>2, SetType
    <2> HIDE DEF e, w, r
    <2>4. /\ c \in Worlds /\ c.s = w.s /\ c.t = u.t
          /\ c.b.inFlight => u.b.inFlight /\ u.b.holder # s
          /\ c.b.ref = u.b.ref /\ c.b.intentional = None
          /\ c.b.timer = u.b.timer /\ c.b.holder = u.b.holder
          /\ c.b.phase = u.b.phase /\ c.b.subscribed = u.b.subscribed
          /\ c.b.redirecting = u.b.redirecting
      BY <1>2, <2>2, <2>3, FinishType
    <2> HIDE DEF c
    <2>5. u.s[s].st = "closing" /\ u.b.ref # s
      BY <1>0, <1>4, <1>5 DEF RefsOK, Down
    <2>6. RefsOK(c)
      BY <1>0, <1>2, <1>4, <2>4, <2>5 DEF RefsOK
    <2>7. Subscribed(c, page)
      BY <1>0, <1>2, <1>4, <2>4, <2>5 DEF Subscribed
    <2>8. Bounded(c)
      BY <1>0, <2>4 DEF Bounded
    <2>9. IF c.b.redirecting THEN Idle(c.b) ELSE Moving(c)
      BY <1>0, <1>2, <2>4, <2>5 DEF Idle, Moving, Down
    <2> QED
      BY <2>1, <2>4, <2>6, <2>7, <2>8, <2>9 DEF Lively, Sound
  <1>6. CASE u.b.intentional # s
    <2> DEFINE d == [w.b EXCEPT !.ref = IF @ = s THEN None ELSE @,
                                !.subscribed = None, !.phase = "closed"]
               e == Set(w, d)
               c == FinishConnectAttempt(e, s)
    <2>1. r = IF ~ShouldConnect \/ c.b.redirecting THEN c
              ELSE IF code = 1008 THEN RedirectToLogin(c)
              ELSE ScheduleReconnect(c, code = 1011)
      BY <1>2, <1>6 DEF HandleSocketClose
    <2>2. /\ d \in Bridge /\ d.phase = "closed"
          /\ d.ref = (IF w.b.ref = s THEN None ELSE w.b.ref)
          /\ d.timer = w.b.timer /\ d.intentional = w.b.intentional
          /\ d.inFlight = w.b.inFlight /\ d.holder = w.b.holder
          /\ d.redirecting = w.b.redirecting
      BY <1>2, WorldFields DEF Bridge
    <2> HIDE DEF d
    <2>3. e \in Worlds /\ e.b = d /\ e.s = w.s /\ e.t = w.t
      BY <1>2, <2>2, SetType
    <2> HIDE DEF e, w, r
    <2>4. /\ c \in Worlds /\ c.s = w.s /\ c.t = u.t
          /\ c.b.inFlight => u.b.inFlight /\ u.b.holder # s
          /\ c.b.ref = (IF u.b.ref = s THEN None ELSE u.b.ref)
          /\ c.b.intentional = u.b.intentional
          /\ c.b.timer = u.b.timer /\ c.b.holder = u.b.holder
          /\ c.b.phase = "closed"
          /\ c.b.redirecting = u.b.redirecting
      BY <1>2, <2>2, <2>3, FinishType
    <2> HIDE DEF c
    <2>5. RefsOK(c)
      BY <1>0, <1>2, <1>4, <1>6, <2>4 DEF RefsOK
    <2>6. Sound(c, page) /\ Bounded(c)
      BY <1>0, <2>4, <2>5 DEF Sound, Subscribed, Bounded
    <2>7. CASE c.b.redirecting
      <3>1. Idle(c.b)
        BY <1>0, <2>4, <2>7 DEF Idle
      <3> QED
        BY <2>1, <2>6, <2>7, <3>1 DEF Lively
    <2>8. CASE ~c.b.redirecting /\ code = 1008
      BY <1>3, <2>1, <2>6, <2>8, RedirectLively
    <2>9. CASE ~c.b.redirecting /\ code # 1008
      <3> DEFINE banner == code = 1011
      <3>1. r = ScheduleReconnect(c, banner)
        BY <1>3, <2>1, <2>9
      <3>2. banner \in BOOLEAN
        OBVIOUS
      <3> HIDE DEF banner
      <3> QED
        BY <1>3, <2>6, <2>9, <3>1, <3>2, ScheduleLively
    <2> QED
      BY <2>7, <2>8, <2>9
  <1> QED
    BY <1>5, <1>6

-----------------------------------------------------------------------------
(* Steps on a protected page.                                               *)

LEMMA BecomesWorld ==
    ASSUME NEW w \in Worlds, Becomes(w)
    PROVE  World' = w
  BY DEF Becomes, World, Worlds

LEMMA StayLively ==
    ASSUME BridgeInv, ShouldConnect, NEW w, Becomes(w), Lively(w, page),
           UNCHANGED <<session, page>>, refreshing' \subseteq Sockets,
           calm' \in BOOLEAN
    PROVE  BridgeInv'
  <1>1. World' = w
    BY BecomesWorld DEF Lively, Sound
  <1>2. Lively(World, page)'
    BY <1>1 DEF Lively, Sound, RefsOK, Subscribed, Bounded
  <1> QED
    BY <1>2, BridgeAssumption DEF BridgeInv, ShouldConnect, Leaving

\* The state of the bridge on a protected page.
LEMMA OnPage ==
    ASSUME BridgeInv, ShouldConnect
    PROVE  /\ session = "in" /\ page \in Pages
           /\ Lively(World, page) /\ Sound(World, page) /\ World \in Worlds
           /\ RefsOK(World) /\ Subscribed(World, page) /\ Bounded(World)
           /\ bridge.redirecting => Idle(bridge)
           /\ ~bridge.redirecting => Moving(World)
           /\ World.b = bridge /\ World.s = sock /\ World.t = stale
           /\ refreshing \subseteq Sockets /\ calm \in BOOLEAN
  <1>1. World.b = bridge /\ World.s = sock /\ World.t = stale
    BY DEF World
  <1> QED
    BY <1>1 DEF BridgeInv, Lively, Sound, ShouldConnect

\* A live socket that goes on and stays live.
LEMMA AdvanceLively ==
    ASSUME NEW u, NEW p, Lively(u, p), NEW s \in Sockets, NEW st \in SocketStates \ Down,
           u.s[s].st \notin Down,
           u.b.ref = s /\ st \in {"ready", "reauth"} => u.s[s].st \in {"ready", "reauth"}
    PROVE  Lively(Advance(u, s, st), p)
  <1> DEFINE c == Advance(u, s, st)
  <1>0. /\ u \in Worlds /\ RefsOK(u) /\ Subscribed(u, p) /\ Bounded(u)
        /\ IF u.b.redirecting THEN Idle(u.b) ELSE Moving(u)
    BY DEF Lively, Sound
  <1>1. /\ c \in Worlds /\ c.b = u.b /\ c.t = u.t
        /\ c.s[s].st = st /\ c.s[s].on = u.s[s].on
        /\ \A z \in Sockets \ {s} : c.s[z] = u.s[z]
    BY <1>0, AdvanceType
  <1>2. /\ u.b.ref \in Sockets \cup {None} /\ u.b.intentional \in Sockets \cup {None}
        /\ u.b.holder \in Sockets \cup {"ticket", None}
    BY <1>0, WorldFields
  <1> HIDE DEF c
  <1>3. RefsOK(c)
    BY <1>0, <1>1, <1>2 DEF RefsOK, Down
  <1>4. Subscribed(c, p)
    <2>1. CASE u.b.ref = s
      BY <1>0, <1>1, <2>1 DEF Subscribed
    <2>2. CASE u.b.ref # s
      BY <1>0, <1>1, <1>2, <2>2 DEF Subscribed
    <2> QED
      BY <2>1, <2>2
  <1>5. Bounded(c)
    BY <1>0, <1>1 DEF Bounded
  <1>6. Moving(u) => Moving(c)
    BY <1>1 DEF Moving
  <1> QED
    BY <1>0, <1>1, <1>3, <1>4, <1>5, <1>6 DEF Lively, Sound, c

LEMMA OnOpenStep ==
    ASSUME BridgeInv, ShouldConnect, NEW s \in Sockets, OnOpen(s)
    PROVE  BridgeInv'
  <1>0. sock[s].st = "connecting" /\ UNCHANGED <<session, page, refreshing, calm>>
    BY DEF OnOpen
  <1>1. CASE bridge.ref # s
    <2>1. Becomes(Advance(World, s, "open"))
      BY <1>1 DEF OnOpen
    <2>2. Lively(Advance(World, s, "open"), page)
      BY <1>0, <1>1, OnPage, AdvanceLively DEF SocketStates, Down
    <2> QED
      BY <1>0, <2>1, <2>2, OnPage, StayLively
  <1>2. CASE bridge.ref = s
    <2> DEFINE d == [bridge EXCEPT !.banner = FALSE, !.phase = "identifying",
                                   !.subscribed = None]
               e == Set(World, d)
               f == Advance(e, s, "identified")
               c == FinishConnectAttempt(f, s)
    <2>1. Becomes(c)
      BY <1>2 DEF OnOpen
    <2>2. bridge \in Bridge
      BY OnPage, WorldFields
    <2>3. /\ d \in Bridge /\ d.phase = "identifying"
          /\ d.ref = bridge.ref /\ d.intentional = bridge.intentional
          /\ d.inFlight = bridge.inFlight /\ d.holder = bridge.holder
          /\ d.redirecting = bridge.redirecting
      BY <2>2 DEF Bridge
    <2> HIDE DEF d
    <2>4. e \in Worlds /\ e.b = d /\ e.s = sock /\ e.t = stale
      BY <2>3, OnPage, SetType
    <2> HIDE DEF e
    <2>5. /\ f \in Worlds /\ f.b = d /\ f.t = stale /\ f.s[s].st = "identified"
          /\ \A z \in Sockets \ {s} : f.s[z] = sock[z]
      <3>1. "identified" \in SocketStates
        BY DEF SocketStates
      <3>2. /\ f \in Worlds /\ f.b = e.b /\ f.t = e.t /\ f.s[s].st = "identified"
            /\ \A z \in Sockets \ {s} : f.s[z] = e.s[z]
        BY <2>4, <3>1, AdvanceType
      <3> QED
        BY <2>4, <3>2
    <2> HIDE DEF f
    <2>6. /\ c \in Worlds /\ c.s = f.s /\ c.t = stale
          /\ c.b.inFlight => bridge.inFlight /\ bridge.holder # s
          /\ c.b.ref = s /\ c.b.intentional = bridge.intentional
          /\ c.b.holder = bridge.holder /\ c.b.phase = "identifying"
          /\ c.b.redirecting = bridge.redirecting
      BY <1>2, <2>3, <2>5, FinishType
    <2> HIDE DEF c
    <2>7. /\ bridge.intentional \in Sockets \cup {None} /\ s # None
          /\ bridge.holder \in Sockets \cup {"ticket", None}
      BY OnPage, WorldFields, BridgeAssumption
    <2>8. RefsOK(c)
      BY <1>0, <2>5, <2>6, <2>7, OnPage DEF RefsOK, Down
    <2>9. Sound(c, page)
      BY <2>6, <2>8 DEF Sound, Subscribed
    <2>10. Bounded(c) /\ ~c.b.redirecting /\ Moving(c)
      BY <1>2, <2>6, <2>7, OnPage DEF Bounded, Idle, Moving
    <2>11. Lively(c, page)
      BY <2>9, <2>10 DEF Lively
    <2> QED
      BY <1>0, <2>1, <2>11, OnPage, StayLively
  <1> QED
    BY <1>1, <1>2

LEMMA OnReadyStep ==
    ASSUME BridgeInv, ShouldConnect, NEW s \in Sockets, OnReady(s)
    PROVE  BridgeInv'
  <1> DEFINE w == Advance(World, s, "ready")
  <1>0. sock[s].st = "identified" /\ UNCHANGED <<session, page, refreshing, calm>>
    BY DEF OnReady
  <1>1. CASE bridge.ref # s
    <2>1. w.b = bridge
      BY OnPage, AdvanceType DEF SocketStates
    <2>2. Becomes(w)
      BY <1>1, <2>1 DEF OnReady
    <2>3. Lively(w, page)
      BY <1>0, <1>1, OnPage, AdvanceLively DEF SocketStates, Down
    <2> QED
      BY <1>0, <2>2, <2>3, OnPage, StayLively
  <1>2. CASE bridge.ref = s
    <2> DEFINE d == [w.b EXCEPT !.hadReady = TRUE, !.banner = FALSE, !.phase = "ready"]
               e == Set(w, d)
               g == [e.b EXCEPT !.subscribed = page]
               f == Set(e, g)
               v == [e.s[s] EXCEPT !.on = page]
               c == SetSocket(f, s, v)
    <2>1. /\ w \in Worlds /\ w.b = bridge /\ w.t = stale /\ w.s[s].st = "ready"
          /\ \A z \in Sockets \ {s} : w.s[z] = sock[z]
      <3>1. "ready" \in SocketStates
        BY DEF SocketStates
      <3> QED
        BY <3>1, OnPage, AdvanceType
    <2>2. Becomes(c)
      BY <1>2, <2>1 DEF OnReady, HandleSocketReady, SubscribeActive
    <2> HIDE DEF w
    <2>3. /\ d \in Bridge /\ d.phase = "ready"
          /\ d.ref = bridge.ref /\ d.intentional = bridge.intentional
          /\ d.inFlight = bridge.inFlight /\ d.holder = bridge.holder
          /\ d.redirecting = bridge.redirecting
      BY <2>1, WorldFields DEF Bridge
    <2> HIDE DEF d
    <2>4. e \in Worlds /\ e.b = d /\ e.s = w.s /\ e.t = stale
      BY <2>1, <2>3, SetType
    <2> HIDE DEF e
    <2>5. /\ g \in Bridge /\ g.phase = "ready" /\ g.subscribed = page
          /\ g.ref = bridge.ref /\ g.intentional = bridge.intentional
          /\ g.inFlight = bridge.inFlight /\ g.holder = bridge.holder
          /\ g.redirecting = bridge.redirecting
      BY <2>3, <2>4, OnPage DEF Bridge
    <2> HIDE DEF g
    <2>6. f \in Worlds /\ f.b = g /\ f.s = w.s /\ f.t = stale
      BY <2>4, <2>5, SetType
    <2>7. v \in SocketRecord /\ v.st = "ready" /\ v.on = page
      <3>1. e.s[s] \in SocketRecord /\ e.s[s].st = "ready"
        BY <2>1, <2>4, WorldFields
      <3> QED
        BY <3>1, OnPage DEF SocketRecord
    <2> HIDE DEF f, v
    <2>8. /\ c \in Worlds /\ c.b = g /\ c.t = stale /\ c.s[s] = v
          /\ \A z \in Sockets \ {s} : c.s[z] = sock[z]
      <3>1. c \in Worlds /\ c.b = g /\ c.t = stale /\ c.s = [w.s EXCEPT ![s] = v]
        BY <2>6, <2>7, SetSocketType
      <3>2. w.s \in [Sockets -> SocketRecord]
        BY <2>1, WorldFields
      <3> QED
        BY <2>1, <3>1, <3>2
    <2> HIDE DEF c
    <2>9. /\ bridge.intentional \in Sockets \cup {None} /\ s # None
          /\ bridge.holder \in Sockets \cup {"ticket", None}
      BY OnPage, WorldFields, BridgeAssumption
    <2>10. RefsOK(c)
      BY <1>0, <1>2, <2>5, <2>7, <2>8, <2>9, OnPage DEF RefsOK, Down
    <2>11. Sound(c, page)
      BY <1>2, <2>5, <2>7, <2>8, <2>10 DEF Sound, Subscribed
    <2>12. Bounded(c) /\ ~c.b.redirecting /\ Moving(c)
      BY <1>2, <2>5, <2>8, <2>9, OnPage DEF Bounded, Idle, Moving
    <2>13. Lively(c, page)
      BY <2>11, <2>12 DEF Lively
    <2> QED
      BY <1>0, <2>2, <2>13, OnPage, StayLively
  <1> QED
    BY <1>1, <1>2

LEMMA OnReauthenticateStep ==
    ASSUME BridgeInv, ShouldConnect, NEW s \in Sockets, OnReauthenticate(s)
    PROVE  BridgeInv'
  <1>1. /\ sock[s].st = "ready" /\ Becomes(Advance(World, s, "reauth"))
        /\ UNCHANGED <<session, page, calm>>
        /\ refreshing' \subseteq refreshing \cup {s}
    BY DEF OnReauthenticate
  <1>2. Lively(Advance(World, s, "reauth"), page)
    BY <1>1, OnPage, AdvanceLively DEF SocketStates, Down
  <1> QED
    BY <1>1, <1>2, OnPage, StayLively

LEMMA TokenRefreshedStep ==
    ASSUME BridgeInv, ShouldConnect, NEW s \in Sockets, NEW ok \in BOOLEAN,
           TokenRefreshed(s, ok)
    PROVE  BridgeInv'
  <1>1. UNCHANGED <<session, page, calm>> /\ refreshing' \subseteq Sockets
    BY OnPage DEF TokenRefreshed
  <1>2. PICK w : /\ Becomes(w)
                 /\ \/ w = RedirectToLogin(World)
                    \/ w = Advance(World, s, "ready") /\ sock[s].st = "reauth"
                    \/ w = World
    BY DEF TokenRefreshed
  <1>3. CASE w = RedirectToLogin(World)
    <2>1. CASE bridge.redirecting
      <3>1. w = World
        BY <1>3, <2>1, OnPage DEF RedirectToLogin
      <3> QED
        BY <1>1, <1>2, <3>1, OnPage, StayLively
    <2>2. CASE ~bridge.redirecting
      BY <1>1, <1>2, <1>3, <2>2, OnPage, RedirectLively, StayLively
    <2> QED
      BY <2>1, <2>2
  <1>4. CASE w = Advance(World, s, "ready") /\ sock[s].st = "reauth"
    <2>1. Lively(w, page)
      BY <1>4, OnPage, AdvanceLively DEF SocketStates, Down
    <2> QED
      BY <1>1, <1>2, <2>1, OnPage, StayLively
  <1>5. CASE w = World
    BY <1>1, <1>2, <1>5, OnPage, StayLively
  <1> QED
    BY <1>2, <1>3, <1>4, <1>5

LEMMA CloseEventStep ==
    ASSUME BridgeInv, ShouldConnect, NEW s \in Sockets, NEW code,
           CloseEvent(s, code)
    PROVE  BridgeInv'
  <1>1. /\ Becomes(HandleSocketClose(SetSocket(World, s, Free), s, code))
        /\ UNCHANGED <<session, page, refreshing, calm>>
    BY DEF CloseEvent
  <1>2. Lively(HandleSocketClose(SetSocket(World, s, Free), s, code), page)
    BY OnPage, CloseLively
  <1> QED
    BY <1>1, <1>2, OnPage, StayLively

-----------------------------------------------------------------------------
(* Ticket requests, the timer and the user.                                 *)

\* The answer of a request is taken off.
LEMMA AnsweredSound ==
    ASSUME BridgeInv, ShouldConnect, NEW a \in Pages \cup {"ticket"}, Awaited(a)
    PROVE  LET c == Answered(a) IN
           /\ Sound(c, page) /\ Bounded(c)
           /\ c.s = sock /\ c.b.redirecting = bridge.redirecting
           /\ c.b.holder = bridge.holder /\ c.b.ref = bridge.ref
           /\ a = "ticket" => ~c.b.inFlight /\ bridge.holder = "ticket"
           /\ a # "ticket" => c.b = bridge
  <1> DEFINE c == Answered(a)
  <1>1. CASE a = "ticket"
    <2>1. bridge.holder = "ticket" /\ c = FinishConnectAttempt(World, "ticket")
      BY <1>1 DEF Awaited, Answered
    <2>2. /\ c \in Worlds /\ c.s = sock /\ c.t = stale
          /\ ~c.b.inFlight
          /\ c.b.ref = bridge.ref /\ c.b.intentional = bridge.intentional
          /\ c.b.holder = bridge.holder
          /\ c.b.phase = bridge.phase /\ c.b.subscribed = bridge.subscribed
          /\ c.b.redirecting = bridge.redirecting
      BY <2>1, OnPage, FinishType
    <2> HIDE DEF c
    <2>3. Sound(c, page) /\ Bounded(c)
      BY <2>2, OnPage DEF Sound, RefsOK, Subscribed, Bounded
    <2> QED
      BY <1>1, <2>1, <2>2, <2>3 DEF c
  <1>2. CASE a # "ticket"
    <2>1. a \in Pages /\ stale[a] > 0 /\ c = SetStale(World, a, stale[a] - 1)
      BY <1>2 DEF Awaited, Attempt, Answered
    <2>2. \A q \in Pages : stale[q] \in Int
      BY OnPage, WorldFields
    <2>3. stale \in [Pages -> Int]
      BY OnPage, WorldFields
    <2>4. c \in Worlds /\ c.b = bridge /\ c.s = sock /\ c.t = [stale EXCEPT ![a] = stale[a] - 1]
      BY <2>1, <2>2, OnPage, SetStaleType
    <2> HIDE DEF c
    <2>5. Sound(c, page)
      BY <2>4, OnPage DEF Sound, RefsOK, Subscribed
    <2>6. Bounded(c)
      <3> SUFFICES ASSUME NEW q \in Pages
                   PROVE  c.t[q] \in 0..MaxStale + 1 /\ (~c.b.redirecting => c.t[q] <= MaxStale)
        BY DEF Bounded
      <3>1. stale[q] \in 0..MaxStale + 1 /\ (~bridge.redirecting => stale[q] <= MaxStale)
        BY OnPage DEF Bounded
      <3>2. c.t[q] = IF q = a THEN stale[q] - 1 ELSE stale[q]
        BY <2>1, <2>3, <2>4
      <3>3. MaxStale \in Nat
        BY BridgeAssumption
      <3> QED
        BY <2>1, <2>2, <2>4, <3>1, <3>2, <3>3
    <2> QED
      BY <1>2, <2>4, <2>5, <2>6 DEF c
  <1> QED
    BY <1>1, <1>2

LEMMA ReleasedSound ==
    ASSUME BridgeInv, ShouldConnect, NEW a \in Pages \cup {"ticket"}, Awaited(a)
    PROVE  LET c == Release(Answered(a), a) IN
           /\ Sound(c, page) /\ Bounded(c) /\ c.b.redirecting = bridge.redirecting
           /\ bridge.redirecting => Lively(c, page)
  <1> DEFINE u == Answered(a)
             d == [u.b EXCEPT !.holder = None]
             c == Release(u, a)
  <1>1. /\ Sound(u, page) /\ Bounded(u)
        /\ u.s = sock /\ u.b.redirecting = bridge.redirecting
        /\ a = "ticket" => ~u.b.inFlight /\ bridge.holder = "ticket"
        /\ a # "ticket" => u.b = bridge
    BY AnsweredSound
  <1> HIDE DEF u
  <1>2. CASE a = "ticket"
    <2>1. ~bridge.redirecting
      BY <1>1, <1>2, OnPage DEF Idle
    <2>2. u \in Worlds /\ c = Set(u, d)
      BY <1>1, <1>2 DEF Release, Sound
    <2>3. /\ d \in Bridge
          /\ d.ref = u.b.ref /\ d.intentional = u.b.intentional
          /\ d.inFlight = u.b.inFlight /\ d.phase = u.b.phase
          /\ d.subscribed = u.b.subscribed /\ d.redirecting = u.b.redirecting
      BY <2>2, WorldFields DEF Bridge
    <2> HIDE DEF d
    <2>4. c \in Worlds /\ c.b = d /\ c.s = u.s /\ c.t = u.t
      BY <2>2, <2>3, SetType
    <2> HIDE DEF c
    <2>5. Sound(c, page) /\ Bounded(c)
      BY <1>1, <1>2, <2>3, <2>4 DEF Sound, RefsOK, Subscribed, Bounded
    <2>6. c.b.redirecting = bridge.redirecting
      BY <1>1, <2>3, <2>4
    <2> QED
      BY <2>1, <2>5, <2>6 DEF c, u
  <1>3. CASE a # "ticket"
    <2>1. c = u
      BY <1>3 DEF Release
    <2>2. bridge.redirecting => Idle(u.b)
      BY <1>1, <1>3, OnPage
    <2>3. bridge.redirecting => Lively(u, page)
      BY <1>1, <2>2 DEF Lively
    <2> QED
      BY <1>1, <2>1, <2>3 DEF u
  <1> QED
    BY <1>2, <1>3

LEMMA TicketIssuedStep ==
    ASSUME BridgeInv, ShouldConnect, NEW a \in Pages \cup {"ticket"},
           NEW s \in Sockets, TicketIssued(a, s)
    PROVE  BridgeInv'
  <1>0. /\ Awaited(a) /\ sock[s].st = "free"
        /\ UNCHANGED <<session, page, refreshing, calm>>
    BY DEF TicketIssued
  <1>1. CASE bridge.redirecting
    <2>1. Becomes(Release(Answered(a), a))
      BY <1>1 DEF TicketIssued, StillWanted, World
    <2> QED
      BY <1>0, <1>1, <2>1, OnPage, ReleasedSound, StayLively
  <1>2. CASE ~bridge.redirecting
    <2> DEFINE w == IF a = "ticket" THEN World ELSE Answered(a)
               d == [w.b EXCEPT !.ref = s, !.holder = IF a = "ticket" THEN s ELSE @]
               e == Set(w, d)
               v == [st |-> "connecting", page |-> IF a = "ticket" THEN page ELSE a,
                     on |-> None]
               c == SetSocket(e, s, v)
    <2>1. Becomes(c)
      BY <1>2, OnPage DEF TicketIssued, StillWanted
    <2>2. /\ Sound(w, page) /\ Bounded(w) /\ w.s = sock /\ w.b = bridge
          /\ w \in Worlds /\ RefsOK(w)
      BY <1>0, OnPage, AnsweredSound DEF Sound
    <2> HIDE DEF w
    <2>3. /\ d \in Bridge /\ d.ref = s
          /\ d.holder = (IF a = "ticket" THEN s ELSE bridge.holder)
          /\ d.intentional = bridge.intentional /\ d.inFlight = bridge.inFlight
          /\ d.redirecting = bridge.redirecting
      BY <2>2, WorldFields DEF Bridge
    <2> HIDE DEF d
    <2>4. e \in Worlds /\ e.b = d /\ e.s = sock /\ e.t = w.t
      BY <2>2, <2>3, SetType
    <2> HIDE DEF e
    <2>5. v \in SocketRecord /\ v.st = "connecting"
      BY OnPage DEF SocketRecord, SocketStates
    <2> HIDE DEF v
    <2>6. /\ c \in Worlds /\ c.b = d /\ c.t = w.t /\ c.s[s] = v
          /\ \A z \in Sockets \ {s} : c.s[z] = sock[z]
      <3>1. c \in Worlds /\ c.b = d /\ c.t = w.t /\ c.s = [sock EXCEPT ![s] = v]
        BY <2>4, <2>5, SetSocketType
      <3>2. sock \in [Sockets -> SocketRecord]
        BY <2>2, WorldFields
      <3> QED
        BY <3>1, <3>2
    <2> HIDE DEF c
    <2>7. /\ bridge.intentional \in Sockets \cup {None} /\ s # None
          /\ bridge.holder \in Sockets \cup {"ticket", None}
      BY OnPage, WorldFields, BridgeAssumption
    <2>8. RefsOK(c)
      BY <1>0, <2>2, <2>3, <2>5, <2>6, <2>7 DEF RefsOK, Down
    <2>9. Subscribed(c, page)
      BY <2>3, <2>5, <2>6 DEF Subscribed
    <2>10. Bounded(c) /\ Moving(c) /\ ~c.b.redirecting
      BY <1>2, <2>2, <2>3, <2>6, <2>7 DEF Bounded, Moving
    <2>11. Lively(c, page)
      BY <2>6, <2>8, <2>9, <2>10 DEF Lively, Sound
    <2> QED
      BY <1>0, <2>1, <2>11, OnPage, StayLively
  <1> QED
    BY <1>1, <1>2

LEMMA TicketFailedStep ==
    ASSUME BridgeInv, ShouldConnect, NEW a \in Pages \cup {"ticket"},
           NEW deterministic \in BOOLEAN, TicketFailed(a, deterministic)
    PROVE  BridgeInv'
  <1> DEFINE w == Release(Answered(a), a)
  <1>0. Awaited(a) /\ UNCHANGED <<session, page, refreshing, calm>>
    BY DEF TicketFailed
  <1>1. IF bridge.redirecting THEN Becomes(w)
        ELSE IF deterministic THEN Becomes(RedirectToLogin(w))
        ELSE \E banner \in BOOLEAN : Becomes(ScheduleReconnect(w, banner))
    <2>1. StillWanted(World) <=> ~bridge.redirecting
      BY OnPage DEF StillWanted
    <2> QED
      BY <2>1 DEF TicketFailed
  <1>2. /\ Sound(w, page) /\ Bounded(w) /\ w.b.redirecting = bridge.redirecting
        /\ bridge.redirecting => Lively(w, page)
    BY <1>0, ReleasedSound
  <1> HIDE DEF w
  <1>3. CASE bridge.redirecting
    BY <1>0, <1>1, <1>2, <1>3, OnPage, StayLively
  <1>4. CASE ~bridge.redirecting /\ deterministic
    <2>1. Lively(RedirectToLogin(w), page)
      BY <1>2, <1>4, OnPage, RedirectLively
    <2> QED
      BY <1>0, <1>1, <1>4, <2>1, OnPage, StayLively
  <1>5. CASE ~bridge.redirecting /\ ~deterministic
    <2>1. PICK banner \in BOOLEAN : Becomes(ScheduleReconnect(w, banner))
      BY <1>1, <1>5
    <2>2. Lively(ScheduleReconnect(w, banner), page)
      BY <1>2, <1>5, OnPage, ScheduleLively
    <2> QED
      BY <1>0, <2>1, <2>2, OnPage, StayLively
  <1> QED
    BY <1>3, <1>4, <1>5

LEMMA ReconnectTimerStep ==
    ASSUME BridgeInv, ShouldConnect, ReconnectTimer
    PROVE  BridgeInv'
  <1> DEFINE w == ClearReconnectTimer(World)
  <1>1. /\ bridge.timer /\ Becomes(Connect(w))
        /\ UNCHANGED <<session, page, refreshing, calm>>
    BY OnPage DEF ReconnectTimer
  <1>2. Sound(w, page) /\ w.t = stale /\ w.b.redirecting = bridge.redirecting
    BY OnPage, ClearSound, ClearType
  <1>3. ~bridge.redirecting
    BY <1>1, OnPage DEF Idle
  <1> HIDE DEF w
  <1>4. Bounded(w)
    BY <1>2, OnPage DEF Bounded
  <1>5. Lively(Connect(w), page)
    BY <1>2, <1>3, <1>4, ConnectLively
  <1> QED
    BY <1>1, <1>5, OnPage, StayLively

LEMMA RetryNowStep ==
    ASSUME BridgeInv, ShouldConnect, RetryNow
    PROVE  BridgeInv'
  <1> DEFINE w == ClearReconnectTimer(World)
  <1>1. Becomes(Connect(w)) /\ UNCHANGED <<session, page, refreshing, calm>>
    BY DEF RetryNow
  <1>2. /\ Sound(w, page) /\ w.t = stale /\ w.b.redirecting = bridge.redirecting
        /\ w.b.ref = bridge.ref /\ ~w.b.timer /\ w.b.inFlight = bridge.inFlight
        /\ w.b.holder = bridge.holder
    BY OnPage, ClearSound, ClearType
  <1> HIDE DEF w
  <1>3. Bounded(w) /\ (w.b.redirecting => Idle(w.b))
    BY <1>2, OnPage DEF Bounded, Idle
  <1>4. Lively(Connect(w), page)
    BY <1>2, <1>3, ConnectLively
  <1> QED
    BY <1>1, <1>4, OnPage, StayLively

\* Tearing down for another page, or for a user who is signed out.
LEMMA TornDown ==
    ASSUME BridgeInv, ShouldConnect,
           bridge.holder = "ticket" => stale[page] < MaxStale
    PROVE  LET c == CloseCurrentSocket(ClearReconnectTimer(CancelConnectAttempts(World, page))) IN
           /\ Sound(c, page) /\ Bounded(c) /\ Idle(c.b) /\ c.b.ref = None /\ c.b.holder = None
           /\ c.b.redirecting = bridge.redirecting
  <1> DEFINE f == CancelConnectAttempts(World, page)
             g == ClearReconnectTimer(f)
             c == CloseCurrentSocket(g)
  <1>1. /\ Sound(f, page)
        /\ bridge.holder = "ticket" => f.t = [stale EXCEPT ![page] = stale[page] + 1]
        /\ bridge.holder # "ticket" => f.t = stale
        /\ ~f.b.inFlight /\ f.b.holder = None /\ f.b.redirecting = bridge.redirecting
    BY OnPage, CancelSound
  <1> HIDE DEF f
  <1>2. /\ Sound(g, page) /\ g.t = f.t /\ ~g.b.timer
        /\ ~g.b.inFlight /\ g.b.holder = None /\ g.b.redirecting = bridge.redirecting
    BY <1>1, ClearSound, ClearType DEF Sound
  <1> HIDE DEF g
  <1>3. /\ Sound(c, page) /\ c.t = f.t /\ c.b.ref = None /\ ~c.b.timer
        /\ ~c.b.inFlight /\ c.b.holder = None /\ c.b.redirecting = bridge.redirecting
    BY <1>2, CloseSound
  <1> HIDE DEF c
  <1>4. Bounded(c)
    <2>1. /\ stale \in [Pages -> Int] /\ MaxStale \in Nat
          /\ \A q \in Pages : stale[q] \in Int
      BY OnPage, WorldFields, BridgeAssumption
    <2> SUFFICES ASSUME NEW q \in Pages
                 PROVE  c.t[q] \in 0..MaxStale + 1 /\ (~c.b.redirecting => c.t[q] <= MaxStale)
      BY DEF Bounded
    <2>2. stale[q] \in 0..MaxStale + 1 /\ (~bridge.redirecting => stale[q] <= MaxStale)
      BY OnPage DEF Bounded
    <2>3. CASE bridge.holder = "ticket" /\ q = page
      <3>1. c.t[q] = stale[page] + 1
        BY <1>1, <1>3, <2>1, <2>3
      <3> QED
        BY <2>1, <2>2, <2>3, <3>1
    <2>4. CASE ~(bridge.holder = "ticket" /\ q = page)
      <3>1. c.t[q] = stale[q]
        BY <1>1, <1>3, <2>1, <2>4, OnPage
      <3> QED
        BY <1>3, <2>2, <3>1
    <2> QED
      BY <2>3, <2>4
  <1>5. Idle(c.b)
    BY <1>3, BridgeAssumption DEF Idle
  <1> QED
    BY <1>3, <1>4, <1>5 DEF c, g, f

LEMMA NavigateStep ==
    ASSUME BridgeInv, NEW p \in Pages, Navigate(p)
    PROVE  BridgeInv'
  <1> DEFINE w == CloseCurrentSocket(ClearReconnectTimer(CancelConnectAttempts(World, page)))
             c == Connect(w)
  <1>1. /\ ShouldConnect /\ page' = p /\ p # Login /\ Becomes(c)
        /\ bridge.holder = "ticket" => stale[page] < MaxStale
        /\ UNCHANGED <<session, refreshing, calm>>
    BY BridgeAssumption DEF Navigate
  <1>2. Sound(w, page) /\ Bounded(w) /\ Idle(w.b) /\ w.b.ref = None
    BY <1>1, TornDown
  <1> HIDE DEF w
  <1>3. Sound(w, p)
    BY <1>2 DEF Sound, Subscribed
  <1>4. Lively(c, p)
    BY <1>2, <1>3, ConnectLively
  <1> HIDE DEF c
  <1>5. World' = c
    BY <1>1, <1>4, BecomesWorld DEF Lively, Sound
  <1>6. Lively(World, page)'
    BY <1>1, <1>4, <1>5 DEF Lively, Sound, RefsOK, Subscribed, Bounded
  <1>7. session = "in" /\ refreshing \subseteq Sockets /\ calm \in BOOLEAN
    BY <1>1, OnPage
  <1> QED
    BY <1>1, <1>6, <1>7 DEF BridgeInv, Leaving

LEMMA LogInStep ==
    ASSUME BridgeInv, NEW p \in Pages, LogIn(p)
    PROVE  BridgeInv'
  <1> DEFINE c == Connect(World)
  <1>1. /\ page = Login /\ page' = p /\ p # Login /\ session' = "in" /\ Becomes(c)
        /\ UNCHANGED <<refreshing, calm>>
    BY BridgeAssumption DEF LogIn
  <1>2. Asleep /\ refreshing \subseteq Sockets /\ calm \in BOOLEAN
    BY <1>1 DEF BridgeInv
  <1>3. Fresh \in Bridge /\ Free \in SocketRecord
    BY DEF Fresh, Bridge, Free, SocketRecord, SocketStates
  <1>4. /\ World \in Worlds /\ World.b = Fresh
        /\ \A q \in Pages : World.t[q] = 0
    <2>1. /\ World.b = Fresh /\ World.s = [s \in Sockets |-> Free]
          /\ World.t = [q \in Pages |-> 0]
      BY <1>2 DEF Asleep, World
    <2>2. sock \in [Sockets -> SocketRecord] /\ stale \in [Pages -> Int] /\ bridge \in Bridge
      BY <1>2, <1>3 DEF Asleep
    <2> QED
      BY <2>1, <2>2 DEF World, Worlds
  <1>5. Sound(World, p) /\ Bounded(World) /\ ~World.b.redirecting
    <2>1. MaxStale \in Nat
      BY BridgeAssumption
    <2> QED
      BY <1>4, <2>1 DEF Sound, RefsOK, Subscribed, Bounded, Fresh
  <1>6. Lively(c, p)
    BY <1>5, ConnectLively
  <1> HIDE DEF c
  <1>7. World' = c
    BY <1>1, <1>6, BecomesWorld DEF Lively, Sound
  <1>8. Lively(World, page)'
    BY <1>1, <1>6, <1>7 DEF Lively, Sound, RefsOK, Subscribed, Bounded
  <1> QED
    BY <1>1, <1>2, <1>8 DEF BridgeInv, Leaving

LEMMA SignedOutStep ==
    ASSUME BridgeInv, SignedOut
    PROVE  BridgeInv'
  <1>1. /\ session = "in" /\ session' = "out" /\ UNCHANGED <<page, refreshing, calm>>
        /\ bridge.holder = "ticket" => stale[page] < MaxStale
    BY DEF SignedOut
  <1>2. CASE page = Login
    <2>1. UNCHANGED <<bridge, sock, stale>>
      BY <1>2, BridgeAssumption DEF SignedOut
    <2> QED
      BY <1>1, <1>2, <2>1, BridgeAssumption
         DEF BridgeInv, Asleep, ShouldConnect, Leaving
  <1>3. CASE page # Login
    <2> DEFINE w == CloseCurrentSocket(ClearReconnectTimer(CancelConnectAttempts(World, page)))
               d == [w.b EXCEPT !.subscribed = None, !.redirecting = FALSE, !.hadReady = FALSE,
                                !.banner = FALSE, !.phase = "idle"]
               c == Set(w, d)
    <2>0. ShouldConnect
      BY <1>1, <1>3 DEF BridgeInv, ShouldConnect
    <2>1. Sound(w, page) /\ Bounded(w) /\ Idle(w.b) /\ w.b.holder = None /\ w \in Worlds
      BY <1>1, <2>0, TornDown DEF Sound
    <2>2. Becomes(c)
      BY <2>0, OnPage DEF SignedOut, Dismiss
    <2> HIDE DEF w
    <2>3. /\ d \in Bridge /\ d.ref = w.b.ref /\ d.timer = w.b.timer
          /\ d.inFlight = w.b.inFlight /\ d.holder = w.b.holder
          /\ d.subscribed = None /\ ~d.banner /\ d.phase = "idle"
      BY <2>1, WorldFields DEF Bridge
    <2> HIDE DEF d
    <2>4. c \in Worlds /\ c.b = d /\ c.t = w.t
      BY <2>1, <2>3, SetType
    <2> HIDE DEF c
    <2>5. World' = c
      BY <2>2, <2>4, BecomesWorld
    <2>6. Dismissed(c)
      BY <2>1, <2>3, <2>4 DEF Dismissed, Quiet, Idle, Bounded
    <2>7. Dismissed(World)'
      BY <2>5, <2>6 DEF Dismissed, Quiet
    <2> QED
      BY <1>1, <2>0, <2>7, BridgeAssumption DEF BridgeInv, ShouldConnect, Leaving
  <1> QED
    BY <1>2, <1>3

LEMMA ReloadStep ==
    ASSUME BridgeInv, Reload
    PROVE  BridgeInv'
  BY BridgeAssumption DEF BridgeInv, Reload, Asleep, ShouldConnect, Leaving

\* At the login page nothing is awaited.
LEMMA LoginSleeps ==
    ASSUME BridgeInv, page = Login
    PROVE  /\ \A a : ~Awaited(a)
           /\ ~bridge.timer /\ ~bridge.banner
           /\ \A s \in Sockets : sock[s].st = "free"
           /\ refreshing = {}
  <1>1. Asleep
    BY DEF BridgeInv
  <1> QED
    BY <1>1, BridgeAssumption DEF Asleep, Fresh, Free, Awaited, Attempt

-----------------------------------------------------------------------------
(* Steps of a document whose user is signed out.                            *)

LEMMA OnLeaving ==
    ASSUME BridgeInv, Leaving
    PROVE  /\ session = "out" /\ page \in Pages /\ ~ShouldConnect
           /\ Dismissed(World) /\ World \in Worlds /\ Quiet(bridge)
           /\ \A p \in Pages : stale[p] \in 0..MaxStale + 1
           /\ World.b = bridge /\ World.s = sock /\ World.t = stale
           /\ refreshing \subseteq Sockets /\ calm \in BOOLEAN
  <1>1. World.b = bridge /\ World.s = sock /\ World.t = stale
    BY DEF World
  <1> QED
    BY <1>1 DEF BridgeInv, Leaving, ShouldConnect, Dismissed

LEMMA StayDismissed ==
    ASSUME BridgeInv, Leaving, NEW w, Becomes(w), Dismissed(w),
           UNCHANGED <<session, page>>, refreshing' \subseteq Sockets, calm' \in BOOLEAN
    PROVE  BridgeInv'
  <1>1. World' = w
    BY BecomesWorld DEF Dismissed
  <1>2. Dismissed(World)'
    BY <1>1 DEF Dismissed, Quiet
  <1> QED
    BY <1>2, BridgeAssumption DEF BridgeInv, ShouldConnect, Leaving

LEMMA AdvanceDismissed ==
    ASSUME NEW u, Dismissed(u), NEW s \in Sockets, NEW st \in SocketStates
    PROVE  Dismissed(Advance(u, s, st))
  BY AdvanceType DEF Dismissed

\* A failed refresh redirects a signed-out user once more: there is nothing
\* left to cancel or to close.
LEMMA RedirectDismissed ==
    ASSUME NEW u, Dismissed(u)
    PROVE  Dismissed(RedirectToLogin(u))
  <1>1. CASE u.b.redirecting
    BY <1>1 DEF RedirectToLogin
  <1>2. CASE ~u.b.redirecting
    <2> DEFINE d == [u.b EXCEPT !.redirecting = TRUE]
               e == Set(u, d)
               g == [e.b EXCEPT !.inFlight = FALSE, !.holder = None]
               f == Set(e, g)
               h == ClearReconnectTimer(f)
    <2>0. u \in Worlds /\ Quiet(u.b) /\ None # "ticket"
      BY BridgeAssumption DEF Dismissed
    <2>1. d \in Bridge /\ Quiet(d)
      BY <2>0, WorldFields DEF Bridge, Quiet
    <2>2. RedirectToLogin(u) = CloseCurrentSocket(ClearReconnectTimer(CancelConnectAttempts(e, page)))
      BY <1>2 DEF RedirectToLogin
    <2> HIDE DEF d
    <2>3. e \in Worlds /\ e.b = d /\ e.t = u.t
      BY <2>0, <2>1, SetType
    <2> HIDE DEF e
    <2>4. CancelConnectAttempts(e, page) = f
      BY <2>0, <2>1, <2>3 DEF CancelConnectAttempts, Quiet
    <2>5. g \in Bridge /\ Quiet(g)
      BY <2>1, <2>3 DEF Bridge, Quiet
    <2> HIDE DEF g
    <2>6. f \in Worlds /\ f.b = g /\ f.t = u.t
      BY <2>3, <2>5, SetType
    <2> HIDE DEF f
    <2>7. h \in Worlds /\ Quiet(h.b) /\ h.t = u.t
      BY <2>5, <2>6, ClearType DEF Quiet
    <2>8. RedirectToLogin(u) = h
      BY <2>2, <2>4, <2>7 DEF CloseCurrentSocket, Quiet
    <2> QED
      BY <2>7, <2>8 DEF Dismissed
  <1> QED
    BY <1>1, <1>2

\* The close of any socket signs nobody out and times no attempt.
LEMMA CloseDismissed ==
    ASSUME NEW u, Dismissed(u), ~ShouldConnect, NEW s \in Sockets, NEW code
    PROVE  Dismissed(HandleSocketClose(SetSocket(u, s, Free), s, code))
  <1> DEFINE w == SetSocket(u, s, Free)
             r == HandleSocketClose(w, s, code)
             d == IF u.b.intentional = s THEN [w.b EXCEPT !.intentional = None]
                  ELSE [w.b EXCEPT !.ref = IF @ = s THEN None ELSE @,
                                   !.subscribed = None, !.phase = "closed"]
             e == Set(w, d)
             c == FinishConnectAttempt(e, s)
  <1>0. u \in Worlds /\ Quiet(u.b)
    BY DEF Dismissed
  <1>1. Free \in SocketRecord
    BY DEF Free, SocketRecord, SocketStates
  <1>2. w \in Worlds /\ w.b = u.b /\ w.t = u.t
    BY <1>0, <1>1, SetSocketType
  <1>3. r = c
    BY <1>2 DEF HandleSocketClose
  <1>4. d \in Bridge /\ Quiet(d)
    <2>1. u.b \in Bridge
      BY <1>0, WorldFields
    <2>2. CASE u.b.intentional = s
      BY <1>0, <1>2, <2>1, <2>2 DEF Bridge, Quiet
    <2>3. CASE u.b.intentional # s
      BY <1>0, <1>2, <2>1, <2>3 DEF Bridge, Quiet
    <2> QED
      BY <2>2, <2>3
  <1> HIDE DEF w, d, r
  <1>5. e \in Worlds /\ e.b = d /\ e.t = u.t
    BY <1>2, <1>4, SetType
  <1> HIDE DEF e
  <1>6. c \in Worlds /\ Quiet(c.b) /\ c.t = u.t
    BY <1>4, <1>5, FinishType DEF Quiet
  <1>7. Dismissed(c)
    BY <1>6 DEF Dismissed
  <1> QED
    BY <1>3, <1>7 DEF r, w

LEMMA LeavingSocketStep ==
    ASSUME BridgeInv, Leaving, NEW s \in Sockets,
           \/ OnOpen(s) \/ OnReady(s) \/ OnReauthenticate(s)
           \/ \E ok \in BOOLEAN : TokenRefreshed(s, ok)
           \/ \E code \in {1005, 1006, 1008, 1011} : CloseEvent(s, code)
    PROVE  BridgeInv'
  <1>0. bridge.ref # s /\ {"open", "ready", "reauth"} \subseteq SocketStates
    BY OnLeaving, BridgeAssumption DEF Quiet, SocketStates
  <1>1. CASE \E st \in SocketStates : /\ Becomes(Advance(World, s, st))
                                     /\ UNCHANGED <<session, page, calm>>
                                     /\ refreshing' \subseteq Sockets
    BY <1>1, OnLeaving, AdvanceDismissed, StayDismissed
  <1>2. CASE OnOpen(s)
    <2>1. Becomes(Advance(World, s, "open")) /\ UNCHANGED <<session, page, refreshing, calm>>
      BY <1>0, <1>2 DEF OnOpen
    <2> QED
      BY <1>0, <1>1, <2>1, OnLeaving
  <1>3. CASE OnReady(s)
    <2>1. Becomes(Advance(World, s, "ready")) /\ UNCHANGED <<session, page, refreshing, calm>>
      BY <1>0, <1>3 DEF OnReady
    <2> QED
      BY <1>0, <1>1, <2>1, OnLeaving
  <1>4. CASE OnReauthenticate(s)
    <2>1. Becomes(Advance(World, s, "reauth")) /\ UNCHANGED <<session, page, refreshing, calm>>
      BY <1>0, <1>4 DEF OnReauthenticate
    <2> QED
      BY <1>0, <1>1, <2>1, OnLeaving
  <1>5. CASE \E ok \in BOOLEAN : TokenRefreshed(s, ok)
    <2>1. /\ UNCHANGED <<session, page, calm>> /\ refreshing' \subseteq Sockets
          /\ Becomes(World) \/ Becomes(RedirectToLogin(World))
      BY <1>0, <1>5, OnLeaving DEF TokenRefreshed
    <2> QED
      BY <2>1, OnLeaving, RedirectDismissed, StayDismissed
  <1>6. CASE \E code \in {1005, 1006, 1008, 1011} : CloseEvent(s, code)
    <2>1. PICK code : CloseEvent(s, code)
      BY <1>6
    <2>2. /\ Becomes(HandleSocketClose(SetSocket(World, s, Free), s, code))
          /\ UNCHANGED <<session, page, refreshing, calm>>
      BY <2>1 DEF CloseEvent
    <2> QED
      BY <2>2, OnLeaving, CloseDismissed, StayDismissed
  <1> QED
    BY <1>2, <1>3, <1>4, <1>5, <1>6

\* A late answer opens no socket and times no attempt.
LEMMA LeavingAnswerStep ==
    ASSUME BridgeInv, Leaving, NEW a \in Pages \cup {"ticket"},
           (\E s \in Sockets : TicketIssued(a, s)) \/ (\E d \in BOOLEAN : TicketFailed(a, d))
    PROVE  BridgeInv'
  <1> DEFINE c == SetStale(World, a, stale[a] - 1)
  <1>1. Awaited(a) /\ UNCHANGED <<session, page, refreshing, calm>>
    BY DEF TicketIssued, TicketFailed
  <1>2. a # "ticket"
    BY <1>1, OnLeaving, BridgeAssumption DEF Awaited, Quiet
  <1>3. Becomes(c)
    <2>1. Release(Answered(a), a) = c
      BY <1>2 DEF Release, Answered
    <2> QED
      BY <2>1, OnLeaving DEF TicketIssued, TicketFailed, StillWanted
  <1>4. a \in Pages /\ stale[a] > 0
    BY <1>1, <1>2 DEF Awaited, Attempt
  <1>5. stale \in [Pages -> Int] /\ MaxStale \in Nat /\ stale[a] \in Int
    BY <1>4, OnLeaving, WorldFields, BridgeAssumption
  <1>6. c \in Worlds /\ c.b = bridge /\ c.t = [stale EXCEPT ![a] = stale[a] - 1]
    <2>1. stale[a] - 1 \in Int
      BY <1>5
    <2> QED
      BY <1>4, <2>1, OnLeaving, SetStaleType
  <1> HIDE DEF c
  <1>7. \A p \in Pages : c.t[p] \in 0..MaxStale + 1
    <2> SUFFICES ASSUME NEW p \in Pages
                 PROVE  c.t[p] \in 0..MaxStale + 1
      OBVIOUS
    <2>1. c.t[p] = IF p = a THEN stale[p] - 1 ELSE stale[p]
      BY <1>4, <1>5, <1>6
    <2>2. stale[p] \in 0..MaxStale + 1
      BY OnLeaving
    <2> QED
      BY <1>4, <1>5, <2>1, <2>2
  <1>8. Dismissed(c)
    BY <1>6, <1>7, OnLeaving DEF Dismissed
  <1> QED
    BY <1>1, <1>3, <1>8, OnLeaving, StayDismissed

-----------------------------------------------------------------------------
(* The theorems.                                                            *)

LEMMA InitBridgeInv == BridgeInit => BridgeInv
  BY BridgeAssumption DEF BridgeInit, BridgeInv, Asleep, ShouldConnect, Leaving

\* Off the login page the user is either signed in or leaving.
LEMMA OffLogin ==
    ASSUME BridgeInv, page # Login
    PROVE  ShouldConnect \/ Leaving
  BY DEF BridgeInv, ShouldConnect, Leaving

LEMMA SocketStepInv ==
    ASSUME BridgeInv, NEW s \in Sockets,
           \/ SocketStep(s) \/ OnReauthenticate(s) \/ ConnectionLost(s)
           \/ \E code \in {1008, 1011} : ServerClose(s, code)
    PROVE  BridgeInv'
  <1>1. sock[s].st # "free" \/ s \in refreshing
    <2>1. CASE SocketStep(s)
      BY <2>1 DEF SocketStep, OnOpen, OnReady, TokenRefreshed, Closed, DeadlineClose
    <2>2. CASE OnReauthenticate(s)
      BY <2>2 DEF OnReauthenticate
    <2>3. CASE ConnectionLost(s)
      BY <2>3 DEF ConnectionLost, Live
    <2>4. CASE \E code \in {1008, 1011} : ServerClose(s, code)
      BY <2>4 DEF ServerClose
    <2> QED
      BY <2>1, <2>2, <2>3, <2>4
  <1>2. ShouldConnect \/ Leaving
    BY <1>1, LoginSleeps, OffLogin
  <1>3. \/ OnOpen(s) \/ OnReady(s) \/ OnReauthenticate(s)
        \/ \E ok \in BOOLEAN : TokenRefreshed(s, ok)
        \/ \E code \in {1005, 1006, 1008, 1011} : CloseEvent(s, code)
    <2>1. SocketStep(s) => \/ OnOpen(s) \/ OnReady(s)
                           \/ \E ok \in BOOLEAN : TokenRefreshed(s, ok)
                           \/ CloseEvent(s, 1005) \/ CloseEvent(s, 1008)
      BY DEF SocketStep, Closed, DeadlineClose
    <2>2. \/ SocketStep(s) \/ OnReauthenticate(s) \/ CloseEvent(s, 1006)
          \/ \E code \in {1008, 1011} : CloseEvent(s, code)
      BY DEF ConnectionLost, ServerClose
    <2> QED
      BY <2>1, <2>2
  <1>4. CASE Leaving
    BY <1>3, <1>4, LeavingSocketStep
  <1>5. CASE ShouldConnect
    BY <1>3, <1>5, OnOpenStep, OnReadyStep, OnReauthenticateStep, TokenRefreshedStep,
       CloseEventStep
  <1> QED
    BY <1>2, <1>4, <1>5

LEMMA NextBridgeInv ==
    ASSUME BridgeInv, [BridgeNext]_bridgeVars
    PROVE  BridgeInv'
  <1>1. ASSUME NEW p \in Pages, Navigate(p) \/ LogIn(p)
        PROVE  BridgeInv'
    BY <1>1, NavigateStep, LogInStep
  <1>2. CASE SignedOut \/ Reload
    BY <1>2, SignedOutStep, ReloadStep
  <1>3. CASE CalmDown \/ UNCHANGED bridgeVars
    <2>1. UNCHANGED <<session, page, bridge, sock, stale, refreshing>> /\ calm' \in BOOLEAN
      BY <1>3 DEF CalmDown, bridgeVars, BridgeInv
    <2>2. World' = World
      BY <2>1 DEF World
    <2>3. Lively(World, page) => Lively(World, page)'
      BY <2>1, <2>2 DEF Lively, Sound, RefsOK, Subscribed, Bounded
    <2>4. Dismissed(World) => Dismissed(World)'
      BY <2>2 DEF Dismissed, Quiet
    <2>5. Asleep => Asleep'
      BY <2>1 DEF Asleep
    <2> QED
      BY <2>1, <2>3, <2>4, <2>5 DEF BridgeInv, ShouldConnect, Leaving
  <1>4. ASSUME NEW a \in Pages \cup {"ticket"},
               (\E s \in Sockets : TicketIssued(a, s))
                   \/ (\E d \in BOOLEAN : TicketFailed(a, d))
        PROVE  BridgeInv'
    <2>1. Awaited(a)
      BY <1>4 DEF TicketIssued, TicketFailed
    <2>2. ShouldConnect \/ Leaving
      BY <2>1, LoginSleeps, OffLogin
    <2> QED
      BY <1>4, <2>2, LeavingAnswerStep, TicketIssuedStep, TicketFailedStep
  <1>5. CASE ReconnectTimer \/ RetryNow
    <2>1. bridge.timer \/ bridge.banner
      BY <1>5 DEF ReconnectTimer, RetryNow
    <2>2. page # Login
      BY <2>1, LoginSleeps
    <2>3. ~Leaving
      BY <2>1, OnLeaving DEF Quiet
    <2>4. ShouldConnect
      BY <2>2, <2>3, OffLogin
    <2> QED
      BY <1>5, <2>4, ReconnectTimerStep, RetryNowStep
  <1>6. ASSUME NEW s \in Sockets,
               \/ SocketStep(s) \/ OnReauthenticate(s) \/ ConnectionLost(s)
               \/ \E code \in {1008, 1011} : ServerClose(s, code)
        PROVE  BridgeInv'
    BY <1>6, SocketStepInv
  <1> QED
    BY <1>1, <1>2, <1>3, <1>4, <1>5, <1>6 DEF BridgeNext, Answer

LEMMA BridgeInvariant == BridgeSpec => []BridgeInv
  <1>1. BridgeInit => BridgeInv
    BY InitBridgeInv
  <1>2. BridgeInv /\ [BridgeNext]_bridgeVars => BridgeInv'
    BY NextBridgeInv
  <1> QED
    BY <1>1, <1>2, PTL DEF BridgeSpec

\* The bridge's state has its type, and the ticket requests that were outlived
\* stay within their bound and one more, that of a sign-out.
THEOREM BridgeTypeCorrect == BridgeSpec => []BridgeTypeOK
  <1>1. BridgeInv => BridgeTypeOK
    <2> SUFFICES ASSUME BridgeInv
                 PROVE  BridgeTypeOK
      OBVIOUS
    <2>0. MaxStale \in Nat
      BY BridgeAssumption
    <2>1. CASE page = Login
      <3>1. Fresh \in Bridge /\ Free \in SocketRecord
        BY DEF Fresh, Bridge, Free, SocketRecord, SocketStates
      <3>2. Asleep
        BY <2>1 DEF BridgeInv
      <3> QED
        BY <2>0, <3>1, <3>2 DEF Asleep, BridgeInv, BridgeTypeOK, SocketRecord
    <2>2. CASE page # Login
      <3>1. /\ World \in Worlds /\ World.b = bridge /\ World.s = sock /\ World.t = stale
            /\ \A p \in Pages : stale[p] \in 0..MaxStale + 1
        <4>1. CASE ShouldConnect
          BY <4>1, OnPage DEF Bounded
        <4>2. CASE Leaving
          BY <4>2, OnLeaving
        <4> QED
          BY <2>2, <4>1, <4>2, OffLogin
      <3>2. bridge \in Bridge /\ sock \in [Sockets -> SocketRecord] /\ stale \in [Pages -> Int]
        BY <3>1, WorldFields
      <3>3. stale \in [Pages -> 0..MaxStale + 1]
        BY <3>1, <3>2
      <3> QED
        BY <3>2, <3>3 DEF BridgeInv, BridgeTypeOK, SocketRecord
    <2> QED
      BY <2>1, <2>2
  <1> QED
    BY <1>1, BridgeInvariant, PTL

\* On a protected page the bridge always has a request, a socket or a timer that
\* will move it on, however answers, closes and navigations fall.
THEOREM BridgeNeverStranded == BridgeSpec => []NeverStranded
  <1>1. BridgeInv => NeverStranded
    <2> SUFFICES ASSUME BridgeInv, ShouldConnect, ~bridge.redirecting
                 PROVE  \/ bridge.holder = "ticket" \/ bridge.ref # None
                        \/ bridge.timer /\ ~bridge.inFlight
                        \/ \E s \in Live : s # bridge.ref
      BY DEF NeverStranded
    <2> QED
      BY OnPage DEF Moving, Live, Down
  <1> QED
    BY <1>1, BridgeInvariant, PTL

\* In the ready phase the socket whose frames are applied is subscribed to the
\* page on display.
THEOREM ReadyMeansSubscribed == BridgeSpec => []ReadyIsSubscribed
  <1>1. BridgeInv => ReadyIsSubscribed
    <2> SUFFICES ASSUME BridgeInv, ShouldConnect, bridge.phase = "ready", bridge.ref # None,
                        sock[bridge.ref].st \in {"ready", "reauth"}
                 PROVE  sock[bridge.ref].on = page /\ bridge.subscribed = page
      BY DEF ReadyIsSubscribed
    <2> QED
      BY OnPage DEF Subscribed
  <1> QED
    BY <1>1, BridgeInvariant, PTL

\* No answer, refreshed token or close event that arrives between a sign-out and
\* the unload of the document connects, times an attempt or takes a subscription.
THEOREM SignedOutDisconnects == BridgeSpec => []SignedOutIsDisconnected
  <1>1. BridgeInv => SignedOutIsDisconnected
    <2> SUFFICES ASSUME BridgeInv, session = "out"
                 PROVE  Quiet(bridge)
      BY DEF SignedOutIsDisconnected, Quiet
    <2>1. CASE page = Login
      <3>1. Asleep
        BY <2>1 DEF BridgeInv
      <3> QED
        BY <3>1 DEF Asleep, Fresh, Quiet
    <2>2. CASE page # Login
      <3>1. Leaving
        BY <2>2, OffLogin DEF ShouldConnect
      <3> QED
        BY <3>1, OnLeaving
    <2> QED
      BY <2>1, <2>2
  <1> QED
    BY <1>1, BridgeInvariant, PTL

=============================================================================
