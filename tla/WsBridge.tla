------------------------------ MODULE WsBridge ------------------------------
(* The web client's WebSocket bridge (app/providers/ws-auth-bridge.tsx): the
   one component that keeps an identified connection while an authenticated
   user is on a protected page.  Its callbacks are functions from the bridge
   record to the bridge record; React runs an event handler, the render it
   causes and the effects of that render before the answer to anything the
   handler sent can arrive, so a handler and its effects are one step.
   Everything that is awaited (a ticket, a refreshed token, the sign-out, a
   close event) ends in a step of its own.                                  *)
EXTENDS FiniteSets, Integers

CONSTANTS
    Pages,      \* protected pages, each with its own channel to subscribe to
    Sockets,    \* WebSocket objects that can exist at one time
    Faults,     \* what the environment may do wrong, see Fault
    MaxStale,   \* bound: ticket requests outlived by a newer attempt
    Login,      \* the login page
    None

Fault == {"ticket", "network", "refusal", "outage", "refresh", "elsewhere"}

ASSUME BridgeAssumption ==
    /\ Pages # {} /\ IsFiniteSet(Sockets) /\ MaxStale \in Nat
    /\ Faults \subseteq Fault
    /\ Login \notin Pages /\ "ticket" \notin Pages \cup Sockets
    /\ None \notin Pages \cup Sockets \cup {"ticket", Login}

VARIABLES
    session,    \* "in" or "out": what AuthProvider last heard from Firebase
    page,       \* the route, a protected page or the login page
    bridge,     \* the refs and the state of WsAuthBridge
    sock,       \* per WebSocket: how far it is, the page its handlers captured
    stale,      \* per captured page: ticket requests of cancelled attempts
    refreshing, \* sockets whose reauthentication waits for a fresh token
    calm        \* the environment has stopped doing anything wrong

bridgeVars == <<session, page, bridge, sock, stale, refreshing, calm>>

Bridge ==
    [ref : Sockets \cup {None},              \* socketRef
     intentional : Sockets \cup {None},      \* intentionallyClosingSocketRef
     inFlight : BOOLEAN,                     \* connectInFlightRef
     holder : Sockets \cup {"ticket", None}, \* the attempt of the latest connectGeneration
     timer : BOOLEAN,                        \* reconnectTimerRef
     banner : BOOLEAN,                       \* isServiceUnavailable
     phase : {"idle", "connecting", "identifying", "ready", "closed"},
     subscribed : Pages \cup {None},         \* subscribedTargetRef
     hadReady : BOOLEAN,                     \* hadReadyConnectionRef
     redirecting : BOOLEAN]                  \* redirectingRef

\* "closing": close() was called here and the close event is still to come.
SocketStates ==
    {"free", "connecting", "open", "identified", "ready", "reauth", "closing"}

Fresh ==
    [ref |-> None, intentional |-> None, inFlight |-> FALSE, holder |-> None,
     timer |-> FALSE, banner |-> FALSE, phase |-> "idle", subscribed |-> None,
     hadReady |-> FALSE, redirecting |-> FALSE]

Free == [st |-> "free", page |-> None, on |-> None]

Live == {s \in Sockets : sock[s].st \notin {"free", "closing"}}

ShouldConnect == session = "in" /\ page \in Pages

\* The guard of a protected page renders nothing for a signed-out user and has
\* asked for the login page; until that loads the document runs on.
Leaving == session = "out" /\ page \in Pages

-----------------------------------------------------------------------------
(* The bridge's callbacks.  Each takes and returns w, a record of the bridge,
   the sockets and the outlived ticket requests.                            *)

World == [b |-> bridge, s |-> sock, t |-> stale]

\* (\E gives the value of a chain of callbacks one name, so TLC computes it once.)
Becomes(w) ==
    \E v \in {w} : bridge' = v.b /\ sock' = v.s /\ stale' = v.t

Set(w, b) == [w EXCEPT !.b = b]

SetSocket(w, s, v) == [w EXCEPT !.s[s] = v]

Advance(w, s, st) == SetSocket(w, s, [w.s[s] EXCEPT !.st = st])

ClearReconnectTimer(w) == [w EXCEPT !.b.timer = FALSE]

CloseCurrentSocket(w) ==
    IF w.b.ref = None THEN w
    ELSE Advance(Set(w, [w.b EXCEPT !.intentional = w.b.ref, !.ref = None,
                                    !.subscribed = None]), w.b.ref, "closing")

SetStale(w, p, n) == [w EXCEPT !.t[p] = n]

\* A newer generation: whoever held the latest one has been outlived.
CancelConnectAttempts(w, from) ==
    LET c == Set(w, [w.b EXCEPT !.inFlight = FALSE, !.holder = None]) IN
    IF w.b.holder = "ticket" THEN SetStale(c, from, w.t[from] + 1) ELSE c

\* Mutant of FinishConnectAttempt: a finished attempt does not give up connectInFlightRef.
FinishConnectAttemptLate(w, attempt) == w

FinishConnectAttempt(w, attempt) ==
    IF w.b.holder = attempt THEN Set(w, [w.b EXCEPT !.inFlight = FALSE]) ELSE w

\* Signs out first; the navigation follows in SignedOut and Reload.
RedirectToLogin(w) ==
    IF w.b.redirecting THEN w
    ELSE CloseCurrentSocket(ClearReconnectTimer(CancelConnectAttempts(
             Set(w, [w.b EXCEPT !.redirecting = TRUE]), page)))

\* Mutant of ScheduleReconnect: under the service-unavailable banner only the user retries.
ScheduleReconnectWithoutBanner(w, banner) ==
    IF ~ShouldConnect \/ w.b.redirecting THEN w
    ELSE Set(w, [w.b EXCEPT !.timer = ~banner, !.banner = banner, !.phase = "closed"])

ScheduleReconnect(w, banner) ==
    IF ~ShouldConnect \/ w.b.redirecting THEN w
    ELSE Set(w, [w.b EXCEPT !.timer = TRUE, !.banner = banner, !.phase = "closed"])

\* connect() up to its await.
Connect(w) ==
    IF w.b.redirecting \/ w.b.inFlight THEN w
    ELSE LET c == CloseCurrentSocket(ClearReconnectTimer(w)) IN
         Set(c, [c.b EXCEPT !.inFlight = TRUE, !.holder = "ticket",
                            !.phase = "connecting"])

\* The effect that follows a phase change to "ready".
SubscribeActive(w, s) ==
    SetSocket(Set(w, [w.b EXCEPT !.subscribed = page]), s, [w.s[s] EXCEPT !.on = page])

\* Mutant of HandleSocketReady: only the first connection subscribes.
HandleSocketReadyOnce(w, s) ==
    LET c == Set(w, [w.b EXCEPT !.hadReady = TRUE, !.banner = FALSE,
                                !.phase = "ready"]) IN
    IF w.b.hadReady THEN c ELSE SubscribeActive(c, s)

HandleSocketReady(w, s) ==
    SubscribeActive(Set(w, [w.b EXCEPT !.hadReady = TRUE, !.banner = FALSE,
                                       !.phase = "ready"]), s)

HandleSocketClose(w, s, code) ==
    IF w.b.intentional = s
    THEN FinishConnectAttempt(Set(w, [w.b EXCEPT !.intentional = None]), s)
    ELSE LET c == FinishConnectAttempt(
                     Set(w, [w.b EXCEPT !.ref = IF @ = s THEN None ELSE @,
                                        !.subscribed = None, !.phase = "closed"]), s) IN
         IF ~ShouldConnect \/ c.b.redirecting THEN c
         ELSE IF code = 1008 THEN RedirectToLogin(c)
         ELSE ScheduleReconnect(c, code = 1011)

-----------------------------------------------------------------------------
(* Routes and the session.                                                  *)

\* The target is a dependency of connect, so another page tears the
\* connection down and starts over: the effect's cleanup, then connect().
Navigate(p) ==
    /\ ShouldConnect /\ p \in Pages \ {page} /\ ~calm
    /\ bridge.holder = "ticket" => stale[page] < MaxStale
    /\ page' = p
    /\ Becomes(Connect(CloseCurrentSocket(ClearReconnectTimer(
           CancelConnectAttempts(World, page)))))
    /\ UNCHANGED <<session, refreshing, calm>>

\* The main effect when the bridge must not be connected.
Dismiss(w, from) ==
    LET c == CloseCurrentSocket(ClearReconnectTimer(CancelConnectAttempts(w, from))) IN
    Set(c, [c.b EXCEPT !.subscribed = None, !.redirecting = FALSE, !.hadReady = FALSE,
                       !.banner = FALSE, !.phase = "idle"])

\* AuthProvider hears that the user is signed out: by redirectToLogin, by the
\* user, or by another tab.  The effect runs in the same document, and whatever
\* that document awaits still arrives.
SignedOut ==
    /\ session = "in"
    /\ bridge.redirecting \/ ("elsewhere" \in Faults /\ ~calm)
    /\ bridge.holder = "ticket" => stale[page] < MaxStale
    /\ session' = "out"
    /\ IF page \in Pages THEN Becomes(Dismiss(World, page))
       ELSE UNCHANGED <<bridge, sock, stale>>
    /\ UNCHANGED <<page, refreshing, calm>>

\* location.replace, by redirectToLogin, or assign, by the guard: the document
\* and all it awaited are gone.  The sign-out redirectToLogin awaits may fail.
Reload ==
    /\ Leaving \/ (bridge.redirecting /\ "network" \in Faults /\ ~calm)
    /\ page' = Login
    /\ bridge' = Fresh
    /\ sock' = [s \in Sockets |-> Free]
    /\ stale' = [p \in Pages |-> 0]
    /\ refreshing' = {}
    /\ UNCHANGED <<session, calm>>

\* Login ends in a new document on a protected page; the effect connects.
LogIn(p) ==
    /\ page = Login /\ ~calm
    /\ session' = "in"
    /\ page' = p
    /\ Becomes(Connect(World))
    /\ UNCHANGED <<refreshing, calm>>

-----------------------------------------------------------------------------
(* A ticket request is answered.                                            *)

\* Mutant of Attempt: an outlived request is answered although none is left.
AttemptAnsweredAgain == {"ticket"} \cup Pages

Attempt == {"ticket"} \cup {p \in Pages : stale[p] > 0}

\* The answer of attempt a is taken off; a stale attempt is named by the page
\* its connect() had captured.
Answered(a) ==
    IF a = "ticket" THEN FinishConnectAttempt(World, "ticket")
    ELSE SetStale(World, a, stale[a] - 1)

Awaited(a) == a \in Attempt /\ (a = "ticket" => bridge.holder = "ticket")

Release(w, a) == IF a = "ticket" THEN Set(w, [w.b EXCEPT !.holder = None]) ELSE w

\* Mutant of StillWanted: the answer does not look at the session again.
StillWantedUnlessRedirecting(w) == ~w.b.redirecting

StillWanted(w) == ShouldConnect /\ ~w.b.redirecting

\* Only shouldConnect and redirecting are looked at after the await, neither
\* the generation nor a socket that has been opened meanwhile.  (Bound: the last
\* free socket is left to the latest attempt.)
TicketIssued(a, s) ==
    /\ Awaited(a)
    /\ sock[s].st = "free" /\ s \notin refreshing
    /\ a # "ticket" /\ bridge.holder = "ticket" => \E z \in Sockets \ {s} : sock[z].st = "free"
    /\ IF ~StillWanted(World)
       THEN Becomes(Release(Answered(a), a))
       ELSE LET w == IF a = "ticket" THEN World ELSE Answered(a) IN
            Becomes(SetSocket(
                Set(w, [w.b EXCEPT !.ref = s,
                                   !.holder = IF a = "ticket" THEN s ELSE @]), s,
                [st |-> "connecting", page |-> IF a = "ticket" THEN page ELSE a,
                 on |-> None]))
    /\ UNCHANGED <<session, page, refreshing, calm>>

\* unauthenticated, token-unavailable and forbidden send the user to the login
\* page; every other failure, a malformed URL included, is retried.
TicketFailed(a, deterministic) ==
    /\ Awaited(a) /\ ~calm
    /\ IF deterministic THEN "refusal" \in Faults ELSE "ticket" \in Faults
    /\ LET w == Release(Answered(a), a) IN
       IF ~StillWanted(World) THEN Becomes(w)
       ELSE IF deterministic THEN Becomes(RedirectToLogin(w))
       ELSE \E banner \in BOOLEAN : Becomes(ScheduleReconnect(w, banner))
    /\ UNCHANGED <<session, page, refreshing, calm>>

\* The shortest delay is a second: in a calm network close() is done by then.
ReconnectTimer ==
    /\ bridge.timer
    /\ calm => \A s \in Sockets : sock[s].st # "closing"
    /\ Becomes(IF ShouldConnect THEN Connect(ClearReconnectTimer(World))
               ELSE ClearReconnectTimer(World))
    /\ UNCHANGED <<session, page, refreshing, calm>>

RetryNow ==
    /\ bridge.banner /\ ~bridge.inFlight /\ bridge.phase = "closed"
    /\ ShouldConnect /\ ~calm
    /\ Becomes(Connect(ClearReconnectTimer(World)))
    /\ UNCHANGED <<session, page, refreshing, calm>>

-----------------------------------------------------------------------------
(* Socket events.  The server identifies a ticket, asks for reauthentication
   near a token's expiry, and closes with 1008 a socket that does not identify
   or reauthenticate in time.                                               *)

OnOpen(s) ==
    /\ sock[s].st = "connecting"
    /\ IF bridge.ref # s THEN Becomes(Advance(World, s, "open"))
       ELSE Becomes(FinishConnectAttempt(Advance(
                Set(World, [bridge EXCEPT !.banner = FALSE, !.phase = "identifying",
                                          !.subscribed = None]), s, "identified"), s))
    /\ UNCHANGED <<session, page, refreshing, calm>>

OnReady(s) ==
    /\ sock[s].st = "identified"
    /\ LET w == Advance(World, s, "ready") IN
       Becomes(IF bridge.ref = s THEN HandleSocketReady(w, s) ELSE w)
    /\ UNCHANGED <<session, page, refreshing, calm>>

OnReauthenticate(s) ==
    /\ sock[s].st = "ready" /\ ~calm
    /\ Becomes(Advance(World, s, "reauth"))
    /\ refreshing' = IF bridge.ref = s THEN refreshing \cup {s} ELSE refreshing
    /\ UNCHANGED <<session, page, calm>>

\* A failed refresh redirects whichever socket asked for it, a signed-out
\* user's too; one that was under way may still succeed after the sign-out.
TokenRefreshed(s, ok) ==
    /\ s \in refreshing
    /\ ~ok => (session = "out" \/ ("refresh" \in Faults /\ ~calm))
    /\ refreshing' = refreshing \ {s}
    /\ Becomes(IF ~ok THEN RedirectToLogin(World)
               ELSE IF bridge.ref = s /\ sock[s].st = "reauth"
                    THEN Advance(World, s, "ready") ELSE World)
    /\ UNCHANGED <<session, page, calm>>

CloseEvent(s, code) ==
    /\ Becomes(HandleSocketClose(SetSocket(World, s, Free), s, code))
    /\ UNCHANGED <<session, page, refreshing, calm>>

\* close() has done its work.
Closed(s) == sock[s].st = "closing" /\ CloseEvent(s, 1005)

\* The deadlines of ws_routes.rs: no identify, or no answer to the request for
\* reauthentication.
DeadlineClose(s) ==
    /\ \/ sock[s].st = "open"
       \/ /\ sock[s].st = "reauth"
          /\ s \in refreshing => "refresh" \in Faults /\ ~calm
    /\ CloseEvent(s, 1008)

\* The server refuses the ticket or the principal, or cannot decide.
ServerClose(s, code) ==
    /\ ~calm
    /\ sock[s].st \in {"identified", "ready", "reauth"}
    /\ \/ code = 1008 /\ "refusal" \in Faults
       \/ code = 1011 /\ "outage" \in Faults
    /\ CloseEvent(s, code)

ConnectionLost(s) ==
    /\ s \in Live /\ "network" \in Faults /\ ~calm
    /\ CloseEvent(s, 1006)

CalmDown ==
    /\ ~calm
    /\ calm' = TRUE
    /\ UNCHANGED <<session, page, bridge, sock, stale, refreshing>>

-----------------------------------------------------------------------------

BridgeInit ==
    /\ session = "out"
    /\ page = Login
    /\ bridge = Fresh
    /\ sock = [s \in Sockets |-> Free]
    /\ stale = [p \in Pages |-> 0]
    /\ refreshing = {}
    /\ calm = FALSE

Answer == \E a \in Pages \cup {"ticket"}, s \in Sockets : TicketIssued(a, s)

SocketStep(s) ==
    OnOpen(s) \/ OnReady(s) \/ TokenRefreshed(s, TRUE) \/ TokenRefreshed(s, FALSE)
        \/ Closed(s) \/ DeadlineClose(s)

BridgeNext ==
    \/ \E p \in Pages : Navigate(p) \/ LogIn(p)
    \/ SignedOut \/ Reload \/ CalmDown
    \/ Answer
    \/ \E a \in Pages \cup {"ticket"}, d \in BOOLEAN : TicketFailed(a, d)
    \/ ReconnectTimer \/ RetryNow
    \/ \E s \in Sockets :
          \/ SocketStep(s) \/ OnReauthenticate(s) \/ ConnectionLost(s)
          \/ \E code \in {1008, 1011} : ServerClose(s, code)

BridgeSpec == BridgeInit /\ [][BridgeNext]_bridgeVars

\* Requests are answered, timers fire, sockets open, close events arrive, the
\* server's deadlines expire and a started navigation is carried out.
FairBridgeSpec ==
    /\ BridgeSpec
    /\ WF_bridgeVars(SignedOut) /\ WF_bridgeVars(Reload)
    /\ WF_bridgeVars(ReconnectTimer)
    /\ \A a \in Pages \cup {"ticket"} :
           WF_bridgeVars(\E s \in Sockets : TicketIssued(a, s))
    /\ \A s \in Sockets : WF_bridgeVars(SocketStep(s))

-----------------------------------------------------------------------------
(* What the bridge promises.                                                *)

BridgeTypeOK ==
    /\ session \in {"in", "out"}
    /\ page \in Pages \cup {Login}
    /\ bridge \in Bridge
    /\ sock \in [Sockets ->
           [st : SocketStates, page : Pages \cup {None}, on : Pages \cup {None}]]
    /\ stale \in [Pages -> 0..MaxStale + 1]
    /\ refreshing \subseteq Sockets
    /\ calm \in BOOLEAN

\* While it should be connected the bridge always has something that will move
\* it on: a request, a socket, a timer.  A socket that was overwritten by the
\* answer of an outlived request counts too: it may hold inFlight, so that no
\* timer can start an attempt, until its own close event comes.
NeverStranded ==
    ShouldConnect /\ ~bridge.redirecting =>
        \/ bridge.holder = "ticket" \/ bridge.ref # None
        \/ bridge.timer /\ ~bridge.inFlight
        \/ \E s \in Live : s # bridge.ref

\* In the ready phase the server sends the frames of the page on display, and
\* of no other, on the socket whose frames are applied.
ReadyIsSubscribed ==
    ShouldConnect /\ bridge.phase = "ready" /\ bridge.ref # None
        /\ sock[bridge.ref].st \in {"ready", "reauth"}
      => sock[bridge.ref].on = page /\ bridge.subscribed = page

\* Between a sign-out and the unload of the document answers, refreshed tokens
\* and close events still arrive, and none of them connects, times an attempt,
\* holds a subscription or shows the banner again.  (A socket an outlived
\* request's answer had overwritten stays open, but its frames are not applied.)
SignedOutIsDisconnected ==
    session = "out" =>
        /\ bridge.ref = None /\ bridge.subscribed = None
        /\ bridge.holder = None /\ ~bridge.inFlight
        /\ ~bridge.timer /\ ~bridge.banner
        /\ bridge.phase \in {"idle", "closed"}

Settled ==
    \/ page = Login
    \/ /\ bridge.phase = "ready" /\ bridge.ref # None
       /\ sock[bridge.ref].st = "ready" /\ ~bridge.redirecting

\* Once the environment behaves, the bridge gets ready or the user is at the
\* login page.
SettlesDown == calm ~> Settled

\* With no fault at all, a user who only moves between pages stays signed in.
NavigationKeepsSession == ~bridge.redirecting

=============================================================================
