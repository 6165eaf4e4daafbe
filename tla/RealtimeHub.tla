----------------------------- MODULE RealtimeHub -----------------------------
(***************************************************************************)
(* The in-process realtime hub and the WebSocket sessions around it.       *)
(*                                                                         *)
(* Three kinds of task share the hub's two maps, each under one mutex that *)
(* is held for a map access and never across an await:                     *)
(*                                                                         *)
(*   sessions   handle_socket, one task per socket: identify, subscribe,   *)
(*              unsubscribe, reauthenticate, write queued frames out       *)
(*   publishers one spawned task per frame: copy the subscribers, ask the  *)
(*              authorizer about each, queue the frame, drop the refused   *)
(*   the authorizer, whose answers change at any moment; an outage is a    *)
(*              refusal (fail-close)                                       *)
(*                                                                         *)
(* A session has one principal for life: reauthentication as another one   *)
(* closes the socket.                                                      *)
(***************************************************************************)
EXTENDS Integers, Sequences, FiniteSets

CONSTANTS
    Sessions,  \* one per accepted socket; ids are never reused
    Channels,  \* subscription keys: guild channels and DM channels
    Frames,    \* frames handed to the hub, one publish task each
    Capacity,  \* MESSAGE_REALTIME_OUTBOUND_CAPACITY
    Nobody     \* not a session

ASSUME HubAssumption ==
    /\ Capacity \in Nat \ {0}
    /\ Nobody \notin Sessions

VARIABLES
    access,         \* pairs of session and channel the authorizer allows
    subscribers,    \* channel_subscribers
    subscriptions,  \* session_subscriptions
    mode,           \* where each session's loop is
    doing,          \* the client frame a session is handling
    pending,        \* the channels that frame is still about
    revoked,        \* channels a reconciliation was refused
    queue,          \* outbound frames of each session
    step,           \* where each publish task is
    target,         \* the channel each frame is of
    waiting,        \* sessions a task has not asked the authorizer about
    cleared,        \* the session a task was just allowed to send to
    invalid,        \* sessions a task will drop from the channel
    vouched,        \* history: subscriptions acknowledged or about to be,
                    \* allowed ever since they were authorized
    barred,         \* history: sessions refused ever since a frame's publish
    steady,         \* history: sessions subscribed when a frame's publish
                    \* began, allowed and open ever since
    reached,        \* history: sessions a frame was queued for
    dropped         \* history: sessions whose queue was full for a frame

maps == <<subscribers, subscriptions>>
session == <<mode, doing, pending, revoked>>
publisher == <<step, target, waiting, cleared, invalid>>
delivery == <<barred, steady, reached, dropped>>
hubVars == <<access, maps, session, queue, publisher, vouched, delivery>>

Allowed(s, c) == <<s, c>> \in access

\* Mutant of RemoveSubscriptions: the channel's map is left alone.
RemoveFromSession(S, C) ==
    /\ subscriptions' = [s \in Sessions |->
           IF s \in S THEN subscriptions[s] \ C ELSE subscriptions[s]]
    /\ UNCHANGED subscribers

RemoveSubscriptions(S, C) ==
    /\ subscribers' = [c \in Channels |->
           IF c \in C THEN subscribers[c] \ S ELSE subscribers[c]]
    /\ subscriptions' = [s \in Sessions |->
           IF s \in S THEN subscriptions[s] \ C ELSE subscriptions[s]]

-----------------------------------------------------------------------------
(* The authorizer.                                                          *)

Grant(s, c) ==
    /\ ~Allowed(s, c)
    /\ access' = access \cup {<<s, c>>}
    /\ barred' = [f \in Frames |->
           IF target[f] = c THEN barred[f] \ {s} ELSE barred[f]]
    /\ UNCHANGED <<maps, session, queue, publisher, vouched, steady, reached, dropped>>

Revoke(s, c) ==
    /\ Allowed(s, c)
    /\ access' = access \ {<<s, c>>}
    /\ vouched' = vouched \ {<<s, c>>}
    /\ steady' = [f \in Frames |->
           IF target[f] = c THEN steady[f] \ {s} ELSE steady[f]]
    /\ UNCHANGED <<maps, session, queue, publisher, barred, reached, dropped>>

-----------------------------------------------------------------------------
(* A session's task.  It handles one client frame at a time and notices a   *)
(* closed socket or a deadline only between two of them.                    *)

Idle(s) == doing[s] = "nothing"

Close(s) ==
    /\ mode' = [mode EXCEPT ![s] = "closing"]
    /\ vouched' = vouched \ ({s} \X Channels)

\* A socket that opened without credentials identifies with a ticket.
Identify(s) ==
    /\ mode[s] = "preauth"
    /\ mode' = [mode EXCEPT ![s] = "ready"]
    /\ UNCHANGED <<access, maps, doing, pending, revoked, queue, publisher,
                   vouched, delivery>>

\* The token expires: the session asks for a new one and stops writing frames.
Expire(s) ==
    /\ mode[s] = "ready"
    /\ Idle(s)
    /\ mode' = [mode EXCEPT ![s] = "reauth"]
    /\ UNCHANGED <<access, maps, doing, pending, revoked, queue, publisher,
                   vouched, delivery>>

\* Mutant of HangUp: no deadline while a reauthentication is pending.
HangUpUnlessReauth(s) ==
    /\ mode[s] \in {"preauth", "ready"}
    /\ Idle(s)
    /\ Close(s)
    /\ UNCHANGED <<access, maps, doing, pending, revoked, queue, publisher, delivery>>

\* The client hangs up, a send fails, a deadline passes, or a frame is refused
\* with a close code.
HangUp(s) ==
    /\ mode[s] \in {"preauth", "ready", "reauth"}
    /\ Idle(s)
    /\ Close(s)
    /\ UNCHANGED <<access, maps, doing, pending, revoked, queue, publisher, delivery>>

\* Subscribing and unsubscribing are authorized first; a refusal closes the
\* socket.
Authorize(s, c, what) ==
    /\ mode[s] = "ready"
    /\ Idle(s)
    /\ \/ /\ Allowed(s, c)
          /\ doing' = [doing EXCEPT ![s] = what]
          /\ pending' = [pending EXCEPT ![s] = {c}]
          /\ vouched' = IF what = "subscribe" THEN vouched \cup {<<s, c>>}
                                              ELSE vouched \ {<<s, c>>}
          /\ UNCHANGED mode
       \/ /\ ~Allowed(s, c)
          /\ Close(s)
          /\ UNCHANGED <<doing, pending>>
    /\ UNCHANGED <<access, maps, revoked, queue, publisher, delivery>>

Finish(s) ==
    /\ doing' = [doing EXCEPT ![s] = "nothing"]
    /\ pending' = [pending EXCEPT ![s] = {}]

Subscribe(s) ==
    /\ doing[s] = "subscribe"
    /\ subscribers' = [c \in Channels |->
           IF c \in pending[s] THEN subscribers[c] \cup {s} ELSE subscribers[c]]
    /\ subscriptions' = [subscriptions EXCEPT ![s] = @ \cup pending[s]]
    /\ Finish(s)
    /\ UNCHANGED <<access, mode, revoked, queue, publisher, vouched, delivery>>

Unsubscribe(s) ==
    /\ doing[s] = "unsubscribe"
    /\ RemoveSubscriptions({s}, pending[s])
    /\ Finish(s)
    /\ UNCHANGED <<access, mode, revoked, queue, publisher, vouched, delivery>>

\* The new token names the same principal, who may connect: every subscription
\* is authorized again.
Reauthenticate(s) ==
    /\ mode[s] \in {"ready", "reauth"}
    /\ Idle(s)
    /\ doing' = [doing EXCEPT ![s] = "reconcile"]
    /\ pending' = [pending EXCEPT ![s] = subscriptions[s]]
    /\ UNCHANGED <<access, maps, mode, revoked, queue, publisher, vouched, delivery>>

ReconcileCheck(s, c) ==
    /\ doing[s] = "reconcile"
    /\ c \in pending[s]
    /\ pending' = [pending EXCEPT ![s] = @ \ {c}]
    /\ revoked' = IF Allowed(s, c) THEN revoked
                  ELSE [revoked EXCEPT ![s] = @ \cup {c}]
    /\ UNCHANGED <<access, maps, mode, doing, queue, publisher, vouched, delivery>>

ReconcileEnd(s) ==
    /\ doing[s] = "reconcile"
    /\ pending[s] = {}
    /\ RemoveSubscriptions({s}, revoked[s])
    /\ revoked' = [revoked EXCEPT ![s] = {}]
    /\ mode' = [mode EXCEPT ![s] = "ready"]
    /\ Finish(s)
    /\ UNCHANGED <<access, queue, publisher, vouched, delivery>>

WriteOut(s) ==
    /\ mode[s] = "ready"
    /\ Idle(s)
    /\ queue[s] # <<>>
    /\ queue' = [queue EXCEPT ![s] = Tail(@)]
    /\ UNCHANGED <<access, maps, session, publisher, vouched, delivery>>

\* The loop is left: all subscriptions go, and the receiver with them.
Disconnect(s) ==
    /\ mode[s] = "closing"
    /\ RemoveSubscriptions({s}, subscriptions[s])
    /\ mode' = [mode EXCEPT ![s] = "closed"]
    /\ queue' = [queue EXCEPT ![s] = <<>>]
    /\ steady' = [f \in Frames |-> steady[f] \ {s}]
    /\ UNCHANGED <<access, doing, pending, revoked, publisher, vouched,
                   barred, reached, dropped>>

-----------------------------------------------------------------------------
(* A publish task.                                                          *)

Publish(f, c) ==
    /\ step[f] = "new"
    /\ target' = [target EXCEPT ![f] = c]
    /\ waiting' = [waiting EXCEPT ![f] = subscribers[c]]
    /\ step' = [step EXCEPT ![f] = IF subscribers[c] = {} THEN "done" ELSE "sending"]
    /\ barred' = [barred EXCEPT ![f] = {s \in Sessions : ~Allowed(s, c)}]
    /\ steady' = [steady EXCEPT ![f] = {s \in subscribers[c] : Allowed(s, c)}]
    /\ UNCHANGED <<access, maps, session, queue, cleared, invalid, vouched,
                   reached, dropped>>

\* Mutant of CheckAccess: being subscribed is taken for being allowed.
CheckNothing(f, s) ==
    /\ step[f] = "sending"
    /\ cleared[f] = Nobody
    /\ s \in waiting[f]
    /\ waiting' = [waiting EXCEPT ![f] = @ \ {s}]
    /\ cleared' = [cleared EXCEPT ![f] = s]
    /\ UNCHANGED <<access, maps, session, queue, step, target, invalid, vouched, delivery>>

\* Mutant of CheckAccess: the first refusal ends the fan-out.
CheckAccessBreaks(f, s) ==
    /\ step[f] = "sending"
    /\ cleared[f] = Nobody
    /\ s \in waiting[f]
    /\ IF Allowed(s, target[f])
       THEN /\ waiting' = [waiting EXCEPT ![f] = @ \ {s}]
            /\ cleared' = [cleared EXCEPT ![f] = s]
            /\ UNCHANGED invalid
       ELSE /\ waiting' = [waiting EXCEPT ![f] = {}]
            /\ invalid' = [invalid EXCEPT ![f] = @ \cup {s}]
            /\ UNCHANGED cleared
    /\ UNCHANGED <<access, maps, session, queue, step, target, vouched, delivery>>

\* Mutant of CheckAccess: a refused subscriber is asked about again.
CheckAccessRepeats(f, s) ==
    /\ step[f] = "sending"
    /\ cleared[f] = Nobody
    /\ s \in waiting[f]
    /\ IF Allowed(s, target[f])
       THEN /\ waiting' = [waiting EXCEPT ![f] = @ \ {s}]
            /\ cleared' = [cleared EXCEPT ![f] = s]
       ELSE UNCHANGED <<waiting, cleared>>
    /\ UNCHANGED <<access, maps, session, queue, step, target, invalid, vouched, delivery>>

CheckAccess(f, s) ==
    /\ step[f] = "sending"
    /\ cleared[f] = Nobody
    /\ s \in waiting[f]
    /\ waiting' = [waiting EXCEPT ![f] = @ \ {s}]
    /\ \/ /\ Allowed(s, target[f])
          /\ cleared' = [cleared EXCEPT ![f] = s]
          /\ UNCHANGED invalid
       \/ /\ ~Allowed(s, target[f])
          /\ invalid' = [invalid EXCEPT ![f] = @ \cup {s}]
          /\ UNCHANGED cleared
    /\ UNCHANGED <<access, maps, session, queue, step, target, vouched, delivery>>

\* Mutant of TrySend: the channel is unbounded.
TrySendUnbounded(f) ==
    LET s == cleared[f] IN
    /\ s # Nobody
    /\ cleared' = [cleared EXCEPT ![f] = Nobody]
    /\ queue' = [queue EXCEPT ![s] = IF mode[s] = "closed" THEN @ ELSE Append(@, f)]
    /\ reached' = [reached EXCEPT ![f] = @ \cup {s}]
    /\ UNCHANGED <<access, maps, session, step, target, waiting, invalid, vouched,
                   barred, steady, dropped>>

\* Mutant of TrySend: a full queue is taken for a closed one.
TrySendFullIsClosed(f) ==
    LET s == cleared[f]
        open == mode[s] # "closed" /\ Len(queue[s]) < Capacity
    IN
    /\ s # Nobody
    /\ cleared' = [cleared EXCEPT ![f] = Nobody]
    /\ invalid' = IF open THEN invalid ELSE [invalid EXCEPT ![f] = @ \cup {s}]
    /\ queue' = IF open THEN [queue EXCEPT ![s] = Append(@, f)] ELSE queue
    /\ reached' = IF open THEN [reached EXCEPT ![f] = @ \cup {s}] ELSE reached
    /\ UNCHANGED <<access, maps, session, step, target, waiting, vouched,
                   barred, steady, dropped>>

\* try_send never waits: the frame is queued, dropped because the queue is
\* full, or refused because the session is gone.
TrySend(f) ==
    LET s == cleared[f] IN
    /\ s # Nobody
    /\ cleared' = [cleared EXCEPT ![f] = Nobody]
    /\ \/ /\ mode[s] = "closed"
          /\ invalid' = [invalid EXCEPT ![f] = @ \cup {s}]
          /\ UNCHANGED <<queue, reached, dropped>>
       \/ /\ mode[s] # "closed"
          /\ Len(queue[s]) < Capacity
          /\ queue' = [queue EXCEPT ![s] = Append(@, f)]
          /\ reached' = [reached EXCEPT ![f] = @ \cup {s}]
          /\ UNCHANGED <<invalid, dropped>>
       \/ /\ mode[s] # "closed"
          /\ Len(queue[s]) = Capacity
          /\ dropped' = [dropped EXCEPT ![f] = @ \cup {s}]
          /\ UNCHANGED <<queue, invalid, reached>>
    /\ UNCHANGED <<access, maps, session, step, target, waiting, vouched, barred, steady>>

Cleanup(f) ==
    /\ step[f] = "sending"
    /\ waiting[f] = {}
    /\ cleared[f] = Nobody
    /\ RemoveSubscriptions(invalid[f], {target[f]})
    /\ step' = [step EXCEPT ![f] = "done"]
    /\ invalid' = [invalid EXCEPT ![f] = {}]
    /\ UNCHANGED <<access, session, queue, target, waiting, cleared, vouched, delivery>>

-----------------------------------------------------------------------------

HubInit ==
    /\ access \in SUBSET (Sessions \X Channels)
    /\ subscribers = [c \in Channels |-> {}]
    /\ subscriptions = [s \in Sessions |-> {}]
    /\ mode \in [Sessions -> {"preauth", "ready"}]
    /\ doing = [s \in Sessions |-> "nothing"]
    /\ pending = [s \in Sessions |-> {}]
    /\ revoked = [s \in Sessions |-> {}]
    /\ queue = [s \in Sessions |-> <<>>]
    /\ step = [f \in Frames |-> "new"]
    /\ target \in [Frames -> Channels]
    /\ waiting = [f \in Frames |-> {}]
    /\ cleared = [f \in Frames |-> Nobody]
    /\ invalid = [f \in Frames |-> {}]
    /\ vouched = {}
    /\ barred = [f \in Frames |-> {}]
    /\ steady = [f \in Frames |-> {}]
    /\ reached = [f \in Frames |-> {}]
    /\ dropped = [f \in Frames |-> {}]

\* What a session does without hearing from its client.
SessionStep(s) ==
    \/ Subscribe(s)
    \/ Unsubscribe(s)
    \/ \E c \in Channels : ReconcileCheck(s, c)
    \/ ReconcileEnd(s)
    \/ Disconnect(s)

ClientStep(s) ==
    \/ Identify(s)
    \/ Expire(s)
    \/ HangUp(s)
    \/ \E c \in Channels : \/ Authorize(s, c, "subscribe")
                           \/ Authorize(s, c, "unsubscribe")
    \/ Reauthenticate(s)
    \/ WriteOut(s)

PublishStep(f) ==
    \/ \E s \in Sessions : CheckAccess(f, s)
    \/ TrySend(f)
    \/ Cleanup(f)

HubNext ==
    \/ \E s \in Sessions, c \in Channels : Grant(s, c) \/ Revoke(s, c)
    \/ \E s \in Sessions : ClientStep(s) \/ SessionStep(s)
    \/ \E f \in Frames : PublishStep(f) \/ \E c \in Channels : Publish(f, c)

HubSpec == HubInit /\ [][HubNext]_hubVars

\* The runtime polls every task; the deadline of a pending reauthentication
\* passes.  No client and no change of access is obliged to happen.
ReauthTimeout(s) == mode[s] = "reauth" /\ HangUp(s)

FairHubSpec ==
    /\ HubSpec
    /\ \A s \in Sessions : WF_hubVars(SessionStep(s)) /\ WF_hubVars(ReauthTimeout(s))
    /\ \A f \in Frames : WF_hubVars(PublishStep(f))

-----------------------------------------------------------------------------
(* What the hub promises.                                                   *)

HubTypeOK ==
    /\ access \subseteq Sessions \X Channels
    /\ subscribers \in [Channels -> SUBSET Sessions]
    /\ subscriptions \in [Sessions -> SUBSET Channels]
    /\ mode \in [Sessions -> {"preauth", "ready", "reauth", "closing", "closed"}]
    /\ doing \in [Sessions -> {"nothing", "subscribe", "unsubscribe", "reconcile"}]
    /\ pending \in [Sessions -> SUBSET Channels]
    /\ revoked \in [Sessions -> SUBSET Channels]
    /\ queue \in [Sessions -> Seq(Frames)]
    /\ \A s \in Sessions : Len(queue[s]) <= Capacity
    /\ step \in [Frames -> {"new", "sending", "done"}]
    /\ target \in [Frames -> Channels]
    /\ waiting \in [Frames -> SUBSET Sessions]
    /\ cleared \in [Frames -> Sessions \cup {Nobody}]
    /\ invalid \in [Frames -> SUBSET Sessions]
    /\ vouched \subseteq Sessions \X Channels
    /\ barred \in [Frames -> SUBSET Sessions]
    /\ steady \in [Frames -> SUBSET Sessions]
    /\ reached \in [Frames -> SUBSET Sessions]
    /\ dropped \in [Frames -> SUBSET Sessions]

\* Between two lock sections the two maps describe the same subscriptions, and
\* a session whose socket is gone is in neither: no task that still holds a
\* copy of the subscribers brings it back.
ClosedIsForgotten ==
    \A s \in Sessions, c \in Channels :
        /\ s \in subscribers[c] <=> c \in subscriptions[s]
        /\ s \in subscribers[c] => mode[s] # "closed"

\* "Authorized again before publish": a frame is never queued for a session
\* that was refused from before its publish began until now, however old the
\* subscription and whatever raced with it.
RevokedReceivesNothing ==
    \A f \in Frames : reached[f] \cap barred[f] = {}

\* A publish that ended has been queued for every session that was subscribed
\* when it began and stayed allowed and open, or the session's queue was full:
\* refusals and departures of others cost nobody a frame.
FanoutIsComplete ==
    \A f \in Frames : step[f] = "done" => steady[f] \subseteq reached[f] \cup dropped[f]

\* "subscribe and unsubscribe are reflected in the real subscription state": a
\* subscription that was acknowledged and has been allowed ever since its
\* authorization is in the hub.
AcknowledgedSubscriptionHolds ==
    \A s \in Sessions, c \in Channels :
        <<s, c>> \in vouched /\ doing[s] # "subscribe" => s \in subscribers[c]

\* No publish task waits for a client, a full queue or another task.
PublishEnds == \A f \in Frames : step[f] = "sending" ~> step[f] = "done"

\* An expired session is reauthenticated or closed and forgotten.
ExpiredIsSettled ==
    \A s \in Sessions : mode[s] = "reauth" ~> mode[s] \in {"ready", "closed"}

=============================================================================
