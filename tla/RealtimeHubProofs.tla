-------------------------- MODULE RealtimeHubProofs --------------------------
(***************************************************************************)
(* Theorems about RealtimeHub, for any sessions, channels, frames and      *)
(* queue capacity.  HubInv is inductive; the safety properties the runs    *)
(* check follow from it.                                                   *)
(***************************************************************************)
EXTENDS RealtimeHub, TLAPS

(* The two maps are each other's inverse. *)
MapsAgree ==
    \A s \in Sessions, c \in Channels : s \in subscribers[c] <=> c \in subscriptions[s]

(* A session leaves its loop only between two client frames, and takes all *)
(* its subscriptions along.                                                *)
LeavingInv ==
    \A s \in Sessions :
        /\ mode[s] \in {"closing", "closed"} => doing[s] = "nothing"
        /\ mode[s] = "closed" => subscriptions[s] = {}

(* Where a task is says what it still holds. *)
TaskInv ==
    \A f \in Frames :
        /\ step[f] = "new" => /\ cleared[f] = Nobody
                              /\ reached[f] = {}
                              /\ barred[f] = {}
                              /\ steady[f] = {}
        /\ step[f] = "done" => waiting[f] = {} /\ cleared[f] = Nobody

(* A barred session is refused now, and the task has not let it through. *)
BarredInv ==
    \A f \in Frames, s \in Sessions :
        s \in barred[f] => ~Allowed(s, target[f]) /\ s # cleared[f] /\ s \notin reached[f]

(* A steady session is allowed and open now, and it is still to be asked   *)
(* about, about to be sent to, or was served.                              *)
SteadyInv ==
    \A f \in Frames, s \in Sessions :
        s \in steady[f] =>
            /\ Allowed(s, target[f])
            /\ mode[s] # "closed"
            /\ s \in waiting[f] \cup {cleared[f]} \cup reached[f] \cup dropped[f]

HubInv == HubTypeOK /\ MapsAgree /\ LeavingInv /\ TaskInv /\ BarredInv /\ SteadyInv

-----------------------------------------------------------------------------
(* Type correctness, by what a step changes.                               *)

LEMMA InitHubInv == HubInit => HubInv
  BY HubAssumption
     DEF HubInit, HubInv, HubTypeOK, MapsAgree, LeavingInv, TaskInv, BarredInv, SteadyInv, Allowed

LEMMA RemoveType ==
    ASSUME HubTypeOK, NEW S, NEW C, RemoveSubscriptions(S, C)
    PROVE  /\ subscribers' \in [Channels -> SUBSET Sessions]
           /\ subscriptions' \in [Sessions -> SUBSET Channels]
  BY DEF HubTypeOK, RemoveSubscriptions

LEMMA AccessType ==
    ASSUME HubTypeOK, NEW s \in Sessions, NEW c \in Channels, Grant(s, c) \/ Revoke(s, c)
    PROVE  HubTypeOK'
  <1> USE DEF maps, session, publisher
  <1>1. CASE Grant(s, c)
    BY <1>1 DEF Grant, HubTypeOK
  <1>2. CASE Revoke(s, c)
    BY <1>2 DEF Revoke, HubTypeOK
  <1> QED
    BY <1>1, <1>2

LEMMA SessionType ==
    ASSUME HubTypeOK, NEW s \in Sessions, ClientStep(s) \/ SessionStep(s)
    PROVE  HubTypeOK'
  <1> USE DEF maps, session, publisher, delivery
  <1>1. CASE Identify(s) \/ Expire(s)
    BY <1>1 DEF Identify, Expire, HubTypeOK
  <1>2. CASE HangUp(s)
    BY <1>2 DEF HangUp, Close, HubTypeOK
  <1>3. ASSUME NEW c \in Channels, Authorize(s, c, "subscribe") \/ Authorize(s, c, "unsubscribe")
        PROVE  HubTypeOK'
    <2>1. CASE Allowed(s, c)
      <3>1. doing' \in [Sessions -> {"nothing", "subscribe", "unsubscribe", "reconcile"}]
        BY <1>3, <2>1 DEF Authorize, HubTypeOK
      <3>2. pending \in [Sessions -> SUBSET Channels] /\ vouched \subseteq Sessions \X Channels
        BY DEF HubTypeOK
      <3>3. /\ pending' = [pending EXCEPT ![s] = {c}]
            /\ vouched' \in {vouched \cup {<<s, c>>}, vouched \ {<<s, c>>}}
        BY <1>3, <2>1 DEF Authorize
      <3>4. /\ pending' \in [Sessions -> SUBSET Channels]
            /\ vouched' \subseteq Sessions \X Channels
        BY <3>2, <3>3
      <3> QED
        BY <1>3, <2>1, <3>1, <3>4 DEF Authorize, HubTypeOK
    <2>2. CASE ~Allowed(s, c)
      BY <1>3, <2>2 DEF Authorize, Close, HubTypeOK
    <2> QED
      BY <2>1, <2>2
  <1>4. CASE Reauthenticate(s)
    BY <1>4 DEF Reauthenticate, HubTypeOK
  <1>5. CASE WriteOut(s)
    <2>1. queue[s] \in Seq(Frames) /\ Len(queue[s]) <= Capacity
      BY DEF HubTypeOK
    <2>2. Tail(queue[s]) \in Seq(Frames) /\ Len(Tail(queue[s])) <= Capacity
      BY <1>5, <2>1, HubAssumption DEF WriteOut
    <2> QED
      BY <1>5, <2>2 DEF WriteOut, HubTypeOK
  <1>6. CASE Subscribe(s)
    BY <1>6 DEF Subscribe, Finish, HubTypeOK
  <1>7. CASE Unsubscribe(s)
    BY <1>7, RemoveType DEF Unsubscribe, Finish, HubTypeOK
  <1>8. ASSUME NEW c \in Channels, ReconcileCheck(s, c)
        PROVE  HubTypeOK'
    BY <1>8 DEF ReconcileCheck, HubTypeOK
  <1>9. CASE ReconcileEnd(s)
    BY <1>9, RemoveType DEF ReconcileEnd, Finish, HubTypeOK
  <1>10. CASE Disconnect(s)
    BY <1>10, RemoveType, HubAssumption DEF Disconnect, HubTypeOK
  <1> QED
    BY <1>1, <1>2, <1>3, <1>4, <1>5, <1>6, <1>7, <1>8, <1>9, <1>10 DEF ClientStep, SessionStep

LEMMA TaskType ==
    ASSUME HubTypeOK, NEW f \in Frames,
           PublishStep(f) \/ \E c \in Channels : Publish(f, c)
    PROVE  HubTypeOK'
  <1> USE DEF maps, session, delivery
  <1>1. ASSUME NEW c \in Channels, Publish(f, c)
        PROVE  HubTypeOK'
    BY <1>1 DEF Publish, HubTypeOK
  <1>2. ASSUME NEW s \in Sessions, CheckAccess(f, s)
        PROVE  HubTypeOK'
    <2>1. /\ waiting' \in [Frames -> SUBSET Sessions]
          /\ cleared' \in [Frames -> Sessions \cup {Nobody}]
      BY <1>2 DEF CheckAccess, HubTypeOK
    <2>2. invalid \in [Frames -> SUBSET Sessions]
      BY DEF HubTypeOK
    <2>3. invalid' = invalid \/ invalid' = [invalid EXCEPT ![f] = invalid[f] \cup {s}]
      BY <1>2 DEF CheckAccess
    <2>4. invalid' \in [Frames -> SUBSET Sessions]
      BY <2>2, <2>3
    <2> QED
      BY <1>2, <2>1, <2>4 DEF CheckAccess, HubTypeOK
  <1>3. CASE TrySend(f)
    <2>1. cleared[f] \in Sessions
      BY <1>3 DEF TrySend, HubTypeOK
    <2>2. queue[cleared[f]] \in Seq(Frames) /\ Len(queue[cleared[f]]) <= Capacity
      BY <2>1 DEF HubTypeOK
    <2>3. /\ Append(queue[cleared[f]], f) \in Seq(Frames)
          /\ Len(Append(queue[cleared[f]], f)) = Len(queue[cleared[f]]) + 1
          /\ Len(queue[cleared[f]]) \in Nat
      BY <2>2
    <2>4. queue' = queue \/
          /\ Len(queue[cleared[f]]) < Capacity
          /\ queue' = [queue EXCEPT ![cleared[f]] = Append(queue[cleared[f]], f)]
      BY <1>3 DEF TrySend
    <2>5. queue' \in [Sessions -> Seq(Frames)]
      BY <2>1, <2>3, <2>4 DEF HubTypeOK
    <2>6. ASSUME NEW s \in Sessions
          PROVE  Len(queue'[s]) <= Capacity
      <3>1. queue \in [Sessions -> Seq(Frames)] /\ Len(queue[s]) <= Capacity /\ Len(queue[s]) \in Nat
        BY DEF HubTypeOK
      <3>2. CASE s = cleared[f]
        BY <2>3, <2>4, <3>1, <3>2, HubAssumption
      <3>3. CASE s # cleared[f]
        BY <2>4, <3>1, <3>3
      <3> QED
        BY <3>2, <3>3
    <2>7. /\ invalid \in [Frames -> SUBSET Sessions]
          /\ reached \in [Frames -> SUBSET Sessions]
          /\ dropped \in [Frames -> SUBSET Sessions]
          /\ cleared \in [Frames -> Sessions \cup {Nobody}]
      BY DEF HubTypeOK
    <2>8. /\ invalid' = invalid \/ invalid' = [invalid EXCEPT ![f] = invalid[f] \cup {cleared[f]}]
          /\ reached' = reached \/ reached' = [reached EXCEPT ![f] = reached[f] \cup {cleared[f]}]
          /\ dropped' = dropped \/ dropped' = [dropped EXCEPT ![f] = dropped[f] \cup {cleared[f]}]
          /\ cleared' = [cleared EXCEPT ![f] = Nobody]
      BY <1>3 DEF TrySend
    <2>9. /\ invalid' \in [Frames -> SUBSET Sessions]
          /\ reached' \in [Frames -> SUBSET Sessions]
          /\ dropped' \in [Frames -> SUBSET Sessions]
          /\ cleared' \in [Frames -> Sessions \cup {Nobody}]
      <3>1. invalid' \in [Frames -> SUBSET Sessions]
        BY <2>1, <2>7, <2>8
      <3>2. reached' \in [Frames -> SUBSET Sessions]
        BY <2>1, <2>7, <2>8
      <3>3. dropped' \in [Frames -> SUBSET Sessions]
        BY <2>1, <2>7, <2>8
      <3>4. cleared' \in [Frames -> Sessions \cup {Nobody}]
        BY <2>7, <2>8
      <3> QED
        BY <3>1, <3>2, <3>3, <3>4
    <2> QED
      BY <1>3, <2>5, <2>6, <2>9 DEF TrySend, HubTypeOK
  <1>4. CASE Cleanup(f)
    BY <1>4, RemoveType DEF Cleanup, HubTypeOK
  <1> QED
    BY <1>1, <1>2, <1>3, <1>4 DEF PublishStep

LEMMA HubTypeKept ==
    ASSUME HubTypeOK, [HubNext]_hubVars
    PROVE  HubTypeOK'
  <1>1. CASE UNCHANGED hubVars
    BY <1>1 DEF hubVars, maps, session, publisher, delivery, HubTypeOK
  <1> QED
    BY <1>1, AccessType, SessionType, TaskType DEF HubNext

-----------------------------------------------------------------------------
(* The two maps change together.                                           *)

LEMMA RemoveKeepsMaps ==
    ASSUME HubTypeOK, MapsAgree, NEW S, NEW C, RemoveSubscriptions(S, C)
    PROVE  /\ MapsAgree'
           /\ \A s \in Sessions : subscriptions'[s] \subseteq subscriptions[s]
           /\ \A s \in S \cap Sessions : subscriptions'[s] = subscriptions[s] \ C
  BY DEF HubTypeOK, MapsAgree, RemoveSubscriptions

LEMMA MapsKept ==
    ASSUME HubTypeOK, MapsAgree, HubNext
    PROVE  MapsAgree'
  <1>1. CASE UNCHANGED maps
    BY <1>1 DEF maps, MapsAgree
  <1>2. ASSUME NEW s \in Sessions, Subscribe(s)
        PROVE  MapsAgree'
    BY <1>2 DEF Subscribe, MapsAgree, HubTypeOK
  <1>3. ASSUME NEW S, NEW C, RemoveSubscriptions(S, C)
        PROVE  MapsAgree'
    BY <1>3, RemoveKeepsMaps
  <1>4. ASSUME NEW s \in Sessions, NEW c \in Channels, Grant(s, c) \/ Revoke(s, c)
        PROVE  UNCHANGED maps
    BY <1>4 DEF Grant, Revoke
  <1>5. ASSUME NEW s \in Sessions, ClientStep(s)
        PROVE  UNCHANGED maps
    BY <1>5 DEF ClientStep, Identify, Expire, HangUp, Authorize, Reauthenticate, WriteOut
  <1>6. ASSUME NEW s \in Sessions, SessionStep(s)
        PROVE  \/ UNCHANGED maps
               \/ Subscribe(s)
               \/ \E S, C : RemoveSubscriptions(S, C)
    BY <1>6 DEF SessionStep, Unsubscribe, ReconcileCheck, ReconcileEnd, Disconnect
  <1>7. ASSUME NEW f \in Frames, PublishStep(f) \/ \E c \in Channels : Publish(f, c)
        PROVE  UNCHANGED maps \/ \E S, C : RemoveSubscriptions(S, C)
    BY <1>7 DEF PublishStep, Publish, CheckAccess, TrySend, Cleanup
  <1> QED
    BY <1>1, <1>2, <1>3, <1>4, <1>5, <1>6, <1>7 DEF HubNext

-----------------------------------------------------------------------------
(* A closed session stays forgotten.                                       *)

LEMMA LeavingKept ==
    ASSUME HubTypeOK, MapsAgree, LeavingInv, HubNext
    PROVE  LeavingInv'
  <1> USE DEF session, maps
  <1>1. CASE UNCHANGED <<subscriptions, mode, doing>>
    BY <1>1 DEF LeavingInv
  <1>2. ASSUME NEW s \in Sessions, NEW c \in Channels, Grant(s, c) \/ Revoke(s, c)
        PROVE  LeavingInv'
    BY <1>1, <1>2 DEF Grant, Revoke
  <1>3. ASSUME NEW s \in Sessions, ClientStep(s)
        PROVE  LeavingInv'
    <2>1. CASE Identify(s) \/ Expire(s) \/ HangUp(s)
      BY <2>1 DEF Identify, Expire, HangUp, Close, Idle, LeavingInv, HubTypeOK
    <2>2. ASSUME NEW c \in Channels, Authorize(s, c, "subscribe") \/ Authorize(s, c, "unsubscribe")
          PROVE  LeavingInv'
      BY <2>2 DEF Authorize, Close, Idle, LeavingInv, HubTypeOK
    <2>3. CASE Reauthenticate(s)
      BY <2>3 DEF Reauthenticate, LeavingInv, HubTypeOK
    <2>4. CASE WriteOut(s)
      BY <1>1, <2>4 DEF WriteOut
    <2> QED
      BY <1>3, <2>1, <2>2, <2>3, <2>4 DEF ClientStep
  <1>4. ASSUME NEW s \in Sessions, SessionStep(s)
        PROVE  LeavingInv'
    <2>1. CASE Subscribe(s)
      BY <2>1 DEF Subscribe, Finish, LeavingInv, HubTypeOK
    <2>2. CASE Unsubscribe(s)
      BY <2>2, RemoveKeepsMaps DEF Unsubscribe, Finish, LeavingInv, HubTypeOK
    <2>3. ASSUME NEW c \in Channels, ReconcileCheck(s, c)
          PROVE  LeavingInv'
      BY <1>1, <2>3 DEF ReconcileCheck
    <2>4. CASE ReconcileEnd(s)
      BY <2>4, RemoveKeepsMaps DEF ReconcileEnd, Finish, LeavingInv, HubTypeOK
    <2>5. CASE Disconnect(s)
      <3>1. subscriptions'[s] = {}
        BY <2>5, RemoveKeepsMaps DEF Disconnect
      <3>2. \A x \in Sessions : subscriptions'[x] \subseteq subscriptions[x]
        BY <2>5, RemoveKeepsMaps DEF Disconnect
      <3> QED
        BY <2>5, <3>1, <3>2 DEF Disconnect, LeavingInv, HubTypeOK
    <2> QED
      BY <1>4, <2>1, <2>2, <2>3, <2>4, <2>5 DEF SessionStep
  <1>5. ASSUME NEW f \in Frames, PublishStep(f) \/ \E c \in Channels : Publish(f, c)
        PROVE  LeavingInv'
    <2>1. CASE Cleanup(f)
      BY <2>1, RemoveKeepsMaps DEF Cleanup, LeavingInv, HubTypeOK
    <2>2. CASE ~Cleanup(f)
      BY <1>1, <1>5, <2>2 DEF PublishStep, Publish, CheckAccess, TrySend
    <2> QED
      BY <2>1, <2>2
  <1> QED
    BY <1>2, <1>3, <1>4, <1>5 DEF HubNext

-----------------------------------------------------------------------------
(* Where a task is says what it still holds.                               *)

LEMMA TaskKept ==
    ASSUME HubTypeOK, TaskInv, HubNext
    PROVE  TaskInv'
  <1> USE DEF publisher, delivery
  <1>1. ASSUME UNCHANGED <<step, waiting, cleared, reached, barred>>,
               \A f \in Frames : steady'[f] \subseteq steady[f]
        PROVE  TaskInv'
    BY <1>1 DEF TaskInv
  <1>2. ASSUME NEW s \in Sessions, NEW c \in Channels, Grant(s, c)
        PROVE  TaskInv'
    BY <1>2 DEF Grant, TaskInv, HubTypeOK
  <1>3. ASSUME NEW s \in Sessions, NEW c \in Channels, Revoke(s, c)
        PROVE  TaskInv'
    BY <1>1, <1>3 DEF Revoke, HubTypeOK
  <1>4. ASSUME NEW s \in Sessions, ClientStep(s)
        PROVE  TaskInv'
    BY <1>1, <1>4
       DEF ClientStep, Identify, Expire, HangUp, Authorize, Reauthenticate, WriteOut
  <1>5. ASSUME NEW s \in Sessions, SessionStep(s)
        PROVE  TaskInv'
    <2>1. CASE Disconnect(s)
      BY <1>1, <2>1 DEF Disconnect, HubTypeOK
    <2>2. CASE ~Disconnect(s)
      BY <1>1, <1>5, <2>2
         DEF SessionStep, Subscribe, Unsubscribe, ReconcileCheck, ReconcileEnd
    <2> QED
      BY <2>1, <2>2
  <1>6. ASSUME NEW f \in Frames, NEW c \in Channels, Publish(f, c)
        PROVE  TaskInv'
    BY <1>6 DEF Publish, TaskInv, HubTypeOK
  <1>7. ASSUME NEW f \in Frames, NEW s \in Sessions, CheckAccess(f, s)
        PROVE  TaskInv'
    BY <1>7 DEF CheckAccess, TaskInv, HubTypeOK
  <1>8. ASSUME NEW f \in Frames, TrySend(f)
        PROVE  TaskInv'
    <2>1. step[f] = "sending"
      BY <1>8 DEF TrySend, TaskInv, HubTypeOK
    <2>2. \A g \in Frames \ {f} : cleared'[g] = cleared[g] /\ reached'[g] = reached[g]
      BY <1>8 DEF TrySend, HubTypeOK
    <2> QED
      BY <1>8, <2>1, <2>2 DEF TrySend, TaskInv
  <1>9. ASSUME NEW f \in Frames, Cleanup(f)
        PROVE  TaskInv'
    BY <1>9 DEF Cleanup, TaskInv, HubTypeOK
  <1> QED
    BY <1>2, <1>3, <1>4, <1>5, <1>6, <1>7, <1>8, <1>9 DEF HubNext, PublishStep

-----------------------------------------------------------------------------
(* What the history of a publish says of its sessions.                     *)

LEMMA BarredKept ==
    ASSUME HubTypeOK, TaskInv, BarredInv, HubNext
    PROVE  BarredInv'
  <1> USE DEF publisher, delivery
  <1>1. ASSUME UNCHANGED <<access, target, cleared, reached, barred>>
        PROVE  BarredInv'
    BY <1>1 DEF BarredInv, Allowed
  <1>2. ASSUME NEW s \in Sessions, NEW c \in Channels, Grant(s, c)
        PROVE  BarredInv'
    BY <1>2 DEF Grant, BarredInv, Allowed, HubTypeOK
  <1>3. ASSUME NEW s \in Sessions, NEW c \in Channels, Revoke(s, c)
        PROVE  BarredInv'
    BY <1>3 DEF Revoke, BarredInv, Allowed
  <1>4. ASSUME NEW s \in Sessions, ClientStep(s)
        PROVE  BarredInv'
    BY <1>1, <1>4
       DEF ClientStep, Identify, Expire, HangUp, Authorize, Reauthenticate, WriteOut
  <1>5. ASSUME NEW s \in Sessions, SessionStep(s)
        PROVE  BarredInv'
    BY <1>1, <1>5
       DEF SessionStep, Subscribe, Unsubscribe, ReconcileCheck, ReconcileEnd, Disconnect
  <1>6. ASSUME NEW f \in Frames, NEW c \in Channels, Publish(f, c)
        PROVE  BarredInv'
    <2>1. cleared[f] = Nobody /\ reached[f] = {}
      BY <1>6 DEF Publish, TaskInv
    <2>2. /\ target'[f] = c
          /\ barred'[f] = {s \in Sessions : ~Allowed(s, c)}
          /\ \A g \in Frames \ {f} : target'[g] = target[g] /\ barred'[g] = barred[g]
      BY <1>6 DEF Publish, HubTypeOK
    <2> QED
      BY <1>6, <2>1, <2>2, HubAssumption DEF Publish, BarredInv, Allowed
  <1>7. ASSUME NEW f \in Frames, NEW s \in Sessions, CheckAccess(f, s)
        PROVE  BarredInv'
    BY <1>7 DEF CheckAccess, BarredInv, Allowed, HubTypeOK
  <1>8. ASSUME NEW f \in Frames, TrySend(f)
        PROVE  BarredInv'
    <2>1. /\ reached'[f] \subseteq reached[f] \cup {cleared[f]}
          /\ cleared'[f] = Nobody
          /\ \A g \in Frames \ {f} : cleared'[g] = cleared[g] /\ reached'[g] = reached[g]
      BY <1>8 DEF TrySend, HubTypeOK
    <2> QED
      BY <1>8, <2>1, HubAssumption DEF TrySend, BarredInv, Allowed
  <1>9. ASSUME NEW f \in Frames, Cleanup(f)
        PROVE  BarredInv'
    BY <1>1, <1>9 DEF Cleanup
  <1> QED
    BY <1>2, <1>3, <1>4, <1>5, <1>6, <1>7, <1>8, <1>9 DEF HubNext, PublishStep

LEMMA SteadyKept ==
    ASSUME HubInv, HubNext
    PROVE  SteadyInv'
  <1> USE DEF session, publisher, delivery
  <1>1. ASSUME UNCHANGED <<access, target, waiting, cleared, steady, reached, dropped>>,
               \A s \in Sessions : mode[s] # "closed" => mode'[s] # "closed"
        PROVE  SteadyInv'
    BY <1>1 DEF SteadyInv, Allowed, HubInv
  <1>2. ASSUME NEW s \in Sessions, NEW c \in Channels, Grant(s, c)
        PROVE  SteadyInv'
    BY <1>2 DEF Grant, SteadyInv, Allowed, HubInv
  <1>3. ASSUME NEW s \in Sessions, NEW c \in Channels, Revoke(s, c)
        PROVE  SteadyInv'
    BY <1>3 DEF Revoke, SteadyInv, Allowed, HubInv, HubTypeOK
  <1>4. ASSUME NEW s \in Sessions, ClientStep(s)
        PROVE  SteadyInv'
    <2>1. \A x \in Sessions : mode[x] # "closed" => mode'[x] # "closed"
      BY <1>4 DEF ClientStep, Identify, Expire, HangUp, Authorize, Reauthenticate,
                  WriteOut, Close, HubInv, HubTypeOK
    <2> QED
      BY <1>1, <1>4, <2>1
         DEF ClientStep, Identify, Expire, HangUp, Authorize, Reauthenticate, WriteOut
  <1>5. ASSUME NEW s \in Sessions, SessionStep(s)
        PROVE  SteadyInv'
    <2>1. CASE Disconnect(s)
      <3>1. /\ \A f \in Frames : steady'[f] = steady[f] \ {s}
            /\ \A x \in Sessions \ {s} : mode'[x] = mode[x]
        BY <2>1 DEF Disconnect, HubInv, HubTypeOK
      <3> QED
        BY <2>1, <3>1 DEF Disconnect, SteadyInv, Allowed, HubInv
    <2>2. CASE ~Disconnect(s)
      <3>1. \A x \in Sessions : mode[x] # "closed" => mode'[x] # "closed"
        BY <1>5, <2>2 DEF SessionStep, Subscribe, Unsubscribe, ReconcileCheck,
                          ReconcileEnd, HubInv, HubTypeOK
      <3> QED
        BY <1>1, <1>5, <2>2, <3>1
           DEF SessionStep, Subscribe, Unsubscribe, ReconcileCheck, ReconcileEnd
    <2> QED
      BY <2>1, <2>2
  <1>6. ASSUME NEW f \in Frames, NEW c \in Channels, Publish(f, c)
        PROVE  SteadyInv'
    <2>1. /\ target'[f] = c
          /\ steady'[f] = {s \in subscribers[c] : Allowed(s, c)}
          /\ waiting'[f] = subscribers[c]
          /\ \A g \in Frames \ {f} : /\ target'[g] = target[g]
                                     /\ steady'[g] = steady[g]
                                     /\ waiting'[g] = waiting[g]
      BY <1>6 DEF Publish, HubInv, HubTypeOK
    <2>2. \A s \in Sessions : s \in subscribers[c] => mode[s] # "closed"
      BY DEF HubInv, MapsAgree, LeavingInv
    <2> QED
      BY <1>6, <2>1, <2>2 DEF Publish, SteadyInv, Allowed, HubInv
  <1>7. ASSUME NEW f \in Frames, NEW s \in Sessions, CheckAccess(f, s)
        PROVE  SteadyInv'
    <2>1. /\ waiting'[f] = waiting[f] \ {s}
          /\ cleared[f] = Nobody
          /\ Allowed(s, target[f]) => cleared'[f] = s
          /\ \A g \in Frames \ {f} : waiting'[g] = waiting[g] /\ cleared'[g] = cleared[g]
      BY <1>7 DEF CheckAccess, HubInv, HubTypeOK
    <2> QED
      BY <1>7, <2>1, HubAssumption DEF CheckAccess, SteadyInv, Allowed, HubInv
  <1>8. ASSUME NEW f \in Frames, TrySend(f)
        PROVE  SteadyInv'
    <2>1. /\ mode[cleared[f]] = "closed" \/ cleared[f] \in reached'[f] \cup dropped'[f]
          /\ reached[f] \subseteq reached'[f]
          /\ dropped[f] \subseteq dropped'[f]
          /\ \A g \in Frames \ {f} : /\ cleared'[g] = cleared[g]
                                     /\ reached'[g] = reached[g]
                                     /\ dropped'[g] = dropped[g]
      BY <1>8 DEF TrySend, HubInv, HubTypeOK
    <2> QED
      BY <1>8, <2>1 DEF TrySend, SteadyInv, Allowed, HubInv
  <1>9. ASSUME NEW f \in Frames, Cleanup(f)
        PROVE  SteadyInv'
    BY <1>1, <1>9 DEF Cleanup
  <1> QED
    BY <1>2, <1>3, <1>4, <1>5, <1>6, <1>7, <1>8, <1>9 DEF HubNext, PublishStep

-----------------------------------------------------------------------------
(* The theorems.                                                           *)

LEMMA HubInvKept ==
    ASSUME HubInv, [HubNext]_hubVars
    PROVE  HubInv'
  <1>1. CASE UNCHANGED hubVars
    BY <1>1 DEF hubVars, maps, session, publisher, delivery, HubInv, HubTypeOK,
                MapsAgree, LeavingInv, TaskInv, BarredInv, SteadyInv, Allowed
  <1>2. CASE HubNext
    <2>1. HubTypeOK' /\ MapsAgree' /\ LeavingInv'
      BY <1>2, HubTypeKept, MapsKept, LeavingKept DEF HubInv
    <2>2. TaskInv' /\ BarredInv' /\ SteadyInv'
      BY <1>2, TaskKept, BarredKept, SteadyKept DEF HubInv
    <2> QED
      BY <2>1, <2>2 DEF HubInv
  <1> QED
    BY <1>1, <1>2

LEMMA HubInvHolds == HubSpec => []HubInv
  BY InitHubInv, HubInvKept, PTL DEF HubSpec

(* Every variable keeps its type, and no outbound queue ever holds more     *)
(* than MESSAGE_REALTIME_OUTBOUND_CAPACITY frames, in every behaviour of    *)
(* any number of sessions, channels and publish tasks.                      *)
THEOREM HubTypeCorrect == HubSpec => []HubTypeOK
  <1>1. HubInv => HubTypeOK
    BY DEF HubInv
  <1> QED
    BY <1>1, HubInvHolds, PTL

(* subscribe, unsubscribe, disconnect, the revocations of a                 *)
(* reauthentication and the cleanup of a publish leave the hub's two maps   *)
(* in agreement, and a session whose loop was left is in neither.           *)
THEOREM ClosedForgotten == HubSpec => []ClosedIsForgotten
  <1>1. HubInv => ClosedIsForgotten
    BY DEF HubInv, MapsAgree, LeavingInv, ClosedIsForgotten
  <1> QED
    BY <1>1, HubInvHolds, PTL

(* The publish task asks the authorizer about each subscriber after the     *)
(* publish began, so one that is refused throughout is never sent to.       *)
THEOREM NothingToRevoked == HubSpec => []RevokedReceivesNothing
  <1>1. HubInv => RevokedReceivesNothing
    BY DEF HubInv, HubTypeOK, BarredInv, RevokedReceivesNothing
  <1> QED
    BY <1>1, HubInvHolds, PTL

(* The publish task skips nobody: a session subscribed when it began, and   *)
(* allowed and open ever since, has the frame queued when the task ends,    *)
(* unless its queue was full.                                               *)
THEOREM FanoutCompletes == HubSpec => []FanoutIsComplete
  <1>1. HubInv => FanoutIsComplete
    <2> SUFFICES ASSUME HubInv,
                        NEW f \in Frames, step[f] = "done",
                        NEW s \in steady[f]
                 PROVE  s \in reached[f] \cup dropped[f]
      BY DEF FanoutIsComplete
    <2>1. s \in Sessions
      BY DEF HubInv, HubTypeOK
    <2>2. s \in waiting[f] \cup {cleared[f]} \cup reached[f] \cup dropped[f]
      BY <2>1 DEF HubInv, SteadyInv
    <2>3. waiting[f] = {} /\ cleared[f] = Nobody
      BY DEF HubInv, TaskInv
    <2> QED
      BY <2>1, <2>2, <2>3, HubAssumption
  <1> QED
    BY <1>1, HubInvHolds, PTL

=============================================================================
