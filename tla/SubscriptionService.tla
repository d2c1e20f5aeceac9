------------------------ MODULE SubscriptionService ------------------------
(***************************************************************************)
(* The SubscriptionService of src/subscriptions/subscriptionService.ts:    *)
(* a WebSocketManager whose connection changes drive a                     *)
(* ReconnectionManager.  When a connection is lost both schedule a         *)
(* reconnection, with the same delays.  A WebSocketManager may instead     *)
(* belong to a StellarClient, which leaves it to the application.          *)
(*                                                                         *)
(* The service never subscribes at the WebSocketManager, which sends       *)
(* nothing then: its `subscriptions' stay empty.  The service's own        *)
(* subscribe() throws before it changes anything: EventDispatcher takes    *)
(* the id from generateId(), which names an undefined variable.            *)
(***************************************************************************)
EXTENDS WebSocketManager

CONSTANT MaxAttempts    \* maxAttempts of the ReconnectionManager

ASSUME AttemptsAssumption == MaxAttempts \in Nat

VARIABLES
  reconnection, \* this.reconnection
  inService     \* the manager belongs to a SubscriptionService, not to a StellarClient

vars == <<wsVars, reconnection, inService>>
service == <<reconnection, inService>>

Manager == INSTANCE ReconnectionManager

Init ==
  /\ WebSocketInit
  /\ reconnection = Manager!NewManager
  /\ inService \in BOOLEAN

\* start()
Start == ApplicationConnects /\ UNCHANGED service

\* A socket opens: onConnectionChange(true).
Open(s) ==
  /\ OnOpen(s)
  /\ reconnection' = Manager!MarkConnected(reconnection)
  /\ UNCHANGED <<starts, inService>>

\* A connection fails or is lost: onConnectionChange(false).
Close(s) ==
  /\ OnClose(s)
  /\ reconnection' = Manager!ScheduleReconnect(Manager!MarkDisconnected(reconnection))
  /\ UNCHANGED <<starts, inService>>

\* The timer of the ReconnectionManager fires.  connect() does not reject, and
\* does not wait for the connection.
ManagerTimerFires ==
  /\ reconnection.timer = 0
  /\ reconnection' = Manager!TimerFired(reconnection)
  /\ Connect
  /\ UNCHANGED <<isDestroyed, reconnectAttempts, reconnectTimer, orphans,
                 heartbeat, subscriptions, starts, inService>>

\* A timer of the WebSocketManager fires.
SocketTimerFires == ReconnectTimerFires /\ UNCHANGED <<starts, service>>

\* stop()
Stop ==
  /\ ~isDestroyed
  /\ Disconnect
  /\ reconnection' = Manager!Reset(reconnection)
  /\ UNCHANGED <<starts, inService>>

Tick ==
  /\ reconnection.timer # 0
  /\ WebSocketTick
  /\ reconnection' = Manager!TimePasses(reconnection)
  /\ UNCHANGED <<starts, inService>>

ServiceNext ==
  \/ Start \/ Stop \/ ManagerTimerFires \/ SocketTimerFires \/ Tick
  \/ \E s \in Sockets : Open(s) \/ Close(s)

Next == IF inService THEN ServiceNext ELSE WebSocketNext /\ UNCHANGED service

Spec == Init /\ [][Next]_vars

\* Timers fire, time passes, and a connection attempt succeeds or fails.
Fairness ==
  /\ WF_vars(inService /\ (ManagerTimerFires \/ SocketTimerFires))
  /\ WF_vars(inService /\ Tick)
  /\ \A s \in Sockets :
       WF_vars(inService /\ sockets[s] \in {"connecting", "closing"} /\ (Open(s) \/ Close(s)))

FairSpec == Spec /\ Fairness

-----------------------------------------------------------------------------
(* Every variable has its type, and neither manager tries more often than
   configured. *)
TypeOK ==
  /\ WebSocketTypeOK
  /\ reconnection \in Manager!ManagerType
  /\ inService \in BOOLEAN

(* An application that calls start() once never has two connections, although
   two managers reconnect. *)
SingleConnection == starts <= 1 => Cardinality(Live) <= 1

(* Listeners of the connection state have been told "connected" exactly while
   the service is connected. *)
StateTellsTruth ==
  inService /\ starts <= 1 => (reconnection.state = "connected" <=> IsOpen(ws))

(* A connection that is lost comes back, unless the service is stopped or the
   ReconnectionManager has used up its attempts. *)
Reconnects ==
  (inService /\ starts > 0 /\ Live = {} /\ ~isDestroyed)
    ~> (IsOpen(ws) \/ isDestroyed \/ reconnection.attempts = MaxAttempts)
=============================================================================
