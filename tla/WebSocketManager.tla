-------------------------- MODULE WebSocketManager --------------------------
(***************************************************************************)
(* The WebSocketManager of src/client/websocket/websocketManager.ts: one   *)
(* current socket, reconnection with exponential backoff, and the          *)
(* subscriptions that are sent again on every new connection.              *)
(*                                                                         *)
(* WebSocketNext is the manager as StellarClient exposes it, to an         *)
(* application that connects, subscribes and cleans up as it likes; module *)
(* SubscriptionService composes it with a second manager.                  *)
(*                                                                         *)
(* Time is in units of reconnectDelay.  A timer fires when it is due, and  *)
(* a connection takes time: nothing is heard of a new socket before the    *)
(* timers due with it have fired.  new WebSocket() throws only for a URL   *)
(* it does not accept, hence on the first connect(), and then there is no  *)
(* state to speak of: here it does not throw.                              *)
(***************************************************************************)
EXTENDS Integers, FiniteSets

CONSTANTS Sockets,       \* identities of sockets; a closed one may be used again, and
                         \* connect() is not explored while none is closed
          Subs,          \* identities of subscriptions
          MaxReconnects, \* config.reconnectAttempts
          MaxDelay,      \* maxReconnectDelay
          MaxStarts      \* bound on the calls of connect() by the application

ASSUME DelayAssumption == MaxReconnects \in Nat /\ MaxDelay \in Nat \ {0} /\ MaxStarts \in Nat

VARIABLES
  sockets,           \* readyState of each socket; "new" until time has passed
  ws,                \* this.ws, or NoSocket
  isConnecting,      \* this.isConnecting
  isDestroyed,       \* this.isDestroyed
  reconnectAttempts, \* this.reconnectAttempts
  reconnectTimer,    \* time until the timer in this.reconnectTimer is due, or Off
  orphans,           \* how many overwritten reconnect timers are due in each time
  heartbeat,         \* this.heartbeatTimer is set
  subscriptions,     \* this.subscriptions
  server,            \* the subscriptions the server knows for each socket
  starts             \* calls of connect() by the application

wsVars == <<sockets, ws, isConnecting, isDestroyed, reconnectAttempts,
            reconnectTimer, orphans, heartbeat, subscriptions, server, starts>>

NoSocket == "none"
ASSUME SocketsAssumption == NoSocket \notin Sockets

Off == -1
Delay(n) == IF 2 ^ n < MaxDelay THEN 2 ^ n ELSE MaxDelay

Live == {s \in Sockets : sockets[s] \in {"new", "connecting", "open"}}
IsOpen(s) == s \in Sockets /\ sockets[s] = "open"

WebSocketInit ==
  /\ sockets = [s \in Sockets |-> "closed"]
  /\ ws = NoSocket
  /\ isConnecting = FALSE /\ isDestroyed = FALSE
  /\ reconnectAttempts = 0 /\ reconnectTimer = Off
  /\ orphans = [t \in 0..MaxDelay |-> 0]
  /\ heartbeat = FALSE
  /\ subscriptions = {}
  /\ server = [s \in Sockets |-> {}]
  /\ starts = 0

-----------------------------------------------------------------------------
\* Mutant: a connection in progress does not keep connect() from opening another.
ConnectAgain ==
  IF isDestroyed
    THEN UNCHANGED <<sockets, ws, isConnecting, server>>
    ELSE \E s \in Sockets :
           /\ sockets[s] = "closed"
           /\ sockets' = [sockets EXCEPT ![s] = "new"]
           /\ ws' = s
           /\ isConnecting' = TRUE
           /\ server' = [server EXCEPT ![s] = {}]

\* connect(): a new socket takes the place of the current one, whatever its state.
Connect ==
  IF isConnecting \/ isDestroyed
    THEN UNCHANGED <<sockets, ws, isConnecting, server>>
    ELSE \E s \in Sockets :
           /\ sockets[s] = "closed"
           /\ sockets' = [sockets EXCEPT ![s] = "new"]
           /\ ws' = s
           /\ isConnecting' = TRUE
           /\ server' = [server EXCEPT ![s] = {}]

\* Mutant: nothing is sent when a socket opens.
ResubscribeNone(s) == UNCHANGED server

\* resubscribeAll() sends on the current socket, which may be another than the
\* one that opened; send() throws or does nothing unless it is open, and there is
\* nothing left to do in onopen.
Resubscribe(s) ==
  server' = IF ws = s \/ IsOpen(ws)
              THEN [server EXCEPT ![ws] = @ \cup subscriptions] ELSE server

\* ws.onopen
OnOpen(s) ==
  /\ sockets[s] = "connecting"
  /\ sockets' = [sockets EXCEPT ![s] = "open"]
  /\ isConnecting' = FALSE
  /\ reconnectAttempts' = 0
  /\ heartbeat' = TRUE
  /\ Resubscribe(s)
  /\ UNCHANGED <<ws, isDestroyed, reconnectTimer, orphans, subscriptions>>

\* Mutant: the number of attempts is not looked at.
HandleReconnectForever ==
  IF isDestroyed
    THEN UNCHANGED <<reconnectTimer, orphans>>
    ELSE /\ reconnectTimer' = Delay(reconnectAttempts)
         /\ orphans' = IF reconnectTimer = Off THEN orphans
                       ELSE [orphans EXCEPT ![reconnectTimer] = @ + 1]

\* handleReconnect(): a timer that is pending is overwritten, not cleared.
HandleReconnect ==
  IF isDestroyed \/ reconnectAttempts >= MaxReconnects
    THEN UNCHANGED <<reconnectTimer, orphans>>
    ELSE /\ reconnectTimer' = Delay(reconnectAttempts)
         /\ orphans' = IF reconnectTimer = Off THEN orphans
                       ELSE [orphans EXCEPT ![reconnectTimer] = @ + 1]

\* Mutant: isConnecting is reset by onerror only.
OnCloseKeepsConnecting(s) ==
  /\ sockets[s] \in {"connecting", "open", "closing"}
  /\ sockets' = [sockets EXCEPT ![s] = "closed"]
  /\ heartbeat' = FALSE
  /\ HandleReconnect
  /\ UNCHANGED <<ws, isConnecting, isDestroyed, reconnectAttempts, subscriptions, server>>

\* A connection fails or is lost: readyState, ws.onerror and ws.onclose, in one
\* step, of any socket that was ever opened.
OnClose(s) ==
  /\ sockets[s] \in {"connecting", "open", "closing"}
  /\ sockets' = [sockets EXCEPT ![s] = "closed"]
  /\ isConnecting' = FALSE
  /\ heartbeat' = FALSE
  /\ HandleReconnect
  /\ UNCHANGED <<ws, isDestroyed, reconnectAttempts, subscriptions, server>>

\* The callback of a reconnect timer, the current one or an overwritten one.
ReconnectTimerFires ==
  /\ \/ reconnectTimer = 0 /\ reconnectTimer' = Off /\ UNCHANGED orphans
     \/ orphans[0] > 0 /\ orphans' = [orphans EXCEPT ![0] = @ - 1] /\ UNCHANGED reconnectTimer
  /\ reconnectAttempts' = reconnectAttempts + 1
  /\ Connect
  /\ UNCHANGED <<isDestroyed, heartbeat, subscriptions>>

\* disconnect(): only the current socket is closed, only the current timer cleared.
Disconnect ==
  /\ isDestroyed' = TRUE
  /\ heartbeat' = FALSE
  /\ reconnectTimer' = Off
  /\ sockets' = [s \in Sockets |-> IF s = ws /\ s \in Live THEN "closing" ELSE sockets[s]]
  /\ ws' = NoSocket
  /\ UNCHANGED <<isConnecting, reconnectAttempts, orphans, subscriptions, server>>

\* subscribe() and unsubscribe()
Subscribe(x) ==
  /\ x \notin subscriptions
  /\ subscriptions' = subscriptions \cup {x}
  /\ server' = IF IsOpen(ws) THEN [server EXCEPT ![ws] = @ \cup {x}] ELSE server
  /\ UNCHANGED <<sockets, ws, isConnecting, isDestroyed, reconnectAttempts,
                 reconnectTimer, orphans, heartbeat>>
Unsubscribe(x) ==
  /\ x \in subscriptions
  /\ subscriptions' = subscriptions \ {x}
  /\ server' = IF IsOpen(ws) THEN [server EXCEPT ![ws] = @ \ {x}] ELSE server
  /\ UNCHANGED <<sockets, ws, isConnecting, isDestroyed, reconnectAttempts,
                 reconnectTimer, orphans, heartbeat>>

\* Time passes for the sockets and the timers.
Earlier(t) == IF t = Off THEN Off ELSE t - 1
WebSocketTick ==
  /\ reconnectTimer # 0 /\ orphans[0] = 0
  /\ reconnectTimer' = Earlier(reconnectTimer)
  /\ orphans' = [t \in 0..MaxDelay |-> IF t < MaxDelay THEN orphans[t + 1] ELSE 0]
  /\ sockets' = [s \in Sockets |-> IF sockets[s] = "new" THEN "connecting" ELSE sockets[s]]
  /\ UNCHANGED <<ws, isConnecting, isDestroyed, reconnectAttempts, heartbeat,
                 subscriptions, server>>

\* The application: connect(), and StellarClient.cleanup().
ApplicationConnects ==
  /\ starts < MaxStarts
  /\ starts' = starts + 1
  /\ Connect
  /\ UNCHANGED <<isDestroyed, reconnectAttempts, reconnectTimer, orphans,
                 heartbeat, subscriptions>>
Cleanup == Disconnect /\ UNCHANGED starts

WebSocketNext ==
  \/ ApplicationConnects \/ Cleanup
  \/ (ReconnectTimerFires \/ WebSocketTick) /\ UNCHANGED starts
  \/ \E s \in Sockets : (OnOpen(s) \/ OnClose(s)) /\ UNCHANGED starts
  \/ \E x \in Subs : (Subscribe(x) \/ Unsubscribe(x)) /\ UNCHANGED starts

-----------------------------------------------------------------------------
(* Every variable has its type, and a manager connected once by the application
   stays within its reconnection attempts. *)
WebSocketTypeOK ==
  /\ sockets \in [Sockets -> {"closed", "new", "connecting", "open", "closing"}]
  /\ ws \in Sockets \cup {NoSocket}
  /\ {isConnecting, isDestroyed, heartbeat} \subseteq BOOLEAN
  /\ reconnectAttempts \in Nat
  /\ reconnectTimer \in {Off} \cup 0..MaxDelay
  /\ orphans \in [0..MaxDelay -> Nat]
  /\ subscriptions \subseteq Subs
  /\ server \in [Sockets -> SUBSET Subs]
  /\ starts \in 0..MaxStarts
  /\ starts <= 1 => reconnectAttempts <= MaxReconnects

(* The server knows the subscriptions of the current connection: those made
   before it opened, while it was down and since, and none that was removed,
   whatever became of the connections before it. *)
ServerHasSubscriptions == IsOpen(ws) => server[ws] = subscriptions
=============================================================================
