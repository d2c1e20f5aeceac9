------------------------ MODULE ReconnectionManager ------------------------
(***************************************************************************)
(* The ReconnectionManager of src/network/reconnectionManager.ts: the      *)
(* connection state told to listeners, and a second backoff timer.  Each   *)
(* definition is a method, on the record r of the manager's state.         *)
(***************************************************************************)
EXTENDS Integers

CONSTANTS MaxAttempts, \* config.maxAttempts
          MaxDelay     \* config.maxDelay, in units of baseDelay

NoTimer == -1
States == {"connected", "disconnected", "reconnecting"}

\* state, attempts, and the time until timer is due.
ManagerType == [state : States, attempts : 0..MaxAttempts,
                timer : {NoTimer} \cup 0..MaxDelay]

NewManager == [state |-> "disconnected", attempts |-> 0, timer |-> NoTimer]

BackoffDelay(n) == IF 2 ^ n < MaxDelay THEN 2 ^ n ELSE MaxDelay

MarkConnected(r) == [state |-> "connected", attempts |-> 0, timer |-> NoTimer]

MarkDisconnected(r) == [r EXCEPT !.state = "disconnected", !.timer = NoTimer]

ScheduleReconnect(r) ==
  IF r.attempts >= MaxAttempts THEN [r EXCEPT !.state = "disconnected"]
  ELSE [r EXCEPT !.state = "reconnecting", !.timer = BackoffDelay(r.attempts)]

\* The timer's callback, up to the call of connectFn().
TimerFired(r) == [r EXCEPT !.attempts = @ + 1, !.timer = NoTimer]

\* Mutant: reset() does not tell the listeners.
ResetSilently(r) == [r EXCEPT !.attempts = 0, !.timer = NoTimer]
Reset(r) == NewManager

TimePasses(r) == [r EXCEPT !.timer = IF @ = NoTimer THEN NoTimer ELSE @ - 1]
=============================================================================
