-------------------------- MODULE ConcurrencyQueue --------------------------
(***************************************************************************)
(* The request queue of src/utils/concurrencyQueue.ts: a FIFO of requests, *)
(* a counter of running requests bounded by maxConcurrentRequests, a queue *)
(* timeout per request and an optional throttle of throttleRate starts per *)
(* throttleInterval.                                                       *)
(*                                                                         *)
(* JavaScript runs a callback to its end, so an action is one callback or  *)
(* one call of the public interface with everything it calls: execute(),   *)
(* the continuation of executeRequest(), a timer that fires, clearQueue(), *)
(* updateConfig(), getQueueStatus().  Time is counted in ticks of the      *)
(* throttle clock; a timer may fire late but never early.                  *)
(***************************************************************************)
EXTENDS Integers, Sequences, FiniteSets, Functions

CONSTANTS Requests,   \* one per call of execute(); each is submitted at most once
          Configs,    \* the configurations updateConfig() may install
          InitConfig, \* the configuration given to the constructor
          Interval    \* throttleInterval, in ticks

ConfigType == [max : Nat \ {0}, throttle : BOOLEAN, rate : Nat \ {0},
               timeout : BOOLEAN]

ASSUME RequestsAssumption == IsFiniteSet(Requests)
ASSUME ConfigAssumption == Configs \subseteq ConfigType /\ InitConfig \in Configs
ASSUME IntervalAssumption == Interval \in Nat \ {0}

VARIABLES
  config,         \* this.config
  queue,          \* this.queue, requests in order of arrival
  activeRequests, \* this.activeRequests
  inInterval,     \* this.requestsInCurrentInterval
  age,            \* min(Interval, Date.now() - this.lastThrottleReset)
  throttleTimer,  \* ticks until this.throttleTimer is due, or NoTimer
  timeouts,       \* requests whose queue timeout (timeoutId) is armed
  running,        \* requests whose execute() promise is in flight
  outcome         \* state of the promise execute() returned for each request

vars == <<config, queue, activeRequests, inInterval, age, throttleTimer,
          timeouts, running, outcome>>

NoTimer == -1
Outcomes == {"unsubmitted", "pending", "resolved", "failed", "timedOut", "cleared"}
Settled(r) == outcome[r] \notin {"unsubmitted", "pending"}

\* resolve() and reject() have no effect on a promise that is settled.
Settle(rs, o) ==
  [r \in Requests |-> IF r \in rs /\ outcome[r] = "pending" THEN o ELSE outcome[r]]

-----------------------------------------------------------------------------
(* isThrottled(): starting a new interval is a side effect of the test. *)

IntervalOver == age >= Interval

IsThrottled == ~IntervalOver /\ inInterval >= config.rate

StartInterval == config.throttle /\ IntervalOver

(* processQueue(): the throttle is tested once, before the loop that starts
   as many queued requests as there are free slots.  q and n are the queue
   and the active count when it is called, r the requests running then, t
   the throttle timer and armed the queue timeouts. *)

StartCount(q, n) ==
  LET free == IF n < config.max THEN config.max - n ELSE 0
  IN  IF free < Len(q) THEN free ELSE Len(q)

ProcessQueue(q, n, r, t, armed) ==
  \/ /\ config.throttle /\ IsThrottled
     /\ throttleTimer' = Interval - age          \* scheduleNextProcess()
     /\ queue' = q
     /\ activeRequests' = n
     /\ running' = r
     /\ timeouts' = armed
     /\ UNCHANGED <<inInterval, age>>
  \/ /\ ~(config.throttle /\ IsThrottled)
     /\ LET k == StartCount(q, n)
            started == {q[i] : i \in 1..k}
        IN  /\ queue' = SubSeq(q, k + 1, Len(q))
            /\ activeRequests' = n + k
            /\ running' = r \cup started
            /\ timeouts' = armed \ started
            /\ inInterval' = (IF StartInterval THEN 0 ELSE inInterval) + k
     /\ age' = IF StartInterval THEN 0 ELSE age
     /\ throttleTimer' = t

-----------------------------------------------------------------------------
Init ==
  /\ config = InitConfig
  /\ queue = <<>>
  /\ activeRequests = 0
  /\ inInterval = 0
  /\ age = 0
  /\ throttleTimer = NoTimer
  /\ timeouts = {}
  /\ running = {}
  /\ outcome = [r \in Requests |-> "unsubmitted"]

\* Mutant: unshift() for push().
ExecuteInFront(r) ==
  /\ outcome[r] = "unsubmitted"
  /\ outcome' = [outcome EXCEPT ![r] = "pending"]
  /\ ProcessQueue(<<r>> \o queue, activeRequests, running, throttleTimer,
                  IF config.timeout THEN timeouts \cup {r} ELSE timeouts)
  /\ UNCHANGED config

\* execute(requestFn)
Execute(r) ==
  /\ outcome[r] = "unsubmitted"
  /\ outcome' = [outcome EXCEPT ![r] = "pending"]
  /\ ProcessQueue(Append(queue, r), activeRequests, running, throttleTimer,
                  IF config.timeout THEN timeouts \cup {r} ELSE timeouts)
  /\ UNCHANGED config

\* Mutants: a failure decrements twice (catch and finally), not at all, or does
\* not call processQueue().
CompleteDecrementsTwice(r) ==
  /\ r \in running
  /\ \E o \in {"resolved", "failed"} :
       /\ outcome' = Settle({r}, o)
       /\ ProcessQueue(queue, activeRequests - (IF o = "failed" THEN 2 ELSE 1),
                       running \ {r}, throttleTimer, timeouts)
  /\ UNCHANGED config

CompleteLeaksSlot(r) ==
  /\ r \in running
  /\ \E o \in {"resolved", "failed"} :
       /\ outcome' = Settle({r}, o)
       /\ ProcessQueue(queue, activeRequests - (IF o = "failed" THEN 0 ELSE 1),
                       running \ {r}, throttleTimer, timeouts)
  /\ UNCHANGED config

CompleteForgetsQueue(r) ==
  /\ r \in running
  /\ outcome' = Settle({r}, "failed")
  /\ activeRequests' = activeRequests - 1
  /\ running' = running \ {r}
  /\ UNCHANGED <<config, queue, inInterval, age, throttleTimer, timeouts>>

\* The promise of a started request is settled: the rest of executeRequest().
Complete(r) ==
  /\ r \in running
  /\ \E o \in {"resolved", "failed"} : outcome' = Settle({r}, o)
  /\ ProcessQueue(queue, activeRequests - 1, running \ {r}, throttleTimer, timeouts)
  /\ UNCHANGED config

\* removeFromQueue(): splice out the first entry with the request's id.
RemoveFromQueue(q, r) ==
  LET i == CHOOSE i \in DOMAIN q : q[i] = r
  IN  IF r \in Range(q)
      THEN [j \in 1..(Len(q) - 1) |-> q[IF j < i THEN j ELSE j + 1]]
      ELSE q

\* The callback of a request's queue timeout: removeFromQueue() and reject().
QueueTimeout(r) ==
  /\ r \in timeouts
  /\ queue' = RemoveFromQueue(queue, r)
  /\ timeouts' = timeouts \ {r}
  /\ outcome' = Settle({r}, "timedOut")
  /\ UNCHANGED <<config, activeRequests, inInterval, age, throttleTimer, running>>

\* Mutant: the callback clears throttleTimer and does not call processQueue().
ThrottleTimerForgetsQueue ==
  /\ throttleTimer = 0
  /\ throttleTimer' = NoTimer
  /\ UNCHANGED <<config, queue, activeRequests, inInterval, age, timeouts, running, outcome>>

\* The callback scheduleNextProcess() installed.
ThrottleTimerFires ==
  /\ throttleTimer = 0
  /\ ProcessQueue(queue, activeRequests, running, NoTimer, timeouts)
  /\ UNCHANGED <<config, outcome>>

\* Mutants: clearQueue() without `this.queue = []', and one that also rejects
\* what is running.
ClearQueueKeepsQueue ==
  /\ timeouts' = timeouts \ Range(queue)
  /\ throttleTimer' = NoTimer
  /\ outcome' = Settle(Range(queue), "cleared")
  /\ UNCHANGED <<config, queue, activeRequests, inInterval, age, running>>

ClearQueueRejectsRunning ==
  /\ queue' = <<>>
  /\ timeouts' = timeouts \ Range(queue)
  /\ throttleTimer' = NoTimer
  /\ outcome' = Settle(Range(queue) \cup running, "cleared")
  /\ UNCHANGED <<config, activeRequests, inInterval, age, running>>

\* clearQueue(), which destroy() calls: what runs keeps running.
ClearQueue ==
  /\ queue' = <<>>
  /\ timeouts' = timeouts \ Range(queue)
  /\ throttleTimer' = NoTimer
  /\ outcome' = Settle(Range(queue), "cleared")
  /\ UNCHANGED <<config, activeRequests, inInterval, age, running>>

\* updateConfig(): no queue processing follows.
UpdateConfig(c) ==
  /\ config' = c
  /\ UNCHANGED <<queue, activeRequests, inInterval, age, throttleTimer,
                 timeouts, running, outcome>>

\* getQueueStatus() asks isThrottled() and thereby may start a new interval.
GetQueueStatus ==
  /\ StartInterval
  /\ inInterval' = 0
  /\ age' = 0
  /\ UNCHANGED <<config, queue, activeRequests, throttleTimer, timeouts,
                 running, outcome>>

\* Date.now() advances; ages and delays saturate.
Tick ==
  /\ age' = IF age < Interval THEN age + 1 ELSE age
  /\ throttleTimer' = IF throttleTimer > 0 THEN throttleTimer - 1 ELSE throttleTimer
  /\ UNCHANGED <<config, queue, activeRequests, inInterval, timeouts, running, outcome>>

Next ==
  \/ \E r \in Requests : Execute(r) \/ Complete(r) \/ QueueTimeout(r)
  \/ ThrottleTimerFires
  \/ ClearQueue
  \/ \E c \in Configs : UpdateConfig(c)
  \/ GetQueueStatus
  \/ Tick

Spec == Init /\ [][Next]_vars

\* The network answers every request (nothing in the queue bounds a running
\* request), time passes and a due throttle timer fires.
Fairness ==
  /\ \A r \in Requests : WF_vars(Complete(r))
  /\ WF_vars(ThrottleTimerFires)
  /\ WF_vars(Tick)

FairSpec == Spec /\ Fairness

-----------------------------------------------------------------------------
(* Properties *)

TypeOK ==
  /\ config \in Configs
  /\ queue \in Seq(Requests)
  /\ activeRequests \in Nat
  /\ inInterval \in Nat
  /\ age \in 0..Interval
  /\ throttleTimer \in {NoTimer} \cup 0..Interval
  /\ timeouts \subseteq Requests
  /\ running \subseteq Requests
  /\ outcome \in [Requests -> Outcomes]

\* A request is in one place: its promise is pending exactly while it waits
\* or runs, it never waits twice and never both waits and runs.  A caller told
\* that its request timed out, was cleared or finished has nothing in flight.
PendingIsWaitingOrRunning ==
  /\ \A r \in Requests : (outcome[r] = "pending") <=> (r \in Range(queue) \cup running)
  /\ Range(queue) \cap running = {}
  /\ IsInjective(queue)

\* activeRequests counts the requests in flight: no completion, timeout or
\* clearing leaks a slot or frees it twice.
ActiveCountExact == activeRequests = Cardinality(running)

\* Only a waiting request can time out in the queue: starting a request
\* cancels its timer.
TimeoutsAreWaiting == timeouts \subseteq Range(queue)

\* Whoever waits has someone who will call processQueue(): a running request
\* or the throttle timer.  updateConfig() and the queue timeouts do not call it.
NoStrandedQueue == queue # <<>> => activeRequests > 0 \/ throttleTimer # NoTimer

\* A step that starts a request leaves no more than maxConcurrentRequests
\* running, whatever updateConfig() did before.
StartsWithinLimit ==
  [][running' \subseteq running \/ activeRequests' <= config'.max]_vars

Ahead(q, x, y) == \E i, j \in DOMAIN q : i < j /\ q[i] = x /\ q[j] = y

WaitsLonger(x, y) ==
  Ahead(queue, x, y) \/ (x \in Range(queue) /\ outcome[y] = "unsubmitted")

\* Requests start in the order of the calls of execute(): nobody starts before,
\* or gets in front of, a request that has been waiting longer.
FifoStart ==
  [][\A x, y \in Requests : WaitsLonger(x, y) =>
       /\ y \in running' => x \in running'
       /\ {x, y} \subseteq Range(queue') => Ahead(queue', x, y)]_vars

\* With the throttle always on, one interval starts at most rate - 1 requests
\* before the batch that passes the last test, and that batch has at most max.
OvershootBounded ==
  (\A c \in Configs : c.throttle) =>
    \E c, d \in Configs : inInterval <= c.rate - 1 + d.max

\* "Requests per second when throttling is enabled"
ThrottleRateRespected == config.throttle => inInterval <= config.rate

\* The queue is a bounded executor: the phase of a request in the abstract
\* specification is read off the place the request is in.
Phase(r) ==
  IF r \in running THEN "running"
  ELSE IF r \in Range(queue) THEN "waiting"
  ELSE CASE outcome[r] \in {"timedOut", "cleared"} -> "dropped"
         [] outcome[r] \in {"resolved", "failed"}  -> "done"
         [] OTHER                                   -> "new"

Limits == {c.max : c \in Configs}

Executor == INSTANCE BoundedExecutor
              WITH phase <- [r \in Requests |-> Phase(r)], limit <- config.max

\* Every step of the queue is a step of the bounded executor.
ImplementsExecutor == Executor!Spec

\* No starvation: the promise of every call of execute() is settled.
EveryRequestSettles == \A r \in Requests : outcome[r] = "pending" ~> Settled(r)
=============================================================================
