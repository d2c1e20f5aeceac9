-------------------------- MODULE RpcHealthMonitor --------------------------
(***************************************************************************)
(* src/monitoring/rpcHealthMonitor.ts: rounds of health checks, started by *)
(* an interval timer or by the application, each endpoint racing with a    *)
(* timeout.  A request that lost its race may still be answered.           *)
(*                                                                         *)
(* Counters of checks are kept modulo Modulus and consecutive failures up  *)
(* to the threshold, so the monitor runs forever; the metrics of latency   *)
(* and the percentage follow from samples and counters, and are left out.  *)
(***************************************************************************)
EXTENDS Integers, Sequences, FiniteSets, SequencesExt

CONSTANTS
  Endpoints,
  Latencies,              \* of answers, in any unit
  degradedLatency,        \* degradedLatencyMs
  unhealthyAfterFailures,
  Modulus,                \* bound on the counters
  MaxLate                 \* bound on unanswered requests per endpoint

ASSUME HealthAssumption ==
  /\ Latencies \subseteq Nat \ {0} /\ degradedLatency \in Nat
  /\ unhealthyAfterFailures \in Nat \ {0}
  /\ Modulus \in Nat \ {0, 1} /\ MaxLate \in Nat

VARIABLES
  monitoring,      \* intervalHandle is set
  checkInProgress,
  checking,        \* the endpoints whose check has not ended
  health,          \* status and metrics of each endpoint
  late,            \* requests that timed out and were not answered yet
  rounds,          \* rounds started
  recent           \* the outcomes of the last checks, as many as the threshold

healthVars == <<monitoring, checkInProgress, checking, health, late, rounds, recent>>

Unchecked == [state |-> "unknown", available |-> FALSE, total |-> 0, successful |-> 0,
              failed |-> 0, consecutive |-> 0]

HealthInit ==
  /\ monitoring = FALSE /\ checkInProgress = FALSE /\ checking = {} /\ rounds = 0
  /\ health = [e \in Endpoints |-> Unchecked]
  /\ late = [e \in Endpoints |-> 0] /\ recent = [e \in Endpoints |-> <<>>]

Inc(n) == (n + 1) % Modulus
Least(a, b) == IF a < b THEN a ELSE b

\* Mutant: rounds overlap.
RunHealthChecksAlways ==
  /\ checkInProgress' = TRUE /\ checking' = Endpoints /\ rounds' = Inc(rounds)

\* runHealthChecks(): nothing happens while a round is under way.
RunHealthChecks ==
  IF checkInProgress THEN UNCHANGED <<checkInProgress, checking, rounds>>
  ELSE /\ checkInProgress' = TRUE /\ checking' = Endpoints /\ rounds' = Inc(rounds)

StartMonitor ==
  /\ ~monitoring /\ monitoring' = TRUE
  /\ RunHealthChecks
  /\ UNCHANGED <<health, late, recent>>

\* stop(): a round under way goes on.
StopMonitor ==
  /\ monitoring /\ monitoring' = FALSE
  /\ UNCHANGED <<checkInProgress, checking, health, late, rounds, recent>>

\* The timer, or a call of the application.
HealthTick ==
  /\ RunHealthChecks
  /\ UNCHANGED <<monitoring, health, late, recent>>

\* recordSuccess().  An endpoint that answers but does not call itself healthy
\* is unhealthy at once, and has not failed.
RecordSuccess(s, latency, wellSaid) ==
  LET state == IF ~wellSaid THEN "unhealthy"
               ELSE IF latency > degradedLatency THEN "degraded" ELSE "healthy"
  IN  [s EXCEPT !.state = state, !.available = wellSaid,
                !.total = Inc(@), !.successful = Inc(@), !.consecutive = 0]

\* recordFailure()
RecordFailure(s) ==
  LET failures == Least(s.consecutive + 1, unhealthyAfterFailures)
  IN  [s EXCEPT !.state = IF failures = unhealthyAfterFailures THEN "unhealthy" ELSE "degraded",
                !.available = FALSE, !.total = Inc(@), !.failed = Inc(@), !.consecutive = failures]

\* Mutant: the flag is reset only if no check has failed.
CheckEndsUnlessFailed(e, status, outcome) ==
  /\ checking' = checking \ {e}
  /\ checkInProgress' = (checking' # {} \/ outcome = "failed")
  /\ health' = [health EXCEPT ![e] = status]
  /\ recent' = [recent EXCEPT ![e] =
       SubSeq(<<outcome>> \o @, 1, Least(Len(@) + 1, unhealthyAfterFailures))]

\* A check ends, and with the last one its round.
CheckEnds(e, status, outcome) ==
  /\ checking' = checking \ {e}
  /\ checkInProgress' = (checking' # {})
  /\ health' = [health EXCEPT ![e] = status]
  /\ recent' = [recent EXCEPT ![e] =
       SubSeq(<<outcome>> \o @, 1, Least(Len(@) + 1, unhealthyAfterFailures))]

\* checkEndpoint(): the request is answered in time ...
HealthAnswer(e, latency, wellSaid) ==
  /\ e \in checking
  /\ CheckEnds(e, RecordSuccess(health[e], latency, wellSaid), IF wellSaid THEN "well" ELSE "ill")
  /\ UNCHANGED <<monitoring, late, rounds>>

\* ... or fails ...
HealthFails(e) ==
  /\ e \in checking
  /\ CheckEnds(e, RecordFailure(health[e]), "failed")
  /\ UNCHANGED <<monitoring, late, rounds>>

\* ... or the timer of withTimeout() is first.
HealthTimeout(e) ==
  /\ e \in checking
  /\ late' = [late EXCEPT ![e] = Least(@ + 1, MaxLate)]
  /\ CheckEnds(e, RecordFailure(health[e]), "failed")
  /\ UNCHANGED <<monitoring, rounds>>

\* Mutant: the answer is recorded when it comes.
LateAnswerCounts(e) ==
  /\ late[e] > 0 /\ late' = [late EXCEPT ![e] = @ - 1]
  /\ \E l \in Latencies : health' = [health EXCEPT ![e] = RecordSuccess(@, l, TRUE)]
  /\ UNCHANGED <<monitoring, checkInProgress, checking, rounds, recent>>

\* The answer to a request whose check has timed out, perhaps during a later
\* check of the endpoint: the race is over and nobody listens.
LateAnswer(e) ==
  /\ late[e] > 0 /\ late' = [late EXCEPT ![e] = @ - 1]
  /\ UNCHANGED <<monitoring, checkInProgress, checking, health, rounds, recent>>

HealthNext ==
  \/ StartMonitor \/ StopMonitor \/ HealthTick
  \/ \E e \in Endpoints :
       \/ \E l \in Latencies, wellSaid \in BOOLEAN : HealthAnswer(e, l, wellSaid)
       \/ HealthFails(e) \/ HealthTimeout(e) \/ LateAnswer(e)

\* The interval timer and the timers of withTimeout() fire; no answer is owed.
HealthFairness ==
  /\ WF_healthVars(monitoring /\ ~checkInProgress /\ HealthTick)
  /\ \A e \in Endpoints : WF_healthVars(HealthTimeout(e))

HealthSpec == HealthInit /\ [][HealthNext]_healthVars /\ HealthFairness

-----------------------------------------------------------------------------
(* Properties *)

HealthTypeOK ==
  /\ {monitoring, checkInProgress} \subseteq BOOLEAN /\ checking \subseteq Endpoints
  /\ rounds \in 0..(Modulus - 1) /\ late \in [Endpoints -> 0..MaxLate]
  /\ \A e \in Endpoints :
       /\ health[e].state \in {"unknown", "healthy", "degraded", "unhealthy"}
       /\ {health[e].total, health[e].successful, health[e].failed} \subseteq 0..(Modulus - 1)
       /\ health[e].consecutive \in 0..unhealthyAfterFailures

(* Whatever overlaps - calls, ticks, stops and starts, answers that come after
   their timeout - each round counts once for each endpoint, and the reported
   state is that of the latest checks: unhealthy exactly if the endpoint last
   said so, or failed as often in a row as configured.
   (src/monitoring/rpcHealthMonitor.ts:124, 217, 301-351) *)
HealthTellsTruth ==
  \A e \in Endpoints :
    LET s == health[e]
        failing == /\ Len(recent[e]) = unhealthyAfterFailures
                   /\ \A i \in DOMAIN recent[e] : recent[e][i] = "failed"
    IN  /\ s.total = (rounds - (IF e \in checking THEN 1 ELSE 0)) % Modulus
        /\ s.total = (s.successful + s.failed) % Modulus
        /\ s.state = "unknown" <=> recent[e] = <<>>
        /\ s.state = "unhealthy" <=> failing \/ (recent[e] # <<>> /\ recent[e][1] = "ill")
        /\ s.available <=> recent[e] # <<>> /\ recent[e][1] = "well"

(* While the monitor runs, every endpoint is checked again and again, though
   checks fail, time out and are never answered: the flag that keeps rounds
   apart is always reset.  (src/monitoring/rpcHealthMonitor.ts:216-231) *)
EndpointsCheckedForever == \A e \in Endpoints : []<>(~monitoring \/ e \in checking)
=============================================================================
