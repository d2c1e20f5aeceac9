------------------------------ MODULE Telemetry ------------------------------
(***************************************************************************)
(* src/telemetry and src/metrics: events are buffered and handed, with a   *)
(* snapshot of the metrics, to a handler when the buffer is full, by a     *)
(* timer, or when the service is switched off.  The client, which tracks   *)
(* its calls in it, may be called by the handler in its turn.              *)
(*                                                                         *)
(* Events are numbered.  Metrics are one counter; a snapshot holds the     *)
(* counter itself, not its value, so what a handler keeps goes on counting *)
(* until the collector is cleared.  Anonymization is left out, and so are  *)
(* changes of the other settings.                                          *)
(***************************************************************************)
EXTENDS Integers, Sequences, SequencesExt

CONSTANTS
  bufferSize,  \* of the configuration
  MaxTracked,  \* bound on the events
  MaxCounted,  \* bound on the increments
  MaxTimers    \* bound on the timers, were one forgotten

ASSUME TelemetryAssumption ==
  /\ bufferSize \in Nat /\ bufferSize > 1 /\ {MaxTracked, MaxCounted} \subseteq Nat
  /\ MaxTimers \in Nat \ {0}

VARIABLES
  telemetryOn,     \* config.enabled
  flushTimers,     \* number of intervals running; flushTimer names the last
  flushHandler,    \* whether one is registered
  buffered,        \* events, oldest first
  tracked,         \* eventCounter
  handedOver,      \* what flush() gave the handler: [events, counter]
  discarded,       \* what it took with no handler to give it to
  counters,        \* every counter the collector has made
  collector,       \* the one in its Map, or 0
  destroyed

telemetryVars == <<telemetryOn, flushTimers, flushHandler, buffered, tracked, handedOver,
                   discarded, counters, collector, destroyed>>
metricVars == <<counters, collector>>

TelemetryInit ==
  /\ telemetryOn = FALSE /\ flushTimers = 0
  /\ flushHandler = FALSE /\ buffered = <<>> /\ tracked = 0
  /\ handedOver = <<>> /\ discarded = <<>>
  /\ counters = <<>> /\ collector = 0 /\ destroyed = FALSE

\* Mutant: the interval that runs already is not cleared.
StartTimerAgain(timers) == timers + 1

\* startFlushTimer() clears the interval it knows of.
StartFlushTimer(timers) == (IF timers > 0 THEN timers - 1 ELSE 0) + 1
StopFlushTimer(timers) == IF timers > 0 THEN timers - 1 ELSE 0

\* Mutant: the buffer is emptied after the handler was called.
FlushThenEmpty(events, again) ==
  /\ buffered' = <<>>
  /\ tracked' = IF again THEN tracked + 1 ELSE tracked
  /\ IF flushHandler
     THEN /\ handedOver' = Append(handedOver, [events |-> events, counter |-> collector])
          /\ UNCHANGED discarded
     ELSE discarded' = discarded \o events /\ UNCHANGED handedOver

\* flush() of the events in the buffer.  The handler may have something tracked,
\* `again': by then the buffer is empty.  What it throws is caught.
Flush(events, again) ==
  /\ buffered' = IF again THEN <<Last(events) + 1>> ELSE <<>>
  /\ tracked' = IF events = <<>> THEN tracked
                ELSE Last(events) + (IF again THEN 1 ELSE 0)
  /\ IF events = <<>> THEN UNCHANGED <<handedOver, discarded>>
     ELSE IF flushHandler
     THEN /\ handedOver' = Append(handedOver, [events |-> events, counter |-> collector])
          /\ UNCHANGED discarded
     ELSE discarded' = discarded \o events /\ UNCHANGED handedOver

MayTrackAgain(again) ==
  again => flushHandler /\ telemetryOn /\ buffered # <<>> /\ tracked + 1 < MaxTracked

\* track()
Track(again) ==
  /\ telemetryOn /\ tracked < MaxTracked /\ MayTrackAgain(again)
  /\ LET events == Append(buffered, tracked + 1)
     IN  IF Len(events) >= bufferSize THEN Flush(events, again)
         ELSE /\ ~again /\ buffered' = events /\ tracked' = tracked + 1
              /\ UNCHANGED <<handedOver, discarded>>
  /\ UNCHANGED <<telemetryOn, flushTimers, flushHandler, metricVars, destroyed>>

\* The interval, or flush() of an application.
FlushNow(again) ==
  /\ MayTrackAgain(again)
  /\ Flush(buffered, again)
  /\ UNCHANGED <<telemetryOn, flushTimers, flushHandler, metricVars, destroyed>>

OnFlush ==
  /\ flushHandler' = TRUE
  /\ UNCHANGED <<telemetryOn, flushTimers, buffered, tracked, handedOver, discarded,
                 metricVars, destroyed>>

\* setEnabled(): what is buffered stays there.
SetEnabled(on) ==
  /\ telemetryOn' = on
  /\ flushTimers' = IF on THEN StartFlushTimer(flushTimers) ELSE StopFlushTimer(flushTimers)
  /\ flushTimers' <= MaxTimers
  /\ UNCHANGED <<flushHandler, buffered, tracked, handedOver, discarded, metricVars, destroyed>>

\* updateConfig(): nothing is done if the setting stays as it was.  When it is
\* switched off the buffer is flushed, and the handler can have nothing tracked.
UpdateConfig(on) ==
  /\ telemetryOn' = on
  /\ flushTimers' = IF telemetryOn = on THEN flushTimers
                    ELSE IF on THEN StartFlushTimer(flushTimers)
                    ELSE StopFlushTimer(flushTimers)
  /\ IF telemetryOn /\ ~on THEN Flush(buffered, FALSE)
     ELSE UNCHANGED <<buffered, tracked, handedOver, discarded>>
  /\ UNCHANGED <<flushHandler, metricVars, destroyed>>

\* increment() of the collector
Increment ==
  /\ IF collector = 0
     THEN /\ Len(counters) < MaxCounted
          /\ counters' = Append(counters, 1) /\ collector' = Len(counters) + 1
     ELSE /\ counters[collector] < MaxCounted
          /\ counters' = [counters EXCEPT ![collector] = @ + 1] /\ UNCHANGED collector
  /\ UNCHANGED <<telemetryOn, flushTimers, flushHandler, buffered, tracked, handedOver,
                 discarded, destroyed>>

\* destroy(): the service stays enabled, and can be used again.
Destroy(again) ==
  /\ MayTrackAgain(again)
  /\ flushTimers' = StopFlushTimer(flushTimers)
  /\ Flush(buffered, again)
  /\ collector' = 0 /\ destroyed' = TRUE
  /\ UNCHANGED <<telemetryOn, flushHandler, counters>>

TelemetryNext ==
  \/ \E again \in BOOLEAN : Track(again) \/ FlushNow(again) \/ Destroy(again)
  \/ \E on \in BOOLEAN : SetEnabled(on) \/ UpdateConfig(on)
  \/ OnFlush \/ Increment

TelemetrySpec == TelemetryInit /\ [][TelemetryNext]_telemetryVars

-----------------------------------------------------------------------------
(* Properties *)

TelemetryTypeOK ==
  /\ flushTimers \in 0..MaxTimers /\ tracked \in 0..MaxTracked
  /\ collector \in 0..Len(counters) /\ \A n \in DOMAIN counters : counters[n] \in 1..MaxCounted

\* The events that follow the first n
FollowOn(events, n) == \A i \in DOMAIN events : events[i] = n + i

\* How many events were taken before batch k; those discarded were the first.
TakenBefore(k) == IF k = 1 THEN Len(discarded) ELSE Last(handedOver[k - 1].events)

(* Every event that was tracked is in one place: it was given to the handler,
   in one batch, or was taken when there was no handler yet, or is buffered -
   also those tracked by a handler during a flush; and the buffer never reaches
   its size.  An event that waits while the service is enabled is waited for
   by exactly one interval, unless the service was destroyed.
   (src/telemetry/telemetryService.ts:38-55, 65-91, 99-110) *)
TelemetryAccountsForAll ==
  /\ FollowOn(discarded, 0)
  /\ \A k \in DOMAIN handedOver :
       handedOver[k].events # <<>> /\ FollowOn(handedOver[k].events, TakenBefore(k))
  /\ LET taken == TakenBefore(Len(handedOver) + 1)
     IN  FollowOn(buffered, taken) /\ tracked = taken + Len(buffered)
  /\ Len(buffered) < bufferSize
  /\ flushTimers <= 1
  /\ ~destroyed => (telemetryOn <=> flushTimers = 1)
=============================================================================
