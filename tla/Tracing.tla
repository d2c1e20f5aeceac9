------------------------------- MODULE Tracing -------------------------------
(***************************************************************************)
(* What the SDK remembers of its own work: the spans of the Tracer, the    *)
(* events of the DiagnosticsManager, and the cache of decoded XDR.         *)
(*                                                                         *)
(* Spans and events are numbers; names and tags are left out.  The times   *)
(* at which spans start never go back, and two of them may be the same.    *)
(* The cache is a module's own, and knows nothing of the others; its       *)
(* actions, CacheNext, are apart from theirs, ObservingNext.               *)
(***************************************************************************)
EXTENDS Integers, Sequences, FiniteSets, SequencesExt

CONSTANTS
  maxSpans, maxEvents, maxCacheSize,
  Inputs,                                   \* XDR strings that can be decoded
  MaxSpansStarted, MaxRecorded, MaxDecoded  \* bounds

ASSUME TracingAssumption ==
  /\ {maxSpans, maxEvents, maxCacheSize} \subseteq Nat \ {0}
  /\ {MaxSpansStarted, MaxRecorded, MaxDecoded} \subseteq Nat

VARIABLES
  traceLevel,   \* "off" or another
  spanTimes,    \* the times of the spans started since clear(); spanCounter
  activeSpans,  \* numbers of spans, in the order of the Map
  endedSpans,   \* spans: likewise
  mostActive,   \* the most spans that were active since clear()
  clearedAt,    \* how many had been started before it
  diagnostics,  \* [enabled, events, counter] of the DiagnosticsManager
  xdrCache,     \* the keys of the cache's Map, oldest first
  decodes       \* the inputs decoded since the cache was cleared

tracerVars == <<traceLevel, spanTimes, activeSpans, endedSpans, mostActive, clearedAt>>
cacheVars == <<xdrCache, decodes>>
tracingVars == <<tracerVars, diagnostics, cacheVars>>

TracingInit ==
  /\ traceLevel = "off" /\ spanTimes = <<>> /\ activeSpans = <<>> /\ endedSpans = <<>>
  /\ mostActive = 0 /\ clearedAt = 0
  /\ diagnostics = [enabled |-> FALSE, events |-> <<>>, counter |-> 0]
  /\ xdrCache = <<>> /\ decodes = <<>>

Most(a, b) == IF a < b THEN b ELSE a

\* evictOldest(): the first of the earliest of the spans that have ended.
OldestOf(ended) ==
  CHOOSE i \in DOMAIN ended :
    \A j \in DOMAIN ended : \/ spanTimes[ended[i]] < spanTimes[ended[j]]
                            \/ spanTimes[ended[i]] = spanTimes[ended[j]] /\ i <= j
Evicted(ended) == IF ended = <<>> THEN ended ELSE RemoveAt(ended, OldestOf(ended))

\* Mutant: a span is evicted when the limit is reached, from those that are active.
SpansAfterStart(active, ended) ==
  IF Len(active) > maxSpans THEN [active |-> Tail(active), ended |-> ended]
  ELSE [active |-> active, ended |-> ended]

SpansKept(active, ended) ==
  [active |-> active,
   ended |-> IF Len(active) + Len(ended) > maxSpans THEN Evicted(ended) ELSE ended]

\* startSpan(), d after the last
StartSpan(d) ==
  /\ traceLevel # "off" /\ Len(spanTimes) < MaxSpansStarted
  /\ spanTimes' = Append(spanTimes, (IF spanTimes = <<>> THEN 0 ELSE Last(spanTimes)) + d)
  /\ LET kept == SpansKept(Append(activeSpans, Len(spanTimes) + 1), endedSpans)
     IN  activeSpans' = kept.active /\ endedSpans' = kept.ended
  /\ mostActive' = Most(mostActive, Len(activeSpans) + 1)
  /\ UNCHANGED <<traceLevel, clearedAt, diagnostics, cacheVars>>

\* endSpan(); a span that is not active any more is ignored.
EndSpan(id) ==
  /\ Contains(activeSpans, id)
  /\ activeSpans' = RemoveFirst(activeSpans, id) /\ endedSpans' = Append(endedSpans, id)
  /\ UNCHANGED <<traceLevel, spanTimes, mostActive, clearedAt, diagnostics, cacheVars>>

\* record(): the counter goes on after clear().
RecordEvent ==
  /\ diagnostics.enabled /\ diagnostics.counter < MaxRecorded
  /\ LET n == diagnostics.counter + 1
         events == Append(diagnostics.events, n)
     IN  diagnostics' = [diagnostics EXCEPT !.counter = n,
           !.events = IF Len(events) > maxEvents THEN Tail(events) ELSE events]
  /\ UNCHANGED <<tracerVars, cacheVars>>

\* updateConfig() of the ObservabilityService: its limits stay as they were.
UpdateTracing(level, enabled) ==
  /\ traceLevel' = level
  /\ diagnostics' = [diagnostics EXCEPT !.enabled = enabled]
  /\ UNCHANGED <<spanTimes, activeSpans, endedSpans, mostActive, clearedAt, cacheVars>>

\* clear() of the ObservabilityService
ClearTracing ==
  /\ activeSpans' = <<>> /\ endedSpans' = <<>> /\ mostActive' = 0
  /\ clearedAt' = Len(spanTimes)
  /\ diagnostics' = [diagnostics EXCEPT !.events = <<>>]
  /\ UNCHANGED <<traceLevel, spanTimes, cacheVars>>

\* Mutant: a hit leaves the entry in its place.
CacheUnrefreshed(cache, input) ==
  IF Contains(cache, input) THEN cache
  ELSE Append(IF Len(cache) >= maxCacheSize THEN Tail(cache) ELSE cache, input)

Cached(cache, input) ==
  IF Contains(cache, input) THEN Append(RemoveFirst(cache, input), input)
  ELSE Append(IF Len(cache) >= maxCacheSize THEN Tail(cache) ELSE cache, input)

\* decodeXdrBase64(), of an input that is not refused
DecodeXdr(input) ==
  /\ Len(decodes) < MaxDecoded
  /\ xdrCache' = Cached(xdrCache, input) /\ decodes' = Append(decodes, input)
  /\ UNCHANGED <<tracerVars, diagnostics>>

ClearXdrCache ==
  /\ xdrCache' = <<>> /\ decodes' = <<>>
  /\ UNCHANGED <<tracerVars, diagnostics>>

ObservingNext ==
  \/ \E d \in {0, 1} : StartSpan(d)
  \/ \E id \in DOMAIN spanTimes : EndSpan(id)
  \/ \E level \in {"off", "info"}, enabled \in BOOLEAN : UpdateTracing(level, enabled)
  \/ RecordEvent \/ ClearTracing

CacheNext == ClearXdrCache \/ \E input \in Inputs : DecodeXdr(input)

TracingNext == ObservingNext \/ CacheNext

TracingSpec == TracingInit /\ [][TracingNext]_tracingVars

-----------------------------------------------------------------------------
(* Properties *)

TracingTypeOK ==
  /\ traceLevel \in {"off", "info"} /\ Len(spanTimes) <= MaxSpansStarted
  /\ Range(activeSpans) \cup Range(endedSpans) \subseteq DOMAIN spanTimes
  /\ diagnostics.counter \in 0..MaxRecorded
  /\ Range(xdrCache) \subseteq Inputs /\ Len(xdrCache) <= maxCacheSize

\* x has been decoded since y was for the last time.
UsedSince(x, y) ==
  \E i \in DOMAIN decodes :
    decodes[i] = x /\ \A j \in DOMAIN decodes : j >= i => decodes[j] # y

(* The cache holds the inputs that were decoded last, each once and in the order
   of their last use, whichever were hits; and nothing is forgotten while there
   is room.  (src/utils/xdrCache.ts:18-49) *)
CacheIsLru ==
  /\ IsInjective(xdrCache) /\ Range(xdrCache) \subseteq Range(decodes)
  /\ \A i, j \in DOMAIN xdrCache : i < j => UsedSince(xdrCache[j], xdrCache[i])
  /\ \A x \in Range(decodes) \ Range(xdrCache) :
       /\ Len(xdrCache) = maxCacheSize
       /\ \A i \in DOMAIN xdrCache : UsedSince(xdrCache[i], x)

(* Tracing forgets what it may forget.  The spans that it knows, active or
   ended, are at most maxSpans, or as many as were once active together if
   those were more, and none is dropped while there is room, though spans end
   in any order; and the diagnostics are the last events recorded since they
   were cleared.
   (src/observability/tracer.ts:19-50, 76-86; src/diagnostics/diagnosticsManager.ts:23-45) *)
MemoryIsBounded ==
  /\ Len(activeSpans) + Len(endedSpans) <= Most(maxSpans, mostActive)
  /\ \/ Len(activeSpans) + Len(endedSpans) >= maxSpans
     \/ Len(activeSpans) + Len(endedSpans) = Len(spanTimes) - clearedAt
  /\ LET events == diagnostics.events
     IN  /\ Len(events) <= maxEvents
         /\ \A i \in DOMAIN events : events[i] = diagnostics.counter - Len(events) + i
=============================================================================
