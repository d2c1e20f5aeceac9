------------------------------- MODULE Profiling -------------------------------
(***************************************************************************)
(* The ProfilingService: profile() measures an asynchronous operation if   *)
(* the service is on as the operation starts, and records it when it ends, *)
(* while the service is switched on and off and its metrics are cleared.   *)
(* A report is made of the metrics recorded.                               *)
(*                                                                         *)
(* Clock and memory are external: durations come from a small set, and of  *)
(* the memory it counts whether its growth is recorded.                    *)
(***************************************************************************)
EXTENDS Integers, FiniteSets, Sequences, SequencesExt

CONSTANTS
  ProfiledCalls,    \* calls of profile(), each made once
  Durations,        \* what the clock may measure
  Percentile,       \* percent of the calls the report's p95 covers; 95 in the code
  MaxSwitched       \* bound on calls of enable(), disable() and clear()

ASSUME ProfilingAssumption ==
  /\ Durations \subseteq Nat /\ Percentile \in 1..100 /\ MaxSwitched \in Nat

VARIABLES
  enabled, profilingLevel,
  profileMetrics,   \* the metrics recorded
  nextProfileId,
  profiled,         \* call -> its state, and whether its memory was read at its start
  endedSinceClear,  \* calls that ended since clear(), and were on as they started; history
  switched

profilingVars ==
  <<enabled, profilingLevel, profileMetrics, nextProfileId, profiled, endedSinceClear, switched>>

\* The constructor takes `enabled' and `level' as they are given.
ProfilingInit ==
  /\ enabled \in BOOLEAN /\ profilingLevel \in {"off", "basic", "detailed"}
  /\ profileMetrics = <<>> /\ nextProfileId = 1
  /\ profiled = [c \in ProfiledCalls |-> [state |-> "new", memory |-> FALSE]]
  /\ endedSinceClear = {} /\ switched = 0

ProfilingIsOn == enabled /\ profilingLevel # "off"

Switch == switched < MaxSwitched /\ switched' = switched + 1

EnableProfiling(level) ==
  /\ Switch /\ enabled' = TRUE /\ profilingLevel' = level
  /\ UNCHANGED <<profileMetrics, nextProfileId, profiled, endedSinceClear>>

DisableProfiling ==
  /\ Switch /\ enabled' = FALSE /\ profilingLevel' = "off"
  /\ UNCHANGED <<profileMetrics, nextProfileId, profiled, endedSinceClear>>

\* Mutant: clear() starts the numbers of the metrics again.
FromOne == 1

\* The number clear() leaves for the next metric
NextAfterClear == nextProfileId

ClearMetrics ==
  /\ Switch /\ profileMetrics' = <<>> /\ endedSinceClear' = {}
  /\ nextProfileId' = NextAfterClear
  /\ UNCHANGED <<enabled, profilingLevel, profiled>>

StartProfile(c) ==
  /\ profiled[c].state = "new"
  /\ profiled' = [profiled EXCEPT ![c] =
       [state |-> IF ProfilingIsOn THEN "measured" ELSE "unmeasured",
        memory |-> ProfilingIsOn /\ profilingLevel = "detailed"]]
  /\ UNCHANGED <<enabled, profilingLevel, profileMetrics, nextProfileId, endedSinceClear,
                 switched>>

\* Mutant: what ends while the service is off is not recorded.
RecordedIfOn(c) == profiled[c].state = "measured" /\ ProfilingIsOn

\* profile() decided at the start whether it will record.
Recorded(c) == profiled[c].state = "measured"

EndProfile(c, duration, success) ==
  /\ profiled[c].state \in {"measured", "unmeasured"}
  /\ IF Recorded(c)
     THEN /\ profileMetrics' = Append(profileMetrics,
               [id |-> nextProfileId, call |-> c, duration |-> duration, success |-> success,
                memory |-> profiled[c].memory /\ profilingLevel = "detailed"])
          /\ nextProfileId' = nextProfileId + 1
     ELSE UNCHANGED <<profileMetrics, nextProfileId>>
  /\ endedSinceClear' =
       IF profiled[c].state = "measured" THEN endedSinceClear \cup {c} ELSE endedSinceClear
  /\ profiled' = [profiled EXCEPT ![c].state =
       IF @ = "measured" THEN "recorded" ELSE "unrecorded"]
  /\ UNCHANGED <<enabled, profilingLevel, switched>>

\* Mutant: the rank is rounded down.
RankBelow(n) == (n * Percentile) \div 100

\* The rank, from 1, of the percentile among n durations: Math.ceil
RankOf(n) == (n * Percentile + 99) \div 100

Measured == [i \in DOMAIN profileMetrics |-> profileMetrics[i].duration]

\* The duration at a place of the sorted durations
AtRank(rank) ==
  CHOOSE d \in Range(Measured) :
    /\ Cardinality({i \in DOMAIN Measured : Measured[i] < d}) < rank
    /\ rank <= Cardinality({i \in DOMAIN Measured : Measured[i] <= d})

\* The p95DurationMs, totals and slowest call of generateReport()
Report ==
  LET n == Len(profileMetrics)
      slower(i, j) == profileMetrics[i].duration > profileMetrics[j].duration
  IN  [p95 |-> IF RankOf(n) \in 1..n THEN AtRank(RankOf(n)) ELSE 0,
       total |-> n,
       successful |-> Cardinality({i \in 1..n : profileMetrics[i].success}),
       failed |-> Cardinality({i \in 1..n : ~profileMetrics[i].success}),
       slowest |-> {profileMetrics[i] : i \in {i \in 1..n :
                      \A j \in 1..n \ {i} : slower(i, j) \/ (j > i /\ ~slower(j, i))}}]

ProfilingNext ==
  \/ \E level \in {"basic", "detailed"} : EnableProfiling(level)
  \/ DisableProfiling \/ ClearMetrics
  \/ \E c \in ProfiledCalls :
       \/ StartProfile(c)
       \/ \E duration \in Durations, success \in BOOLEAN : EndProfile(c, duration, success)

ProfilingSpec == ProfilingInit /\ [][ProfilingNext]_profilingVars

-----------------------------------------------------------------------------
(* Properties *)

(* Every variable has its type.  (src/profiling/profilingService.ts:60) *)
ProfilingTypeOK ==
  /\ enabled \in BOOLEAN /\ profilingLevel \in {"off", "basic", "detailed"}
  /\ \A i \in DOMAIN profileMetrics :
       /\ profileMetrics[i].call \in ProfiledCalls /\ profileMetrics[i].duration \in Durations
       /\ {profileMetrics[i].success, profileMetrics[i].memory} \subseteq BOOLEAN
  /\ nextProfileId \in Nat /\ switched \in 0..MaxSwitched
  /\ endedSinceClear \subseteq ProfiledCalls

(* Whatever is switched while calls are in flight, the metrics are those of the
   calls that ended since clear() and were on as they started, once each; no
   number is given again; and the report of them covers at least its percentage
   of the calls, with a duration that no smaller one of them could replace.
   (src/profiling/profilingService.ts:95, 139) *)
ProfilesAreComplete ==
  LET share(limit) == Cardinality({i \in DOMAIN profileMetrics : Measured[i] <= limit})
      enough(limit) == 100 * share(limit) >= Percentile * Report.total
  IN  /\ {profileMetrics[i].call : i \in DOMAIN profileMetrics} = endedSinceClear
      /\ Len(profileMetrics) = Cardinality(endedSinceClear)
      /\ \A i, j \in DOMAIN profileMetrics : i < j => profileMetrics[i].id < profileMetrics[j].id
      /\ nextProfileId = 1 + Cardinality({c \in ProfiledCalls : profiled[c].state = "recorded"})
      /\ Report.total = Report.successful + Report.failed
      /\ Report.total > 0 =>
           /\ enough(Report.p95)
           /\ \A d \in Durations : d < Report.p95 => ~enough(d)
           /\ \E metric \in Report.slowest : \A i \in DOMAIN profileMetrics :
                Measured[i] <= metric.duration
=============================================================================
