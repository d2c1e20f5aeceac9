--------------------------- MODULE BoundedExecutor ---------------------------
(***************************************************************************)
(* What CONCURRENCY_CONTROL.md promises of the request queue, without the  *)
(* queue: a request runs at most once, is done only after it ran, may be   *)
(* dropped only while it waits, and no request is started when that would  *)
(* make more than `limit' of them run.  The limit may be reconfigured.     *)
(***************************************************************************)
EXTENDS Naturals, FiniteSets

CONSTANTS Requests, Limits

VARIABLES phase, limit

Phases == {"new", "waiting", "running", "done", "dropped"}

\* The moves a request can make; "new" to "running" finds a free slot.
Moves == {<<"new", "waiting">>, <<"new", "running">>, <<"waiting", "running">>,
          <<"waiting", "dropped">>, <<"running", "done">>}

InPhase(p) == {r \in Requests : phase[r] = p}

Init ==
  /\ phase = [r \in Requests |-> "new"]
  /\ limit \in Limits

\* Any number of requests move; whoever starts respects the limit.
Advance ==
  /\ phase' \in [Requests -> Phases]
  /\ \A r \in Requests : phase'[r] # phase[r] => <<phase[r], phase'[r]>> \in Moves
  /\ InPhase("running")' \subseteq InPhase("running")
       \/ Cardinality(InPhase("running")') <= limit
  /\ UNCHANGED limit

Reconfigure ==
  /\ limit' \in Limits
  /\ UNCHANGED phase

Next == Advance \/ Reconfigure

Spec == Init /\ [][Next]_<<phase, limit>>
==============================================================================
