----------------------- MODULE MCEmitterAndSubmission -----------------------
(***************************************************************************)
(* An instance for TLC of two parts of a StellarClient that share no       *)
(* state: an emitter of a contract's events that is registered in it, and  *)
(* the transactions it numbers and submits.  A behaviour of the run is one *)
(* of either part, and the other stays as it is.                           *)
(***************************************************************************)
EXTENDS ContractEventEmitter, OfflineSubmission, TLC

CONSTANTS a, b, named, generic, once

\* A listener of `a', one of every event, and a once() listener of every event.
TwoNames == {a, b}
OneName == {a}
AllKeys == [l \in Listeners |-> CASE l = named -> a
                                   [] l = generic -> "event"
                                   [] l = once -> "*"]

VARIABLE part

MCInit ==
  /\ part \in {"emitter", "submission"}
  /\ Init /\ SubmissionInit

MCNext ==
  /\ UNCHANGED part
  /\ IF part = "emitter" THEN Next ELSE UNCHANGED vars
  /\ IF part = "submission" THEN SubmissionNext ELSE UNCHANGED submissionVars

MCSpec == MCInit /\ [][MCNext]_<<part, vars, submissionVars>>
=============================================================================
