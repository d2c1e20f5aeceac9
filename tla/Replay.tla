------------------------------- MODULE Replay -------------------------------
(***************************************************************************)
(* src/replay: calls of a contract are recorded as they end, the session   *)
(* is replayed one call after the other, and the results are compared with *)
(* what was recorded.                                                      *)
(*                                                                         *)
(* The contract counts: a call adds one and returns the count, or throws   *)
(* once the count has reached its limit.  It is the same contract when the *)
(* session is replayed, and starts anew.  A recorded call takes effect at  *)
(* some time between its begin and its end.                                *)
(***************************************************************************)
EXTENDS Integers, Sequences, FiniteSets, SequencesExt

CONSTANTS
  RecordedCalls,  \* calls an application makes, their ids
  Unhandled,      \* those of a method that has no handler at the replay
  ContractLimit

ASSUME ReplayAssumption == Unhandled \subseteq RecordedCalls /\ ContractLimit \in Nat

VARIABLES
  recording,      \* what each call is about: its phase and result
  effects,        \* calls in the order they took effect
  interactions,   \* of the recorder: [id, result], in the order the calls ended
  replayed,       \* results of the engine: [id, result]
  replayCount,    \* the count of the contract while replaying
  replayPhase, stopOnFailure

recordingVars == <<recording, effects>>
replayVars == <<recordingVars, interactions, replayed, replayCount, replayPhase, stopOnFailure>>

Thrown == 0         \* in the place of a count
NoHandler == -1     \* the engine's own error
Failed(result) == result \in {Thrown, NoHandler}
Answer(count) == IF count < ContractLimit THEN count + 1 ELSE Thrown

ReplayInit ==
  /\ recording = [c \in RecordedCalls |-> [phase |-> "none", result |-> Thrown]]
  /\ effects = <<>> /\ interactions = <<>> /\ replayed = <<>> /\ replayCount = 0
  /\ replayPhase = "recording" /\ stopOnFailure = FALSE

\* record(): the call is awaited,
BeginRecorded(c) ==
  /\ replayPhase = "recording" /\ recording[c].phase = "none"
  /\ recording' = [recording EXCEPT ![c].phase = "begun"]
  /\ UNCHANGED <<effects, interactions, replayed, replayCount, replayPhase, stopOnFailure>>

TakeEffect(c) ==
  /\ recording[c].phase = "begun"
  /\ recording' = [recording EXCEPT ![c] =
       [phase |-> "effective",
        result |-> Answer(Cardinality({x \in Range(effects) : recording[x].result # Thrown}))]]
  /\ effects' = Append(effects, c)
  /\ UNCHANGED <<interactions, replayed, replayCount, replayPhase, stopOnFailure>>

\* and recorded when it has ended, with its result or its error.
EndRecorded(c) ==
  /\ replayPhase = "recording" /\ recording[c].phase = "effective"
  /\ recording' = [recording EXCEPT ![c].phase = "ended"]
  /\ interactions' = Append(interactions, [id |-> c, result |-> recording[c].result])
  /\ UNCHANGED <<effects, replayed, replayCount, replayPhase, stopOnFailure>>

\* importSession() of a session that was exported from this recorder: what is
\* in it comes twice, under the same ids.
ImportSession ==
  /\ replayPhase = "recording" /\ interactions # <<>>
  /\ Len(interactions) <= Cardinality(RecordedCalls)
  /\ interactions' = interactions \o interactions
  /\ UNCHANGED <<recordingVars, replayed, replayCount, replayPhase, stopOnFailure>>

\* clear(): calls that are under way are recorded nevertheless.
ClearRecording ==
  /\ replayPhase = "recording" /\ interactions # <<>>
  /\ interactions' = <<>>
  /\ UNCHANGED <<recordingVars, replayed, replayCount, replayPhase, stopOnFailure>>

\* exportSession() and replay()
StartReplay(stop) ==
  /\ replayPhase = "recording" /\ interactions # <<>>
  /\ replayPhase' = "replaying" /\ stopOnFailure' = stop
  /\ UNCHANGED <<recordingVars, interactions, replayed, replayCount>>

\* Mutant: only an error that was not recorded as one stops the replay.
StopsAtNews(result) ==
  stopOnFailure /\ Failed(result) /\ interactions[Len(replayed) + 1].result # result

Stops(result) == stopOnFailure /\ Failed(result)

\* replayOne(), awaited, and the rest of the turn of the loop.
ReplayOne ==
  /\ replayPhase = "replaying"
  /\ LET id == interactions[Len(replayed) + 1].id
         result == IF id \in Unhandled THEN NoHandler ELSE Answer(replayCount)
     IN  /\ replayed' = Append(replayed, [id |-> id, result |-> result])
         /\ replayCount' = IF Failed(result) THEN replayCount ELSE result
         /\ replayPhase' = IF Stops(result) \/ Len(replayed) + 1 = Len(interactions)
                           THEN "done" ELSE "replaying"
  /\ UNCHANGED <<recordingVars, interactions, stopOnFailure>>

ReplayNext ==
  \/ \E c \in RecordedCalls : BeginRecorded(c) \/ TakeEffect(c) \/ EndRecorded(c)
  \/ \E stop \in BOOLEAN : StartReplay(stop)
  \/ ImportSession \/ ClearRecording \/ ReplayOne

ReplaySpec == ReplayInit /\ [][ReplayNext]_replayVars

-----------------------------------------------------------------------------
(* Properties *)

ReplayTypeOK ==
  /\ replayPhase \in {"recording", "replaying", "done"} /\ replayCount \in 0..ContractLimit
  /\ Len(replayed) <= Len(interactions)

\* The result an interaction is compared with: the last of its id, by the Map.
ResultOf(id) ==
  LET last == CHOOSE i \in DOMAIN replayed :
        /\ replayed[i].id = id
        /\ \A j \in DOMAIN replayed : replayed[j].id = id => j <= i
  IN  replayed[last].result

\* validate(), for one interaction: two errors are equal if their messages are.
PassesValidation(interaction) ==
  /\ \E i \in DOMAIN replayed : replayed[i].id = interaction.id
  /\ ResultOf(interaction.id) = interaction.result

Ids == [i \in DOMAIN interactions |-> interactions[i].id]

(* The report tells a changed contract from an unchanged one.  If the recorded
   calls ended in the order in which they took effect, each is recorded, none
   twice, every method has a handler, and none threw or the replay does not stop
   at failures, then all of them pass.  Where a call takes effect before another
   and ends after it, they do not: one of the two then differs.
   (src/replay/recorder.ts:30-59, engine.ts:29-83, validator.ts:20-83) *)
ReplayReproduces ==
  replayPhase = "done" =>
    LET all == \A i \in DOMAIN interactions : PassesValidation(interactions[i])
        wellRecorded == Ids = effects /\ \A i \in DOMAIN interactions : Ids[i] \notin Unhandled
        stopped == stopOnFailure /\ \E i \in DOMAIN interactions : Failed(interactions[i].result)
    IN  /\ wellRecorded /\ ~stopped => all
        /\ stopOnFailure => \A i \in 1..(Len(replayed) - 1) : ~Failed(replayed[i].result)
        /\ all /\ IsInjective(Ids) /\ Len(Ids) = Len(effects) =>
             \A i, j \in DOMAIN interactions :
               i < j /\ ~Failed(interactions[i].result) /\ ~Failed(interactions[j].result) =>
                 interactions[i].result < interactions[j].result
=============================================================================
