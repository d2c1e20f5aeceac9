------------------------- MODULE TransactionTracker -------------------------
(***************************************************************************)
(* The registry of pending transactions of StellarClient                   *)
(* (src/client/stellarClient.ts): trackTransaction() registers a hash and  *)
(* starts a polling loop, pollTransaction() waits for its promise,         *)
(* exportState() and importState() carry the registry over a page refresh. *)
(*                                                                         *)
(* A loop is one run of the async function in trackTransaction(); it is    *)
(* either waiting for an answer of getTransaction() or asleep between two  *)
(* polls.  An answer and the end of a sleep are callbacks, and run up to   *)
(* the next await.  A page refresh forgets the client with all its loops;  *)
(* what was exported before survives.                                      *)
(***************************************************************************)
EXTENDS Integers, FiniteSets, Functions

CONSTANTS Hashes,    \* transaction hashes
          Loops,     \* identities of polling loops; one that has ended may be used again
          Timeouts,  \* timeoutMs, in ticks, callers may pass
          Interval,  \* intervalMs, in ticks
          MaxTime    \* bound on the clock

ASSUME TimeAssumption ==
  /\ Timeouts \subseteq Nat
  /\ Interval \in Nat \ {0}
  /\ MaxTime \in Nat

ASSUME LoopsAssumption == "none" \notin Loops

VARIABLES
  now,                 \* Date.now()
  ledger,              \* what the network knows of each hash
  pendingTransactions, \* this.pendingTransactions: the loop registered for a hash
  loops,               \* the polling loops, running and ended
  exported             \* the state the application saved with exportState()

trackerVars == <<now, ledger, pendingTransactions, loops, exported>>

NoLoop == "none"
NoHash == "none"
Final == {"SUCCESS", "FAILED"}
Ended == {"confirmed", "cancelled", "timedOut", "error", "lost"}

\* hash, deadline and cancelled as in TrackedTransaction and its closure; wake
\* is the time at which a sleeping loop is due; asked, when it asked last (-1: never).
LoopType == [state : {"unused", "asking", "sleeping"} \cup Ended,
             hash : Hashes \cup {NoHash}, deadline : Nat, cancelled : BOOLEAN,
             wake : Nat, asked : Nat \cup {-1}]

Unused == [state |-> "unused", hash |-> NoHash, deadline |-> 0,
           cancelled |-> FALSE, wake |-> 0, asked |-> -1]

\* What the network knows of a hash, and since when.
NotFound == [status |-> "NOT_FOUND", at |-> 0]
LedgerType == [status : {"NOT_FOUND"} \cup Final, at : Nat]

Polling(l) == loops[l].state \in {"asking", "sleeping"}
LiveLoops == {l \in Loops : Polling(l)}

\* The entry of exportState() for a hash.
Entry == [hash : Hashes, deadline : Nat]

-----------------------------------------------------------------------------
(* The loop condition: poll again, or leave the loop with an error.  e is the
   loop at the moment the condition is evaluated. *)

Poll(e) == [e EXCEPT !.state = "asking", !.asked = now, !.wake = 0]

\* An ended loop keeps its hash, and the time of its last poll if it timed out.
End(e, s) == [Unused EXCEPT !.state = s, !.hash = e.hash,
                            !.asked = IF s = "timedOut" THEN e.asked ELSE -1]

\* Mutants: the condition forgets the cancellation; or the deadline.
ContinueIgnoringCancel(e) ==
  CASE now < e.deadline -> Poll(e)
    [] now >= e.deadline -> End(e, IF e.cancelled THEN "cancelled" ELSE "timedOut")

ContinueForever(e) == IF e.cancelled THEN End(e, "cancelled") ELSE Poll(e)

Continue(e) ==
  CASE e.cancelled -> End(e, "cancelled")
    [] ~e.cancelled /\ now < e.deadline -> Poll(e)
    [] ~e.cancelled /\ now >= e.deadline -> End(e, "timedOut")

\* finally: whatever ended the loop, the hash leaves the registry.
Registry(reg, h, l, e) == [reg EXCEPT ![h] = IF e.state \in Ended THEN NoLoop ELSE l]

\* Mutant: the entry survives a loop that ended with an error.
AdvanceKeepsEntry(l, e) ==
  /\ loops' = [loops EXCEPT ![l] = e]
  /\ pendingTransactions' =
       IF e.state = "error" THEN pendingTransactions
       ELSE Registry(pendingTransactions, e.hash, l, e)

Advance(l, e) ==
  /\ loops' = [loops EXCEPT ![l] = e]
  /\ pendingTransactions' = Registry(pendingTransactions, e.hash, l, e)

-----------------------------------------------------------------------------
TrackerInit ==
  /\ now = 0
  /\ ledger = [h \in Hashes |-> NotFound]
  /\ pendingTransactions = [h \in Hashes |-> NoLoop]
  /\ loops = [l \in Loops |-> Unused]
  /\ exported = {}

\* The loop of a new entry, which polls at once if its deadline allows.
Started(h, d) == Continue([Unused EXCEPT !.hash = h, !.deadline = d])

\* Mutant: the lookup of an existing entry is missing.
TrackTransactionTwice(l, h, d) ==
  /\ d <= MaxTime
  /\ ~Polling(l)
  /\ Advance(l, Started(h, d))
  /\ UNCHANGED <<now, ledger, exported>>

\* trackTransaction() and pollTransaction() of a hash that is not registered;
\* of one that is, they return its entry and change nothing.  The first poll
\* is part of the call.
TrackTransaction(l, h, d) ==
  /\ d <= MaxTime
  /\ pendingTransactions[h] = NoLoop
  /\ ~Polling(l)
  /\ Advance(l, Started(h, d))
  /\ UNCHANGED <<now, ledger, exported>>

\* The end of a poll: the result is final, or unknown and the loop goes to
\* sleep, or getTransaction() failed after its retries and the loop ends.
Sleep(l) == [loops[l] EXCEPT !.state = "sleeping",
                             !.wake = IF now + Interval < MaxTime THEN now + Interval
                                      ELSE MaxTime]

\* Mutant: only SUCCESS ends the loop.
AnswerSuccessOnly(l) ==
  /\ loops[l].state = "asking"
  /\ LET seen == ledger[loops[l].hash] IN
     \/ /\ seen.status = "SUCCESS"
        /\ Advance(l, End(loops[l], "confirmed"))
     \/ /\ seen.status # "SUCCESS" \/ seen.at >= loops[l].asked
        /\ Advance(l, Sleep(l))
     \/ Advance(l, End(loops[l], "error"))
  /\ UNCHANGED <<now, ledger, exported>>

\* getTransaction() answers.  The network read the ledger between the question
\* and the answer, so NOT_FOUND may be stale when it arrives.
Answer(l) ==
  /\ loops[l].state = "asking"
  /\ LET seen == ledger[loops[l].hash] IN
     \/ /\ seen.status \in Final
        /\ Advance(l, End(loops[l], "confirmed"))
     \/ /\ seen.status \in Final => seen.at >= loops[l].asked
        /\ Advance(l, Sleep(l))
     \/ Advance(l, End(loops[l], "error"))
  /\ UNCHANGED <<now, ledger, exported>>

\* The timer of a sleeping loop fires, on time or late.
Wake(l) ==
  /\ loops[l].state = "sleeping"
  /\ now >= loops[l].wake
  /\ Advance(l, Continue(loops[l]))
  /\ UNCHANGED <<now, ledger, exported>>

\* TrackedTransaction.cancel()
Cancel(l) ==
  /\ Polling(l) /\ ~loops[l].cancelled
  /\ loops' = [loops EXCEPT ![l].cancelled = TRUE]
  /\ UNCHANGED <<now, ledger, pendingTransactions, exported>>

\* Mutant: entries of loops that are not registered are exported too.
ExportStateAll ==
  /\ exported' = {[hash |-> loops[l].hash, deadline |-> loops[l].deadline] : l \in Loops}
  /\ UNCHANGED <<now, ledger, pendingTransactions, loops>>

\* exportState(), whose result the application saves.
ExportState ==
  /\ exported' = {[hash |-> loops[l].hash, deadline |-> loops[l].deadline] :
                    l \in {pendingTransactions[h] : h \in Hashes} \ {NoLoop}}
  /\ UNCHANGED <<now, ledger, pendingTransactions, loops>>

Restorable(x) == pendingTransactions[x.hash] = NoLoop /\ x.deadline > now

\* Mutant: a restored transaction gets the default timeout, counted from now.
RestoreRenewed(x) == Started(x.hash, now + x.deadline)

Restore(x) == Started(x.hash, x.deadline)

\* Mutant: a registered hash is polled again.
ImportStateRestarts ==
  LET todo == {x \in exported : x.deadline > now}
  IN  \E f \in Injection(todo, {l \in Loops : ~Polling(l)}) :
        /\ loops' = [l \in Loops |-> IF l \in Range(f) THEN Restore(Inverse(f, todo, Range(f))[l])
                                     ELSE loops[l]]
        /\ pendingTransactions' =
             [h \in Hashes |-> IF \E x \in todo : x.hash = h
                               THEN f[CHOOSE x \in todo : x.hash = h]
                               ELSE pendingTransactions[h]]
        /\ UNCHANGED <<now, ledger, exported>>

\* importState() of the saved state: an entry is skipped when its hash is
\* registered or its deadline has passed, and polled again otherwise.
ImportState ==
  LET todo == {x \in exported : Restorable(x)}
  IN  \E f \in Injection(todo, {l \in Loops : ~Polling(l)}) :
        /\ loops' = [l \in Loops |-> IF l \in Range(f) THEN Restore(Inverse(f, todo, Range(f))[l])
                                     ELSE loops[l]]
        /\ pendingTransactions' =
             [h \in Hashes |-> IF \E x \in todo : x.hash = h
                               THEN f[CHOOSE x \in todo : x.hash = h]
                               ELSE pendingTransactions[h]]
        /\ UNCHANGED <<now, ledger, exported>>

\* A page refresh: the client is gone, and with it the promises of its loops.
Refresh ==
  /\ loops' = [l \in Loops |->
                 IF Polling(l) THEN End(loops[l], "lost") ELSE loops[l]]
  /\ pendingTransactions' = [h \in Hashes |-> NoLoop]
  /\ UNCHANGED <<now, ledger, exported>>

\* The network executes a transaction.
Finalize(h, s) ==
  /\ ledger[h] = NotFound
  /\ ledger' = [ledger EXCEPT ![h] = [status |-> s, at |-> now]]
  /\ UNCHANGED <<now, pendingTransactions, loops, exported>>

TimePasses ==
  /\ now < MaxTime
  /\ now' = now + 1
  /\ UNCHANGED <<ledger, pendingTransactions, loops, exported>>

TrackerNext ==
  \/ \E l \in Loops, h \in Hashes, t \in Timeouts : TrackTransaction(l, h, now + t)
  \/ \E l \in Loops : Answer(l) \/ Wake(l) \/ Cancel(l)
  \/ ExportState
  \/ ImportState
  \/ Refresh
  \/ \E h \in Hashes, s \in Final : Finalize(h, s)
  \/ TimePasses

TrackerSpec == TrackerInit /\ [][TrackerNext]_trackerVars

\* Every request is answered, and time passes and fires the timers.
TrackerFairness ==
  /\ \A l \in Loops : WF_trackerVars(Answer(l)) /\ WF_trackerVars(Wake(l))
  /\ WF_trackerVars(TimePasses)

TrackerFairSpec == TrackerSpec /\ TrackerFairness

-----------------------------------------------------------------------------
(* Every variable has its type. *)
TrackerTypeOK ==
  /\ now \in 0..MaxTime
  /\ ledger \in [Hashes -> LedgerType]
  /\ pendingTransactions \in [Hashes -> Loops \cup {NoLoop}]
  /\ loops \in [Loops -> LoopType]
  /\ exported \subseteq Entry

(* The registry holds exactly the loops that run: one loop per hash, nothing
   left behind by a loop that ended in any way, and no running loop that
   exportState() and getPendingTransactions() would miss. *)
RegistryIsLiveLoops ==
  /\ \A l \in LiveLoops : pendingTransactions[loops[l].hash] = l
  /\ \A h \in Hashes : pendingTransactions[h] # NoLoop =>
       pendingTransactions[h] \in LiveLoops /\ loops[pendingTransactions[h]].hash = h

(* A caller is told of a timeout only when the transaction was not yet final
   the last time the loop asked: a result that a poll could see is never
   dropped, whether the transaction succeeded or failed. *)
NoFalseTimeout ==
  \A l \in Loops :
    /\ loops[l].state = "timedOut"
    /\ loops[l].asked # -1
    /\ ledger[loops[l].hash].status \in Final
    => ledger[loops[l].hash].at >= loops[l].asked

(* After cancel() a loop asks the network nothing more, whenever the call
   comes: during a request, during a sleep, or after a late timer. *)
CancelStopsPolling ==
  [][\A l \in Loops : loops[l].cancelled =>
        /\ loops'[l].asked \in {loops[l].asked, -1}
        /\ loops[l].state # "asking" => loops'[l].state # "asking"]_trackerVars

(* importState() brings back every saved transaction that still has time, with
   its own deadline, and leaves alone those the client already polls. *)
RefreshKeepsPending ==
  [][ImportState =>
       /\ \A x \in exported : x.deadline > now =>
            LET l == pendingTransactions'[x.hash] IN
            /\ l # NoLoop
            /\ pendingTransactions[x.hash] = NoLoop => loops'[l].deadline = x.deadline
       /\ \A h \in Hashes : pendingTransactions[h] # NoLoop =>
            pendingTransactions'[h] = pendingTransactions[h]]_trackerVars

(* The promise of a tracked transaction is settled, whatever the network
   answers and whether or not the caller cancels. *)
EveryLoopEnds == \A l \in Loops : Polling(l) ~> ~Polling(l)

(* The comment on TrackedTransaction.cancel (stellarClient.ts:140): it stops
   the loop "without rejecting outstanding awaiters". *)
CancelDoesNotReject == \A l \in Loops : loops[l].state # "cancelled"
=============================================================================
