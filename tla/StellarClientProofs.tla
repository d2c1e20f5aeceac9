------------------------- MODULE StellarClientProofs -------------------------
(***************************************************************************)
(* Theorems about what a client follows: the transactions of its registry  *)
(* (TransactionTracker, for any sets of hashes, loops and timeouts, any    *)
(* interval and any bound on the clock), the packages it submits           *)
(* (OfflineSubmission, for any number of overlapping calls, any lifetime   *)
(* of the cache and any array of transactions), and its subscriptions      *)
(* (SubscriptionService and the WebSocketManager it is made of, for any    *)
(* sockets, subscriptions, delays and numbers of attempts).                *)
(***************************************************************************)
EXTENDS TransactionTracker, OfflineSubmission, SubscriptionService,
        FiniteSetTheorems, FunctionTheorems, TLAPS

-----------------------------------------------------------------------------
(* The registry of pending transactions *)

\* A loop, as the code may leave it: it runs for a hash, only a running one is
\* marked cancelled, it asked in the past, and what it does not know of its
\* hash was not final when it asked.
FitLoop(e) ==
  /\ e \in LoopType
  /\ e.state # "unused" => e.hash \in Hashes
  /\ e.cancelled => e.state \in {"asking", "sleeping"}
  /\ e.asked <= now
  /\ /\ e.state \in {"sleeping", "timedOut"}
     /\ e.asked # -1
     /\ ledger[e.hash].status \in Final
     => ledger[e.hash].at >= e.asked

LoopsFit == \A l \in Loops : FitLoop(loops[l])

\* The saved state has one entry for a hash.
ExportedOnce == \A x, y \in exported : x.hash = y.hash => x = y

TrackerIInv == TrackerTypeOK /\ RegistryIsLiveLoops /\ LoopsFit /\ ExportedOnce

-----------------------------------------------------------------------------
(* Lemmas about one turn of a loop *)

LEMMA UnusedTyped ==
  /\ Unused \in LoopType
  /\ Unused.state = "unused" /\ Unused.asked = -1 /\ Unused.cancelled = FALSE
  BY DEF Unused, LoopType

\* What ends keeps its hash and satisfies the invariant of a loop.
LEMMA EndFits ==
  ASSUME TrackerIInv, NEW e, FitLoop(e), e.hash \in Hashes, NEW s \in Ended,
         s = "timedOut" => /\ e.state \in {"sleeping", "unused"}
                           /\ e.state = "unused" => e.asked = -1
  PROVE  /\ FitLoop(End(e, s))
         /\ End(e, s).hash = e.hash /\ End(e, s).state = s
         /\ End(e, s).asked \in {e.asked, -1}
<1>1. now \in Nat /\ e \in LoopType
  BY TimeAssumption DEF TrackerIInv, TrackerTypeOK, FitLoop
<1>2. /\ End(e, s) \in LoopType
      /\ End(e, s).hash = e.hash /\ End(e, s).state = s /\ ~End(e, s).cancelled
      /\ End(e, s).asked = IF s = "timedOut" THEN e.asked ELSE -1
  BY <1>1, UnusedTyped DEF End, LoopType
<1> QED
  BY <1>1, <1>2 DEF FitLoop, Ended, LoopType

\* So does what polls.
LEMMA PollFits ==
  ASSUME TrackerIInv, NEW e, FitLoop(e), e.hash \in Hashes
  PROVE  /\ FitLoop(Poll(e))
         /\ Poll(e).hash = e.hash /\ Poll(e).state = "asking" /\ Poll(e).deadline = e.deadline
<1>1. now \in Nat /\ e \in LoopType
  BY TimeAssumption DEF TrackerIInv, TrackerTypeOK, FitLoop
<1>2. /\ Poll(e) \in LoopType
      /\ Poll(e).hash = e.hash /\ Poll(e).state = "asking" /\ Poll(e).deadline = e.deadline
      /\ Poll(e).asked = now
  BY <1>1 DEF Poll, LoopType
<1> QED
  BY <1>1, <1>2 DEF FitLoop

\* The condition of the loop, evaluated after a sleep or for a new entry.
LEMMA ContinueFits ==
  ASSUME TrackerIInv, NEW e, FitLoop(e), e.hash \in Hashes,
         e.state \in {"sleeping", "unused"}, e.state = "unused" => e.asked = -1
  PROVE  /\ FitLoop(Continue(e))
         /\ Continue(e).hash = e.hash /\ Continue(e).state \in {"asking"} \cup Ended
         /\ e.cancelled => Continue(e).asked = -1 /\ Continue(e).state = "cancelled"
         /\ ~e.cancelled /\ now < e.deadline => Continue(e) = Poll(e)
<1>0. now \in Nat /\ e.deadline \in Nat /\ e.cancelled \in BOOLEAN
  BY TimeAssumption DEF TrackerIInv, TrackerTypeOK, FitLoop, LoopType
<1>1. CASE e.cancelled
  <2>1. Continue(e) = End(e, "cancelled")
    BY <1>1 DEF Continue
  <2>2. End(e, "cancelled").asked = -1
    BY UnusedTyped DEF End, LoopType
  <2> QED
    BY <1>1, <2>1, <2>2, EndFits DEF Ended
<1>2. CASE ~e.cancelled /\ now < e.deadline
  <2>1. Continue(e) = Poll(e)
    BY <1>0, <1>2 DEF Continue
  <2> QED
    BY <1>2, <2>1, PollFits
<1>3. CASE ~e.cancelled /\ now >= e.deadline
  <2>1. Continue(e) = End(e, "timedOut")
    BY <1>0, <1>3 DEF Continue
  <2> QED
    BY <1>0, <1>3, <2>1, EndFits DEF Ended
<1> QED
  BY <1>0, <1>1, <1>2, <1>3

\* A new entry, tracked or restored.
LEMMA StartedFits ==
  ASSUME TrackerIInv, NEW h \in Hashes, NEW d \in Nat
  PROVE  /\ FitLoop(Started(h, d))
         /\ Started(h, d).hash = h /\ Started(h, d).state \in {"asking"} \cup Ended
         /\ now < d => Started(h, d).state = "asking" /\ Started(h, d).deadline = d
<1> DEFINE e == [Unused EXCEPT !.hash = h, !.deadline = d]
<1>1. /\ e \in LoopType /\ e.hash = h /\ e.deadline = d
      /\ e.state = "unused" /\ e.asked = -1 /\ ~e.cancelled
  BY UnusedTyped DEF LoopType
<1>2. FitLoop(e)
  BY <1>1, TimeAssumption DEF FitLoop, TrackerIInv, TrackerTypeOK
<1>3. Started(h, d) = Continue(e)
  BY DEF Started
<1> HIDE DEF e
<1> QED
  BY <1>1, <1>2, <1>3, ContinueFits, PollFits

\* Sleep() of a loop whose answer said NOT_FOUND.
LEMMA SleepFits ==
  ASSUME TrackerIInv, NEW l \in Loops, loops[l].state = "asking",
         ledger[loops[l].hash].status \in Final => ledger[loops[l].hash].at >= loops[l].asked
  PROVE  /\ FitLoop(Sleep(l))
         /\ Sleep(l).hash = loops[l].hash /\ Sleep(l).state = "sleeping"
         /\ Sleep(l).asked = loops[l].asked
<1>1. /\ FitLoop(loops[l]) /\ loops[l] \in LoopType /\ now \in Nat
      /\ (IF now + Interval < MaxTime THEN now + Interval ELSE MaxTime) \in Nat
  BY TimeAssumption DEF TrackerIInv, LoopsFit, FitLoop, TrackerTypeOK
<1>2. /\ Sleep(l) \in LoopType
      /\ Sleep(l).hash = loops[l].hash /\ Sleep(l).state = "sleeping"
      /\ Sleep(l).asked = loops[l].asked /\ Sleep(l).cancelled = loops[l].cancelled
  BY <1>1 DEF Sleep, LoopType
<1> QED
  BY <1>1, <1>2 DEF FitLoop

-----------------------------------------------------------------------------
(* The invariant *)

LEMMA TrackerInvInit == TrackerInit => TrackerIInv
<1> SUFFICES ASSUME TrackerInit PROVE TrackerIInv
  OBVIOUS
<1>1. Unused \in LoopType /\ NotFound \in LedgerType
  BY DEF Unused, LoopType, NotFound, LedgerType
<1>2. TrackerTypeOK
  BY <1>1, TimeAssumption DEF TrackerInit, TrackerTypeOK
<1>3. RegistryIsLiveLoops
  BY DEF TrackerInit, RegistryIsLiveLoops, LiveLoops, Polling, Unused
<1>4. LoopsFit /\ ExportedOnce
  BY <1>1 DEF TrackerInit, LoopsFit, FitLoop, ExportedOnce, Unused
<1> QED
  BY <1>2, <1>3, <1>4 DEF TrackerIInv

\* One turn of a loop that polls its hash, or that no loop polls the hash of.
LEMMA AdvanceInv ==
  ASSUME TrackerIInv, NEW l \in Loops, NEW e, FitLoop(e), e.state # "unused",
         Polling(l) => e.hash = loops[l].hash,
         ~Polling(l) => pendingTransactions[e.hash] = NoLoop,
         Advance(l, e), UNCHANGED <<now, ledger, exported>>
  PROVE  TrackerIInv'
<1>0. /\ e \in LoopType /\ e.hash \in Hashes
      /\ loops \in [Loops -> LoopType] /\ pendingTransactions \in [Hashes -> Loops \cup {NoLoop}]
  BY DEF FitLoop, TrackerIInv, TrackerTypeOK
<1>1. loops' = [loops EXCEPT ![l] = e]
  BY DEF Advance
<1>2. pendingTransactions' = [pendingTransactions EXCEPT
         ![e.hash] = IF e.state \in Ended THEN NoLoop ELSE l]
  BY DEF Advance, Registry
<1>3. e.state \in Ended \/ e.state \in {"asking", "sleeping"}
  BY <1>0 DEF LoopType
<1>4. TrackerTypeOK'
  BY <1>0, <1>1, <1>2 DEF TrackerIInv, TrackerTypeOK
<1>5. LoopsFit'
  BY <1>0, <1>1 DEF TrackerIInv, LoopsFit, FitLoop
<1>6. ExportedOnce'
  BY DEF TrackerIInv, ExportedOnce
<1>7. RegistryIsLiveLoops'
  <2>1. ASSUME NEW k \in Loops, loops'[k].state \in {"asking", "sleeping"}
        PROVE  pendingTransactions'[loops'[k].hash] = k
    <3>1. CASE k = l
      BY <1>0, <1>1, <1>2, <2>1, <3>1 DEF Ended
    <3>2. CASE k # l
      <4>1. loops'[k] = loops[k] /\ pendingTransactions[loops[k].hash] = k
            /\ loops[k].hash \in Hashes
        BY <1>0, <1>1, <2>1, <3>2
           DEF TrackerIInv, RegistryIsLiveLoops, LiveLoops, Polling, LoopsFit, FitLoop
      <4>2. loops[k].hash # e.hash
        BY <4>1, <3>2, LoopsAssumption
           DEF TrackerIInv, RegistryIsLiveLoops, LiveLoops, Polling, NoLoop
      <4> QED
        BY <1>0, <1>2, <4>1, <4>2
    <3> QED
      BY <3>1, <3>2
  <2>2. ASSUME NEW h \in Hashes, pendingTransactions'[h] # NoLoop
        PROVE  /\ pendingTransactions'[h] \in Loops
               /\ loops'[pendingTransactions'[h]].state \in {"asking", "sleeping"}
               /\ loops'[pendingTransactions'[h]].hash = h
    <3>1. CASE h = e.hash
      BY <1>0, <1>1, <1>2, <1>3, <2>2, <3>1
    <3>2. CASE h # e.hash
      <4> DEFINE k == pendingTransactions[h]
      <4>1. pendingTransactions'[h] = k /\ k # NoLoop
        BY <1>0, <1>2, <2>2, <3>2
      <4>2. k \in Loops /\ loops[k].state \in {"asking", "sleeping"} /\ loops[k].hash = h
        BY <4>1 DEF TrackerIInv, RegistryIsLiveLoops, LiveLoops, Polling
      <4>3. k # l
        BY <4>2, <3>2 DEF Polling
      <4> QED
        BY <1>0, <1>1, <4>1, <4>2, <4>3
    <3> QED
      BY <3>1, <3>2
  <2> QED
    BY <2>1, <2>2 DEF RegistryIsLiveLoops, LiveLoops, Polling
<1> QED
  BY <1>4, <1>5, <1>6, <1>7 DEF TrackerIInv

LEMMA TrackInv ==
  ASSUME TrackerIInv, NEW l \in Loops, NEW h \in Hashes, NEW t \in Timeouts,
         TrackTransaction(l, h, now + t)
  PROVE  TrackerIInv'
<1> DEFINE d == now + t
<1>1. d \in Nat
  BY TimeAssumption DEF TrackerIInv, TrackerTypeOK
<1> HIDE DEF d
<1>2. /\ FitLoop(Started(h, d)) /\ Started(h, d).hash = h
      /\ Started(h, d).state # "unused"
  BY <1>1, StartedFits DEF Ended
<1>3. /\ pendingTransactions[h] = NoLoop /\ ~Polling(l)
      /\ Advance(l, Started(h, d)) /\ UNCHANGED <<now, ledger, exported>>
  BY DEF TrackTransaction, d
<1> QED
  BY <1>2, <1>3, AdvanceInv

LEMMA AnswerInv ==
  ASSUME TrackerIInv, NEW l \in Loops, Answer(l)
  PROVE  TrackerIInv'
<1> DEFINE seen == ledger[loops[l].hash]
<1>0. /\ FitLoop(loops[l]) /\ loops[l].hash \in Hashes
      /\ Polling(l) /\ loops[l].state = "asking"
      /\ UNCHANGED <<now, ledger, exported>>
  BY DEF Answer, Polling, TrackerIInv, LoopsFit, FitLoop
<1>1. CASE Advance(l, End(loops[l], "confirmed"))
  <2>1. FitLoop(End(loops[l], "confirmed")) /\ End(loops[l], "confirmed").hash = loops[l].hash
        /\ End(loops[l], "confirmed").state # "unused"
    BY <1>0, EndFits DEF Ended
  <2> QED
    BY <1>0, <1>1, <2>1, AdvanceInv
<1>2. CASE Advance(l, End(loops[l], "error"))
  <2>1. FitLoop(End(loops[l], "error")) /\ End(loops[l], "error").hash = loops[l].hash
        /\ End(loops[l], "error").state # "unused"
    BY <1>0, EndFits DEF Ended
  <2> QED
    BY <1>0, <1>2, <2>1, AdvanceInv
<1>3. CASE (seen.status \in Final => seen.at >= loops[l].asked) /\ Advance(l, Sleep(l))
  BY <1>0, <1>3, SleepFits, AdvanceInv
<1> QED
  BY <1>1, <1>2, <1>3 DEF Answer

LEMMA WakeInv ==
  ASSUME TrackerIInv, NEW l \in Loops, Wake(l)
  PROVE  TrackerIInv'
<1>1. /\ FitLoop(loops[l]) /\ loops[l].hash \in Hashes
      /\ Polling(l) /\ loops[l].state = "sleeping"
      /\ Advance(l, Continue(loops[l])) /\ UNCHANGED <<now, ledger, exported>>
  BY DEF Wake, Polling, TrackerIInv, LoopsFit, FitLoop
<1>2. /\ FitLoop(Continue(loops[l])) /\ Continue(loops[l]).hash = loops[l].hash
      /\ Continue(loops[l]).state # "unused"
  BY <1>1, ContinueFits DEF Ended
<1> QED
  BY <1>1, <1>2, AdvanceInv

LEMMA CancelInv ==
  ASSUME TrackerIInv, NEW l \in Loops, Cancel(l)
  PROVE  TrackerIInv'
<1>0. loops \in [Loops -> LoopType]
  BY DEF TrackerIInv, TrackerTypeOK
<1>1. /\ loops' = [loops EXCEPT ![l].cancelled = TRUE]
      /\ UNCHANGED <<now, ledger, pendingTransactions, exported>> /\ Polling(l)
  BY DEF Cancel
<1>2. TrackerTypeOK'
  BY <1>0, <1>1 DEF TrackerIInv, TrackerTypeOK, LoopType
<1>3. ASSUME NEW k \in Loops
      PROVE  /\ loops'[k].state = loops[k].state /\ loops'[k].hash = loops[k].hash
             /\ loops'[k].asked = loops[k].asked
             /\ loops'[k].cancelled => loops[k].state \in {"asking", "sleeping"}
  BY <1>0, <1>1 DEF TrackerIInv, LoopsFit, FitLoop, LoopType, Polling
<1>4. LoopsFit'
  BY <1>1, <1>2, <1>3 DEF TrackerIInv, LoopsFit, FitLoop, TrackerTypeOK
<1>5. RegistryIsLiveLoops'
  BY <1>1, <1>3 DEF TrackerIInv, TrackerTypeOK, RegistryIsLiveLoops, LiveLoops, Polling
<1>6. ExportedOnce'
  BY <1>1 DEF TrackerIInv, ExportedOnce
<1> QED
  BY <1>2, <1>4, <1>5, <1>6 DEF TrackerIInv

\* exportState() saves one entry for each running loop: the loop determines the
\* hash, and the hash the loop.
LEMMA ExportInv ==
  ASSUME TrackerIInv, ExportState
  PROVE  TrackerIInv'
<1> DEFINE S == {pendingTransactions[h] : h \in Hashes} \ {NoLoop}
<1>1. /\ exported' = {[hash |-> loops[l].hash, deadline |-> loops[l].deadline] : l \in S}
      /\ UNCHANGED <<now, ledger, pendingTransactions, loops>>
  BY DEF ExportState
<1>2. \A l \in S : /\ l \in Loops /\ loops[l] \in LoopType /\ loops[l].hash \in Hashes
                   /\ pendingTransactions[loops[l].hash] = l
  BY DEF TrackerIInv, TrackerTypeOK, RegistryIsLiveLoops, LiveLoops, LoopsFit, FitLoop
<1>3. \A l \in S : [hash |-> loops[l].hash, deadline |-> loops[l].deadline] \in Entry
  BY <1>2 DEF Entry, LoopType
<1> HIDE DEF S
<1>4. exported' \subseteq Entry
  BY <1>1, <1>3
<1>5. ExportedOnce'
  BY <1>1, <1>2 DEF ExportedOnce
<1>6. TrackerTypeOK'
  BY <1>1, <1>4 DEF TrackerIInv, TrackerTypeOK
<1>7. RegistryIsLiveLoops' /\ LoopsFit'
  BY <1>1 DEF TrackerIInv, RegistryIsLiveLoops, LoopsFit, FitLoop, LiveLoops, Polling
<1> QED
  BY <1>5, <1>6, <1>7 DEF TrackerIInv

\* What importState() does, entry by entry: f is the loop of an entry.
Todo == {x \in exported : Restorable(x)}

ImportedBy(f) ==
  /\ \A x \in Todo :
       /\ x \in Entry /\ pendingTransactions[x.hash] = NoLoop /\ now < x.deadline
       /\ f[x] \in Loops /\ ~Polling(f[x])
       /\ pendingTransactions'[x.hash] = f[x]
       /\ loops'[f[x]] = Started(x.hash, x.deadline)
  /\ \A x, y \in Todo : f[x] = f[y] \/ x.hash = y.hash => x = y
  /\ \A h \in Hashes : (\E x \in Todo : x.hash = h)
                       \/ pendingTransactions'[h] = pendingTransactions[h]
  /\ \A l \in Loops : (\E x \in Todo : f[x] = l) \/ loops'[l] = loops[l]
  /\ pendingTransactions' \in [Hashes -> Loops \cup {NoLoop}]
  /\ loops' = [l \in Loops |-> loops'[l]]
  /\ UNCHANGED <<now, ledger, exported>>

LEMMA ImportEffect ==
  ASSUME TrackerIInv, ImportState
  PROVE  \E f : ImportedBy(f)
<1> DEFINE free == {l \in Loops : ~Polling(l)}
<1>1. PICK f \in Injection(Todo, free) :
        /\ loops' = [l \in Loops |-> IF l \in Range(f)
                                     THEN Restore(Inverse(f, Todo, Range(f))[l])
                                     ELSE loops[l]]
        /\ pendingTransactions' =
             [h \in Hashes |-> IF \E x \in Todo : x.hash = h
                               THEN f[CHOOSE x \in Todo : x.hash = h]
                               ELSE pendingTransactions[h]]
        /\ UNCHANGED <<now, ledger, exported>>
  BY DEF ImportState, Todo
<1>2. f \in [Todo -> free] /\ \A x, y \in Todo : f[x] = f[y] => x = y
  BY Fun_InjectionProperties
<1>3. \A x \in Todo : x \in Entry /\ pendingTransactions[x.hash] = NoLoop /\ now < x.deadline
  BY TimeAssumption DEF TrackerIInv, TrackerTypeOK, Todo, Restorable, Entry
<1>4. \A x, y \in Todo : x.hash = y.hash => x = y
  BY DEF TrackerIInv, ExportedOnce, Todo
<1>5. \A x \in Todo : x.hash \in Hashes /\ x.deadline \in Nat
  BY <1>3 DEF Entry
<1>6. \A x \in Todo : f[x] \in Loops /\ ~Polling(f[x]) /\ f[x] \in Range(f)
  BY <1>2 DEF Range
<1>7. \A l \in Range(f) : \E x \in Todo : f[x] = l
  BY <1>2 DEF Range
<1>8. ASSUME NEW x \in Todo
      PROVE  Inverse(f, Todo, Range(f))[f[x]] = x
  <2>1. Inverse(f, Todo, Range(f))[f[x]] =
          CHOOSE y \in Todo : f[x] \in Range(f) => f[y] = f[x]
    BY <1>6 DEF Inverse
  <2>2. (CHOOSE y \in Todo : f[x] \in Range(f) => f[y] = f[x]) = x
    BY <1>2, <1>6
  <2> QED
    BY <2>1, <2>2
<1>9. ASSUME NEW x \in Todo
      PROVE  (CHOOSE y \in Todo : y.hash = x.hash) = x
  BY <1>4
<1> HIDE DEF free
<1>10. \A x \in Todo : loops'[f[x]] = Started(x.hash, x.deadline)
  BY <1>1, <1>6, <1>8 DEF Restore
<1>11. \A x \in Todo : pendingTransactions'[x.hash] = f[x]
  BY <1>1, <1>5, <1>9
<1>12. \A h \in Hashes : (\E x \in Todo : x.hash = h)
                         \/ pendingTransactions'[h] = pendingTransactions[h]
  BY <1>1
<1>13. \A l \in Loops : (\E x \in Todo : f[x] = l) \/ loops'[l] = loops[l]
  BY <1>1, <1>7
<1>14. pendingTransactions' \in [Hashes -> Loops \cup {NoLoop}]
  <2>1. \A h \in Hashes : pendingTransactions'[h] \in Loops \cup {NoLoop}
    BY <1>6, <1>11, <1>12 DEF TrackerIInv, TrackerTypeOK
  <2> QED
    BY <1>1, <2>1
<1>15. loops' = [l \in Loops |-> loops'[l]]
  BY <1>1
<1>16. UNCHANGED <<now, ledger, exported>>
  BY <1>1
<1>17. \A x, y \in Todo : f[x] = f[y] \/ x.hash = y.hash => x = y
  BY <1>2, <1>4
<1>18. ImportedBy(f)
  BY <1>3, <1>6, <1>10, <1>11, <1>12, <1>13, <1>14, <1>15, <1>16, <1>17 DEF ImportedBy
<1> QED
  BY <1>18

LEMMA ImportInv ==
  ASSUME TrackerIInv, ImportState
  PROVE  TrackerIInv'
<1>1. PICK f : ImportedBy(f)
  BY ImportEffect
<1>2. ASSUME NEW x \in Todo
      PROVE  /\ x.hash \in Hashes /\ FitLoop(loops'[f[x]])
             /\ loops'[f[x]].hash = x.hash /\ loops'[f[x]].state = "asking"
  <2>1. x.hash \in Hashes /\ x.deadline \in Nat
    BY <1>1 DEF ImportedBy, Entry
  <2> QED
    BY <1>1, <2>1, StartedFits DEF ImportedBy
<1>3. ASSUME NEW l \in Loops
      PROVE  FitLoop(loops'[l]) /\ loops'[l] \in LoopType
  BY <1>1, <1>2 DEF ImportedBy, TrackerIInv, LoopsFit, FitLoop
<1>u. UNCHANGED <<now, ledger, exported>>
  BY <1>1 DEF ImportedBy
<1>4. TrackerTypeOK'
  <2>1. /\ loops' = [l \in Loops |-> loops'[l]]
        /\ pendingTransactions' \in [Hashes -> Loops \cup {NoLoop}]
    BY <1>1 DEF ImportedBy
  <2>2. loops' \in [Loops -> LoopType]
    BY <1>3, <2>1
  <2> QED
    BY <1>u, <2>1, <2>2 DEF TrackerIInv, TrackerTypeOK
<1>5. LoopsFit'
  BY <1>3, <1>u DEF LoopsFit, FitLoop
<1>6. ExportedOnce'
  BY <1>u DEF TrackerIInv, ExportedOnce
<1>7. ASSUME NEW l \in Loops, loops'[l].state \in {"asking", "sleeping"}
      PROVE  pendingTransactions'[loops'[l].hash] = l
  <2>1. CASE \E x \in Todo : f[x] = l
    BY <1>1, <1>2, <2>1 DEF ImportedBy
  <2>2. CASE ~\E x \in Todo : f[x] = l
    <3>1. loops'[l] = loops[l]
      BY <1>1, <2>2 DEF ImportedBy
    <3>2. pendingTransactions[loops[l].hash] = l /\ loops[l].hash \in Hashes /\ l # NoLoop
      BY <1>7, <3>1, LoopsAssumption
         DEF TrackerIInv, RegistryIsLiveLoops, LiveLoops, Polling, LoopsFit, FitLoop, NoLoop
    <3>3. ~\E x \in Todo : x.hash = loops[l].hash
      BY <1>1, <3>2 DEF ImportedBy
    <3> QED
      BY <1>1, <3>1, <3>2, <3>3 DEF ImportedBy
  <2> QED
    BY <2>1, <2>2
<1>8. ASSUME NEW h \in Hashes, pendingTransactions'[h] # NoLoop
      PROVE  /\ pendingTransactions'[h] \in Loops
             /\ loops'[pendingTransactions'[h]].state \in {"asking", "sleeping"}
             /\ loops'[pendingTransactions'[h]].hash = h
  <2>1. CASE \E x \in Todo : x.hash = h
    BY <1>1, <1>2, <2>1 DEF ImportedBy
  <2>2. CASE ~\E x \in Todo : x.hash = h
    <3> DEFINE k == pendingTransactions[h]
    <3>1. pendingTransactions'[h] = k /\ k # NoLoop
      BY <1>1, <1>8, <2>2 DEF ImportedBy
    <3>2. k \in Loops /\ loops[k].state \in {"asking", "sleeping"} /\ loops[k].hash = h
      BY <3>1 DEF TrackerIInv, RegistryIsLiveLoops, LiveLoops, Polling
    <3>3. ~\E x \in Todo : f[x] = k
      BY <1>1, <3>2 DEF ImportedBy, Polling
    <3> HIDE DEF k
    <3>4. loops'[k] = loops[k]
      BY <1>1, <3>2, <3>3 DEF ImportedBy
    <3> QED
      BY <3>1, <3>2, <3>4
  <2> QED
    BY <2>1, <2>2
<1>9. RegistryIsLiveLoops'
  BY <1>7, <1>8 DEF RegistryIsLiveLoops, LiveLoops, Polling
<1> QED
  BY <1>4, <1>5, <1>6, <1>9 DEF TrackerIInv

LEMMA RefreshInv ==
  ASSUME TrackerIInv, Refresh
  PROVE  TrackerIInv'
<1>1. /\ loops' = [l \in Loops |-> IF Polling(l) THEN End(loops[l], "lost") ELSE loops[l]]
      /\ pendingTransactions' = [h \in Hashes |-> NoLoop]
      /\ UNCHANGED <<now, ledger, exported>>
  BY DEF Refresh
<1>2. ASSUME NEW l \in Loops
      PROVE  /\ FitLoop(loops'[l]) /\ loops'[l] \in LoopType
             /\ loops'[l].state \notin {"asking", "sleeping"}
  <2>1. FitLoop(loops[l])
    BY DEF TrackerIInv, LoopsFit
  <2>2. CASE Polling(l)
    <3>1. loops'[l] = End(loops[l], "lost")
      BY <1>1, <2>2
    <3>2. FitLoop(End(loops[l], "lost")) /\ End(loops[l], "lost").state = "lost"
      BY <2>1, <2>2, EndFits DEF Ended, FitLoop, Polling
    <3> QED
      BY <3>1, <3>2 DEF FitLoop
  <2>3. CASE ~Polling(l)
    BY <1>1, <2>1, <2>3 DEF FitLoop, Polling
  <2> QED
    BY <2>2, <2>3
<1>3. TrackerTypeOK'
  BY <1>1, <1>2 DEF TrackerIInv, TrackerTypeOK
<1>4. LoopsFit'
  BY <1>1, <1>2 DEF LoopsFit, FitLoop
<1>5. RegistryIsLiveLoops'
  BY <1>1, <1>2 DEF RegistryIsLiveLoops, LiveLoops, Polling
<1>6. ExportedOnce'
  BY <1>1 DEF TrackerIInv, ExportedOnce
<1> QED
  BY <1>3, <1>4, <1>5, <1>6 DEF TrackerIInv

\* A transaction becomes final after every question asked so far.
LEMMA FinalizeInv ==
  ASSUME TrackerIInv, NEW h \in Hashes, NEW s \in Final, Finalize(h, s)
  PROVE  TrackerIInv'
<1>1. /\ ledger[h] = NotFound
      /\ ledger' = [ledger EXCEPT ![h] = [status |-> s, at |-> now]]
      /\ UNCHANGED <<now, pendingTransactions, loops, exported>>
  BY DEF Finalize
<1>2. now \in Nat /\ [status |-> s, at |-> now] \in LedgerType
  BY TimeAssumption DEF TrackerIInv, TrackerTypeOK, LedgerType
<1>3. TrackerTypeOK'
  BY <1>1, <1>2 DEF TrackerIInv, TrackerTypeOK
<1>4. LoopsFit'
  <2> SUFFICES ASSUME NEW l \in Loops PROVE FitLoop(loops[l])'
    BY DEF LoopsFit
  <2>1. FitLoop(loops[l])
    BY DEF TrackerIInv, LoopsFit
  <2>2. CASE loops[l].hash = h
    <3>1. h \in DOMAIN ledger => ledger'[h].at = now
      BY <1>1
    <3>2. ledger'[h].at = now
      BY <3>1 DEF TrackerIInv, TrackerTypeOK
    <3> QED
      BY <1>1, <1>2, <2>1, <2>2, <3>2 DEF FitLoop, LoopType
  <2>3. CASE loops[l].hash # h
    BY <1>1, <2>1, <2>3 DEF FitLoop, TrackerIInv, TrackerTypeOK
  <2> QED
    BY <2>2, <2>3
<1>5. RegistryIsLiveLoops' /\ ExportedOnce'
  BY <1>1 DEF TrackerIInv, RegistryIsLiveLoops, ExportedOnce, LiveLoops, Polling
<1> QED
  BY <1>3, <1>4, <1>5 DEF TrackerIInv

LEMMA TickInv ==
  ASSUME TrackerIInv, TimePasses
  PROVE  TrackerIInv'
<1>1. TrackerTypeOK'
  BY TimeAssumption DEF TrackerIInv, TrackerTypeOK, TimePasses
<1>2. LoopsFit'
  BY TimeAssumption DEF TrackerIInv, TrackerTypeOK, LoopsFit, FitLoop, LoopType, TimePasses
<1>3. RegistryIsLiveLoops' /\ ExportedOnce'
  BY DEF TimePasses, TrackerIInv, RegistryIsLiveLoops, ExportedOnce, LiveLoops, Polling
<1> QED
  BY <1>1, <1>2, <1>3 DEF TrackerIInv

LEMMA TrackerInvStep == TrackerIInv /\ [TrackerNext]_trackerVars => TrackerIInv'
<1> SUFFICES ASSUME TrackerIInv, [TrackerNext]_trackerVars PROVE TrackerIInv'
  OBVIOUS
<1>1. ASSUME NEW l \in Loops, NEW h \in Hashes, NEW t \in Timeouts,
             TrackTransaction(l, h, now + t)
      PROVE  TrackerIInv'
  BY <1>1, TrackInv
<1>2. ASSUME NEW l \in Loops, Answer(l)
      PROVE  TrackerIInv'
  BY <1>2, AnswerInv
<1>3. ASSUME NEW l \in Loops, Wake(l)
      PROVE  TrackerIInv'
  BY <1>3, WakeInv
<1>4. ASSUME NEW l \in Loops, Cancel(l)
      PROVE  TrackerIInv'
  BY <1>4, CancelInv
<1>5. CASE ExportState
  BY <1>5, ExportInv
<1>6. CASE ImportState
  BY <1>6, ImportInv
<1>7. CASE Refresh
  BY <1>7, RefreshInv
<1>8. ASSUME NEW h \in Hashes, NEW s \in Final, Finalize(h, s)
      PROVE  TrackerIInv'
  BY <1>8, FinalizeInv
<1>9. CASE TimePasses
  BY <1>9, TickInv
<1>10. CASE UNCHANGED trackerVars
  BY <1>10 DEF trackerVars, TrackerIInv, TrackerTypeOK, RegistryIsLiveLoops, LoopsFit, FitLoop,
               ExportedOnce,
               LiveLoops, Polling
<1> QED
  BY <1>1, <1>2, <1>3, <1>4, <1>5, <1>6, <1>7, <1>8, <1>9, <1>10 DEF TrackerNext

(* The inductive invariant holds: polling, cancelling, exporting and importing
   keep the registry, the loops and the snapshot in step. *)
THEOREM TrackerInvariance == TrackerSpec => []TrackerIInv
<1> QED
  BY TrackerInvInit, TrackerInvStep, PTL DEF TrackerSpec

-----------------------------------------------------------------------------
(* The theorems *)

\* Every variable of the client's registry and of its polling loops keeps its
\* type; what exportState() saves are entries that importState() accepts.
THEOREM TrackerTypeCorrect == TrackerSpec => []TrackerTypeOK
<1>1. TrackerIInv => TrackerTypeOK
  BY DEF TrackerIInv
<1> QED
  BY <1>1, TrackerInvariance, PTL

\* pendingTransactions of the client holds exactly the polling loops that run,
\* one for a hash, whatever trackTransaction(), cancel(), importState() and
\* page refreshes do in between (the finally block of the loop and the lookup
\* of an existing entry).
THEOREM RegistryCorrect == TrackerSpec => []RegistryIsLiveLoops
<1>1. TrackerIInv => RegistryIsLiveLoops
  BY DEF TrackerIInv
<1> QED
  BY <1>1, TrackerInvariance, PTL

\* The polling loop of trackTransaction() reports a timeout only of a
\* transaction that was not final when getTransaction() was called last.
THEOREM NoTimeoutIsFalse == TrackerSpec => []NoFalseTimeout
<1>1. TrackerIInv => NoFalseTimeout
  BY DEF TrackerIInv, LoopsFit, FitLoop, NoFalseTimeout
<1> QED
  BY <1>1, TrackerInvariance, PTL

\* After TrackedTransaction.cancel() the loop calls getTransaction() no more.
THEOREM CancelCorrect == TrackerSpec => CancelStopsPolling
<1> DEFINE A == \A l \in Loops : loops[l].cancelled =>
                  /\ loops'[l].asked \in {loops[l].asked, -1}
                  /\ loops[l].state # "asking" => loops'[l].state # "asking"
<1>1. TrackerIInv /\ [TrackerNext]_trackerVars => A
  <2> SUFFICES ASSUME TrackerIInv, [TrackerNext]_trackerVars, NEW k \in Loops, loops[k].cancelled
               PROVE  /\ loops'[k].asked \in {loops[k].asked, -1}
                      /\ loops[k].state # "asking" => loops'[k].state # "asking"
    OBVIOUS
  <2>0. /\ FitLoop(loops[k]) /\ Polling(k) /\ loops[k].hash \in Hashes
        /\ loops \in [Loops -> LoopType]
    BY DEF TrackerIInv, TrackerTypeOK, LoopsFit, FitLoop, Polling
  <2>a. CASE loops'[k] = loops[k]
    BY <2>a
  <2>1. ASSUME NEW l \in Loops, NEW h \in Hashes, NEW t \in Timeouts,
               TrackTransaction(l, h, now + t)
        PROVE  loops'[k] = loops[k]
    BY <2>0, <2>1 DEF TrackTransaction, Advance
  <2>2. ASSUME NEW l \in Loops, NEW e, Advance(l, e), l # k
        PROVE  loops'[k] = loops[k]
    BY <2>0, <2>2 DEF Advance
  <2>3. ASSUME NEW e, Advance(k, e)
        PROVE  loops'[k] = e
    BY <2>0, <2>3 DEF Advance
  <2>4. CASE Answer(k)
    <3>1. CASE Advance(k, End(loops[k], "confirmed"))
      BY <2>0, <2>3, <3>1, EndFits DEF Ended
    <3>2. CASE Advance(k, End(loops[k], "error"))
      BY <2>0, <2>3, <3>2, EndFits DEF Ended
    <3>3. CASE /\ ledger[loops[k].hash].status \in Final
                    => ledger[loops[k].hash].at >= loops[k].asked
               /\ Advance(k, Sleep(k))
      BY <2>3, <2>4, <3>3, SleepFits DEF Answer
    <3> QED
      BY <2>4, <3>1, <3>2, <3>3 DEF Answer
  <2>5. CASE Wake(k)
    <3>1. loops'[k] = Continue(loops[k]) /\ loops[k].state = "sleeping"
      BY <2>3, <2>5 DEF Wake
    <3>2. Continue(loops[k]).asked = -1 /\ Continue(loops[k]).state = "cancelled"
      BY <2>0, <3>1, ContinueFits
    <3> QED
      BY <3>1, <3>2
  <2>6. ASSUME NEW l \in Loops, l # k, Answer(l) \/ Wake(l)
        PROVE  loops'[k] = loops[k]
    BY <2>2, <2>6 DEF Answer, Wake
  <2>7. ASSUME NEW l \in Loops, Cancel(l)
        PROVE  loops'[k].asked = loops[k].asked /\ loops'[k].state = loops[k].state
    BY <2>0, <2>7 DEF Cancel, LoopType
  <2>8. CASE ImportState
    <3>1. PICK f : ImportedBy(f)
      BY <2>8, ImportEffect
    <3>2. ~\E x \in Todo : f[x] = k
      BY <2>0, <3>1 DEF ImportedBy
    <3>3. loops'[k] = loops[k]
      BY <3>1, <3>2 DEF ImportedBy
    <3> QED
      BY <2>a, <3>3
  <2>9. CASE Refresh
    <3>1. loops'[k] = End(loops[k], "lost")
      BY <2>0, <2>9 DEF Refresh
    <3> QED
      BY <2>0, <3>1, EndFits DEF Ended
  <2>10. CASE ExportState \/ TimePasses \/ UNCHANGED trackerVars
               \/ \E h \in Hashes, s \in Final : Finalize(h, s)
    BY <2>10 DEF ExportState, TimePasses, trackerVars, Finalize
  <2> QED
    BY <2>1, <2>4, <2>5, <2>6, <2>7, <2>8, <2>9, <2>10 DEF TrackerNext
<1>2. CancelStopsPolling <=> [][A]_trackerVars
  BY DEF CancelStopsPolling
<1> QED
  BY <1>1, <1>2, TrackerInvariance, PTL DEF TrackerSpec

\* importState() polls every saved transaction that has time left, with its own
\* deadline, and leaves the polled ones alone.
THEOREM ImportCorrect == TrackerSpec => RefreshKeepsPending
<1> DEFINE A == ImportState =>
       /\ \A x \in exported : x.deadline > now =>
            LET l == pendingTransactions'[x.hash] IN
            /\ l # NoLoop
            /\ pendingTransactions[x.hash] = NoLoop => loops'[l].deadline = x.deadline
       /\ \A h \in Hashes : pendingTransactions[h] # NoLoop =>
            pendingTransactions'[h] = pendingTransactions[h]
<1>1. TrackerIInv => A
  <2> SUFFICES ASSUME TrackerIInv, ImportState PROVE A
    OBVIOUS
  <2>1. PICK f : ImportedBy(f)
    BY ImportEffect
  <2>2. ASSUME NEW h \in Hashes, pendingTransactions[h] # NoLoop
        PROVE  pendingTransactions'[h] = pendingTransactions[h]
    BY <2>1, <2>2 DEF ImportedBy
  <2>3. ASSUME NEW x \in exported, x.deadline > now
        PROVE  /\ pendingTransactions'[x.hash] # NoLoop
               /\ pendingTransactions[x.hash] = NoLoop =>
                    loops'[pendingTransactions'[x.hash]].deadline = x.deadline
    <3>1. x.hash \in Hashes /\ x.deadline \in Nat
      BY DEF TrackerIInv, TrackerTypeOK, Entry
    <3>2. CASE pendingTransactions[x.hash] = NoLoop
      <4>1. x \in Todo
        BY <2>3, <3>2 DEF Todo, Restorable
      <4>2. /\ f[x] \in Loops /\ pendingTransactions'[x.hash] = f[x]
            /\ loops'[f[x]] = Started(x.hash, x.deadline) /\ now < x.deadline
        BY <2>1, <4>1 DEF ImportedBy
      <4>3. Started(x.hash, x.deadline).deadline = x.deadline
        BY <3>1, <4>2, StartedFits
      <4> QED
        BY <4>2, <4>3, LoopsAssumption DEF NoLoop
    <3>3. CASE pendingTransactions[x.hash] # NoLoop
      BY <2>2, <3>1, <3>3
    <3> QED
      BY <3>2, <3>3
  <2> QED
    BY <2>2, <2>3
<1>2. RefreshKeepsPending <=> [][A]_trackerVars
  BY DEF RefreshKeepsPending
<1> QED
  BY <1>1, <1>2, TrackerInvariance, PTL DEF TrackerSpec

-----------------------------------------------------------------------------
(* Sequence numbers and the submission of arrays *)

\* A call whose answer is under way holds the number the network read.
ReadIsNumber == \A c \in Calls : accountCalls[c].state = "read" => accountCalls[c].read \in Nat

SubmissionIInv ==
  /\ SubmissionTypeOK
  /\ ReadIsNumber
  /\ IsFiniteSet(offline)
  /\ OfflineNumbersConsecutive
  /\ SubmittedInOrder

-----------------------------------------------------------------------------
(* Lemmas about the numbers *)

\* One number more at the end of a run of numbers.
LEMMA OneMoreNumber ==
  ASSUME NEW n \in Nat, NEW S, IsFiniteSet(S), S = (n - Cardinality(S) + 1)..n
  PROVE  /\ IsFiniteSet(S \cup {n + 1})
         /\ Cardinality(S \cup {n + 1}) = Cardinality(S) + 1
         /\ S \cup {n + 1} = (n - Cardinality(S) + 1)..(n + 1)
<1>1. Cardinality(S) \in Nat
  BY FS_CardinalityType
<1>2. n + 1 \notin S
  BY <1>1
<1>3. IsFiniteSet(S \cup {n + 1}) /\ Cardinality(S \cup {n + 1}) = Cardinality(S) + 1
  BY <1>2, FS_AddElement
<1>4. S \cup {n + 1} = (n - Cardinality(S) + 1)..(n + 1)
  BY <1>1
<1> QED
  BY <1>3, <1>4

\* Building changes only what is built, and that only between submissions.
LEMMA BuildTyped ==
  ASSUME built \in Seq(Nat), NEW n \in Nat, Build(n)
  PROVE  /\ built' \in Seq(Nat)
         /\ submission.phase # "idle" => built' = built
  BY DEF Build

-----------------------------------------------------------------------------
(* The invariant *)

LEMMA SubmissionInvInit == SubmissionInit => SubmissionIInv
<1> SUFFICES ASSUME SubmissionInit PROVE SubmissionIInv
  OBVIOUS
<1>1. SubmissionTypeOK
  BY BoundsAssumption DEF SubmissionInit, SubmissionTypeOK, NoCache, None, NotSubmitting
<1>2. ReadIsNumber /\ OfflineNumbersConsecutive /\ SubmittedInOrder
  BY DEF SubmissionInit, ReadIsNumber, OfflineNumbersConsecutive, SubmittedInOrder, NotSubmitting
<1>3. IsFiniteSet(offline)
  BY FS_EmptySet DEF SubmissionInit
<1> QED
  BY <1>1, <1>2, <1>3 DEF SubmissionIInv

\* The steps of getAccountWithCache().
LEMMA FetchInv ==
  ASSUME SubmissionIInv, NEW c \in Calls, GetAccount(c) \/ NetworkReads(c)
  PROVE  SubmissionIInv'
<1>0. /\ accountCalls \in [Calls -> [state : {"idle", "asked", "read"}, read : Nat \cup {None}]]
      /\ sequence \in Nat /\ ReadIsNumber
  BY DEF SubmissionIInv, SubmissionTypeOK
<1>a. ASSUME GetAccount(c)
      PROVE  /\ accountCalls' \in [Calls -> [state : {"idle", "asked", "read"}, read : Nat \cup {None}]]
             /\ ReadIsNumber'
  <2>1. accountCalls' = [accountCalls EXCEPT ![c] = [state |-> "asked", read |-> None]]
    BY <1>a DEF GetAccount
  <2> QED
    BY <1>0, <2>1 DEF ReadIsNumber
<1>b. ASSUME NetworkReads(c)
      PROVE  /\ accountCalls' \in [Calls -> [state : {"idle", "asked", "read"}, read : Nat \cup {None}]]
             /\ ReadIsNumber'
  <2>1. accountCalls' = [accountCalls EXCEPT ![c] = [state |-> "read", read |-> sequence]]
    BY <1>b DEF NetworkReads
  <2> QED
    BY <1>0, <2>1 DEF ReadIsNumber
<1>d. UNCHANGED <<sequence, pool, cache, offline, built, submission, received>>
  BY DEF GetAccount, NetworkReads
<1>1. SubmissionTypeOK'
  BY <1>a, <1>b, <1>d DEF SubmissionIInv, SubmissionTypeOK
<1>2. ReadIsNumber'
  BY <1>a, <1>b
<1>3. IsFiniteSet(offline)' /\ OfflineNumbersConsecutive' /\ SubmittedInOrder'
  BY DEF SubmissionIInv, OfflineNumbersConsecutive, SubmittedInOrder, GetAccount, NetworkReads
<1> QED
  BY <1>1, <1>2, <1>3 DEF SubmissionIInv

LEMMA OnlineInv ==
  ASSUME SubmissionIInv, NEW c \in Calls, Online(c)
  PROVE  SubmissionIInv'
<1> DEFINE n == accountCalls[c].read
<1>1. n \in Nat /\ cache' = [seq |-> n, age |-> 0] /\ offline' = {} /\ Build(n)
  BY DEF SubmissionIInv, ReadIsNumber, Online
<1>2. built' \in Seq(Nat) /\ (submission.phase # "idle" => built' = built)
  BY <1>1, BuildTyped DEF SubmissionIInv, SubmissionTypeOK
<1>3. SubmissionTypeOK'
  BY <1>1, <1>2, BoundsAssumption DEF SubmissionIInv, SubmissionTypeOK, Online, Finish
<1>4. ReadIsNumber'
  BY DEF SubmissionIInv, SubmissionTypeOK, ReadIsNumber, Online, Finish
<1>5. IsFiniteSet(offline)' /\ OfflineNumbersConsecutive'
  BY <1>1, FS_EmptySet DEF OfflineNumbersConsecutive
<1>6. SubmittedInOrder'
  BY DEF SubmissionIInv, SubmittedInOrder, Online
<1> QED
  BY <1>3, <1>4, <1>5, <1>6 DEF SubmissionIInv

LEMMA OfflineInv ==
  ASSUME SubmissionIInv, NEW c \in Calls, Offline(c)
  PROVE  SubmissionIInv'
<1>1. ReadIsNumber'
  BY DEF SubmissionIInv, SubmissionTypeOK, ReadIsNumber, Offline, Finish
<1>2. SubmittedInOrder'
  BY DEF SubmissionIInv, SubmittedInOrder, Offline
<1>3. CASE cache = NoCache \/ Expired
  <2>1. cache' = NoCache /\ offline' = offline /\ built' = built
    BY <1>3 DEF Offline
  <2>2. SubmissionTypeOK'
    BY <2>1 DEF SubmissionIInv, SubmissionTypeOK, Offline, Finish
  <2>3. IsFiniteSet(offline)' /\ OfflineNumbersConsecutive'
    BY <2>1 DEF SubmissionIInv, OfflineNumbersConsecutive, NoCache
  <2> QED
    BY <1>1, <1>2, <2>2, <2>3 DEF SubmissionIInv
<1>4. CASE ~(cache = NoCache \/ Expired)
  <2> DEFINE n == cache.seq
  <2>1. n \in Nat /\ cache' = [seq |-> n + 1, age |-> 0]
        /\ offline' = offline \cup {n + 1} /\ Build(n + 1)
    BY <1>4 DEF SubmissionIInv, SubmissionTypeOK, Offline
  <2>2. built' \in Seq(Nat) /\ (submission.phase # "idle" => built' = built)
    BY <2>1, BuildTyped DEF SubmissionIInv, SubmissionTypeOK
  <2>a. accountCalls' \in [Calls -> [state : {"idle", "asked", "read"}, read : Nat \cup {None}]]
    BY DEF SubmissionIInv, SubmissionTypeOK, Offline, Finish
  <2>b. cache' \in [seq : Nat, age : 0..(Ttl + 1)]
    BY <2>1, BoundsAssumption
  <2>e. offline \subseteq Nat
    BY DEF SubmissionIInv, SubmissionTypeOK
  <2>d. offline' \subseteq Nat
    <3>1. n + 1 \in Nat
      BY <2>1
    <3>2. offline' = offline \cup {n + 1}
      BY <2>1
    <3> HIDE DEF n
    <3> QED
      BY <3>1, <3>2, <2>e
  <2>3. SubmissionTypeOK'
    BY <2>2, <2>a, <2>b, <2>d DEF SubmissionIInv, SubmissionTypeOK, Offline
  <2>4. offline = (n - Cardinality(offline) + 1)..n /\ IsFiniteSet(offline)
    BY <1>4 DEF SubmissionIInv, OfflineNumbersConsecutive
  <2>5. IsFiniteSet(offline)' /\ OfflineNumbersConsecutive'
    <3>1. n \in Nat /\ cache'.seq = n + 1
      BY <2>1
    <3>2. offline' = offline \cup {n + 1}
      BY <2>1
    <3>3. /\ IsFiniteSet(offline \cup {n + 1})
          /\ Cardinality(offline \cup {n + 1}) = Cardinality(offline) + 1
          /\ offline \cup {n + 1} = (n - Cardinality(offline) + 1)..(n + 1)
      BY <2>4, <3>1, OneMoreNumber
    <3>4. IsFiniteSet(offline') /\ Cardinality(offline') = Cardinality(offline) + 1
      BY <3>2, <3>3, Zenon
    <3>5. Cardinality(offline) \in Nat
      BY <2>4, FS_CardinalityType
    <3>6. cache'.seq - Cardinality(offline') + 1 = n - Cardinality(offline) + 1
      BY <3>1, <3>4, <3>5
    <3>7. offline' = (n - Cardinality(offline) + 1)..cache'.seq
      BY <3>1, <3>2, <3>3
    <3> QED
      BY <3>4, <3>6, <3>7 DEF OfflineNumbersConsecutive
  <2> QED
    BY <1>1, <1>2, <2>3, <2>5 DEF SubmissionIInv
<1> QED
  BY <1>3, <1>4

\* The steps that change neither the submission nor the numbers handed out.
LEMMA OtherInv ==
  ASSUME SubmissionIInv, ClearCache \/ PoolIsApplied \/ OthersSubmit \/ CacheAges
  PROVE  SubmissionIInv'
<1>1. SubmissionTypeOK'
  <2>1. CASE ClearCache
    BY BoundsAssumption, <2>1 DEF SubmissionIInv, SubmissionTypeOK, ClearCache
  <2>2. CASE PoolIsApplied
    BY BoundsAssumption, <2>2 DEF SubmissionIInv, SubmissionTypeOK, PoolIsApplied
  <2>3. CASE OthersSubmit
    BY BoundsAssumption, <2>3 DEF SubmissionIInv, SubmissionTypeOK, OthersSubmit
  <2>4. CASE CacheAges
    BY BoundsAssumption, <2>4 DEF SubmissionIInv, SubmissionTypeOK, CacheAges
  <2>5. QED
    BY <2>1, <2>2, <2>3, <2>4
<1>2. ReadIsNumber' /\ SubmittedInOrder' /\ IsFiniteSet(offline)'
  BY DEF SubmissionIInv, ReadIsNumber, SubmittedInOrder, ClearCache, PoolIsApplied, OthersSubmit,
         CacheAges
<1>3. OfflineNumbersConsecutive'
  <2>1. CASE ClearCache
    BY <2>1 DEF OfflineNumbersConsecutive, ClearCache
  <2>2. CASE PoolIsApplied
    BY <2>2 DEF SubmissionIInv, OfflineNumbersConsecutive, PoolIsApplied
  <2>3. CASE OthersSubmit
    BY <2>3 DEF SubmissionIInv, OfflineNumbersConsecutive, OthersSubmit
  <2>4. CASE CacheAges
    <3>1. cache # NoCache /\ offline' = offline
      BY <2>4 DEF CacheAges
    <3>2. cache'.seq = cache.seq
      BY <2>4, <3>1 DEF CacheAges, SubmissionIInv, SubmissionTypeOK
    <3>3. offline = (cache.seq - Cardinality(offline) + 1)..cache.seq
      BY <3>1 DEF SubmissionIInv, OfflineNumbersConsecutive
    <3>4. QED
      BY <3>1, <3>2, <3>3 DEF OfflineNumbersConsecutive
  <2>5. QED
    BY <2>1, <2>2, <2>3, <2>4
<1> QED
  BY <1>1, <1>2, <1>3 DEF SubmissionIInv

\* The steps of submitTransactionsSequentially().
LEMMA SubmissionInv ==
  ASSUME SubmissionIInv, Submit \/ Receive \/ SubmissionAnswered \/ PauseOver \/ SendFails
  PROVE  SubmissionIInv'
<1>1. ReadIsNumber' /\ IsFiniteSet(offline)'
  BY DEF SubmissionIInv, ReadIsNumber, Submit, Receive, SubmissionAnswered, PauseOver, SendFails
<1>2. OfflineNumbersConsecutive'
  BY DEF SubmissionIInv, OfflineNumbersConsecutive, NoCache, Submit, Receive, SubmissionAnswered,
         PauseOver, SendFails
<1>3. CASE Submit
  <2>1. SubmissionTypeOK'
    BY <1>3 DEF SubmissionIInv, SubmissionTypeOK, Submit
  <2>2. SubmittedInOrder'
    BY <1>3 DEF SubmittedInOrder, Submit
  <2> QED
    BY <1>1, <1>2, <2>1, <2>2 DEF SubmissionIInv
<1>4. CASE Receive
  <2>1. Turn \in 1..Len(built) /\ built[Turn] \in Nat
    BY <1>4 DEF SubmissionIInv, SubmissionTypeOK, Receive, Turn
  <2>a. pool' \in Nat \cup {None} /\ received' \in Seq(Nat)
    BY <1>4, <2>1 DEF SubmissionIInv, SubmissionTypeOK, Receive
  <2>b. submission' = [phase |-> "received", results |-> submission.results]
    BY <1>4 DEF SubmissionIInv, SubmissionTypeOK, Receive
  <2>2. SubmissionTypeOK'
    BY <1>4, <2>1, <2>a, <2>b DEF SubmissionIInv, SubmissionTypeOK, Receive
  <2>3. SubmittedInOrder'
    BY <1>4, <2>1 DEF SubmissionIInv, SubmissionTypeOK, SubmittedInOrder, Receive, Turn
  <2> QED
    BY <1>1, <1>2, <2>2, <2>3 DEF SubmissionIInv
<1>5. CASE SubmissionAnswered
  <2>1. SubmissionTypeOK'
    BY <1>5 DEF SubmissionIInv, SubmissionTypeOK, SubmissionAnswered, Turn
  <2>2. SubmittedInOrder'
    BY <1>5 DEF SubmissionIInv, SubmissionTypeOK, SubmittedInOrder, SubmissionAnswered, Turn
  <2> QED
    BY <1>1, <1>2, <2>1, <2>2 DEF SubmissionIInv
<1>6. CASE PauseOver
  <2>a. ASSUME submission.results < Len(built) PROVE SubmissionTypeOK'
    <3>1. submission' = [phase |-> "sending", results |-> submission.results] /\ built' = built
      BY <1>6, <2>a DEF SubmissionIInv, SubmissionTypeOK, PauseOver
    <3> QED
      BY <1>6, <2>a, <3>1 DEF SubmissionIInv, SubmissionTypeOK, PauseOver
  <2>b. ASSUME ~(submission.results < Len(built)) PROVE SubmissionTypeOK'
    <3>1. submission' = NotSubmitting /\ built' = <<>>
      BY <1>6, <2>b DEF PauseOver
    <3> QED
      BY <1>6, <3>1 DEF SubmissionIInv, SubmissionTypeOK, PauseOver, NotSubmitting
  <2>1. SubmissionTypeOK'
    BY <2>a, <2>b
  <2>2. SubmittedInOrder'
    BY <1>6 DEF SubmissionIInv, SubmissionTypeOK, SubmittedInOrder, PauseOver, NotSubmitting
  <2> QED
    BY <1>1, <1>2, <2>1, <2>2 DEF SubmissionIInv
<1>7. CASE SendFails
  <2>1. SubmissionTypeOK'
    BY <1>7 DEF SubmissionIInv, SubmissionTypeOK, SendFails, NotSubmitting
  <2>2. SubmittedInOrder'
    BY <1>7 DEF SubmissionIInv, SubmittedInOrder, SendFails, NotSubmitting
  <2> QED
    BY <1>1, <1>2, <2>1, <2>2 DEF SubmissionIInv
<1> QED
  BY <1>3, <1>4, <1>5, <1>6, <1>7

LEMMA SubmissionNextInv == SubmissionIInv /\ [SubmissionNext]_submissionVars => SubmissionIInv'
<1>1. ASSUME SubmissionIInv, UNCHANGED submissionVars PROVE SubmissionIInv'
  BY <1>1 DEF SubmissionIInv, SubmissionTypeOK, ReadIsNumber, OfflineNumbersConsecutive,
              SubmittedInOrder, submissionVars
<1>2. ASSUME SubmissionIInv, SubmissionNext PROVE SubmissionIInv'
  BY <1>2, FetchInv, OnlineInv, OfflineInv, OtherInv, SubmissionInv DEF SubmissionNext
<1> QED
  BY <1>1, <1>2

LEMMA SubmissionInvariant == SubmissionSpec => []SubmissionIInv
  BY SubmissionInvInit, SubmissionNextInv, PTL DEF SubmissionSpec

-----------------------------------------------------------------------------
\* Every reachable state is well typed, and the loop of
\* submitTransactionsSequentially() never leaves the array.
THEOREM SubmissionTypeCorrect == SubmissionSpec => []SubmissionTypeOK
<1>1. SubmissionIInv => SubmissionTypeOK
  BY DEF SubmissionIInv
<1> QED
  BY <1>1, SubmissionInvariant, PTL

\* However many calls of getAccountWithCache() overlap and fail, the numbers they
\* get from the cache are consecutive.
THEOREM NumbersAreConsecutive == SubmissionSpec => []OfflineNumbersConsecutive
<1>1. SubmissionIInv => OfflineNumbersConsecutive
  BY DEF SubmissionIInv
<1> QED
  BY <1>1, SubmissionInvariant, PTL

\* Whatever fails, submitTransactionsSequentially() sends a prefix of the array,
\* in order, each transaction once.
THEOREM ArrayIsSentInOrder == SubmissionSpec => []SubmittedInOrder
<1>1. SubmissionIInv => SubmittedInOrder
  BY DEF SubmissionIInv
<1> QED
  BY <1>1, SubmissionInvariant, PTL

-----------------------------------------------------------------------------
(* The subscriptions, and the connections that carry them *)

\* The attempts each manager has made or will make with its timer.
Attempted == reconnectAttempts + (IF reconnectTimer = Off THEN 0 ELSE 1)
Scheduled == reconnection.attempts + (IF reconnection.timer = Off THEN 0 ELSE 1)

\* A socket that has not opened knows no subscription; a pending timer of the
\* ReconnectionManager will be one of its attempts.
Server ==
  /\ ServerHasSubscriptions
  /\ ws \in Sockets /\ sockets[ws] \in {"new", "connecting"} => server[ws] = {}

Common ==
  /\ TypeOK /\ Server
  /\ reconnection.timer # Off => reconnection.attempts < MaxAttempts
  /\ ~inService => reconnection.state = "disconnected" /\ reconnection.timer = Off

\* The connection of an application that connects once.
Sole ==
  /\ Live \subseteq {ws}
  /\ \A s \in Sockets : sockets[s] = "closing" => isDestroyed
  /\ \A t \in 0..MaxDelay : orphans[t] = 0
  /\ reconnectTimer # Off => reconnectAttempts < MaxReconnects
  /\ isDestroyed => Live = {} /\ ws = NoSocket /\ reconnectTimer = Off
  /\ starts = 0 => /\ \A s \in Sockets : sockets[s] = "closed"
                   /\ reconnectTimer = Off /\ reconnection.timer = Off

\* The two managers work as one until disconnect(): their timers are due at the
\* same time, and never while the connection lives or may still open.
Agree ==
  /\ isConnecting <=> Live # {} /\ sockets[ws] # "open"
  /\ Live # {} => /\ reconnectTimer \in {Off, 0} /\ reconnection.timer \in {Off, 0}
                  /\ sockets[ws] # "new" => reconnectTimer = Off /\ reconnection.timer = Off
  /\ reconnectTimer # Off /\ reconnection.timer # Off => reconnectTimer = reconnection.timer
  /\ inService => \/ Attempted = Scheduled
                  \/ Attempted = MaxReconnects /\ Scheduled >= Attempted
                  \/ Scheduled = MaxAttempts /\ Attempted >= Scheduled

Alone == Sole /\ StateTellsTruth /\ (~isDestroyed => Agree)

IInv == Common /\ (starts <= 1 => Alone)

-----------------------------------------------------------------------------
(* Lemmas about the definitions *)

\* The delays of both managers.
LEMMA DelayType ==
  ASSUME NEW n \in Nat
  PROVE  Delay(n) \in 0..MaxDelay /\ Manager!BackoffDelay(n) = Delay(n)
<1>1. Cardinality(1..n) = n /\ IsFiniteSet(1..n)
  BY FS_Interval
<1>2. Cardinality(SUBSET (1..n)) = 2 ^ n /\ IsFiniteSet(SUBSET (1..n))
  BY <1>1, FS_SUBSET
<1>3. 2 ^ n \in Nat
  BY <1>2, FS_CardinalityType
<1> DEFINE p == 2 ^ n
<1>4. Delay(n) = (IF p < MaxDelay THEN p ELSE MaxDelay) /\ Manager!BackoffDelay(n) = Delay(n)
  BY DEF Delay, Manager!BackoffDelay
<1>5. p \in Nat
  BY <1>3
<1> HIDE DEF p
<1> QED
  BY <1>4, <1>5, DelayAssumption

\* What the methods of the ReconnectionManager do to its record.
LEMMA ManagerSteps ==
  ASSUME NEW r \in Manager!ManagerType, r.timer # Off => r.attempts < MaxAttempts
  PROVE  /\ LET c == Manager!MarkConnected(r)
            IN  /\ c \in Manager!ManagerType
                /\ c.state = "connected" /\ c.attempts = 0 /\ c.timer = Off
         /\ LET d == Manager!ScheduleReconnect(Manager!MarkDisconnected(r))
            IN  /\ d \in Manager!ManagerType
                /\ d.state # "connected" /\ d.attempts = r.attempts
                /\ r.attempts = MaxAttempts => d.timer = Off
                /\ r.attempts < MaxAttempts => d.timer = Delay(r.attempts)
         /\ LET x == Manager!TimerFired(r)
            IN  r.timer = 0 => /\ x \in Manager!ManagerType /\ x.state = r.state
                               /\ x.attempts = r.attempts + 1 /\ x.timer = Off
         /\ LET z == Manager!Reset(r)
            IN  /\ z \in Manager!ManagerType
                /\ z.state = "disconnected" /\ z.attempts = 0 /\ z.timer = Off
         /\ LET y == Manager!TimePasses(r)
            IN  r.timer # 0 => /\ y \in Manager!ManagerType /\ y.state = r.state
                               /\ y.attempts = r.attempts /\ y.timer = Earlier(r.timer)
<1> USE AttemptsAssumption, DelayAssumption
<1> USE DEF Manager!ManagerType, Manager!States, Manager!NoTimer, Off
<1>1. /\ r = [state |-> r.state, attempts |-> r.attempts, timer |-> r.timer]
      /\ r.attempts \in 0..MaxAttempts /\ r.timer \in {-1} \cup 0..MaxDelay
      /\ r.state \in {"connected", "disconnected", "reconnecting"}
  OBVIOUS
<1>2. Delay(r.attempts) \in 0..MaxDelay /\ Manager!BackoffDelay(r.attempts) = Delay(r.attempts)
  BY <1>1, DelayType
<1>3. LET c == Manager!MarkConnected(r)
      IN  /\ c \in Manager!ManagerType
          /\ c.state = "connected" /\ c.attempts = 0 /\ c.timer = Off
  BY DEF Manager!MarkConnected
<1>4. LET d == Manager!ScheduleReconnect(Manager!MarkDisconnected(r))
      IN  /\ d \in Manager!ManagerType
          /\ d.state # "connected" /\ d.attempts = r.attempts
          /\ r.attempts = MaxAttempts => d.timer = Off
          /\ r.attempts < MaxAttempts => d.timer = Delay(r.attempts)
  <2> DEFINE m == Manager!MarkDisconnected(r)
  <2>1. /\ m \in Manager!ManagerType /\ m.state = "disconnected" /\ m.attempts = r.attempts
        /\ m.timer = Off
    BY DEF Manager!MarkDisconnected
  <2> HIDE DEF m
  <2> DEFINE d == Manager!ScheduleReconnect(m)
  <2>2. /\ d \in Manager!ManagerType
        /\ d.state # "connected" /\ d.attempts = r.attempts
        /\ r.attempts = MaxAttempts => d.timer = Off
        /\ r.attempts < MaxAttempts => d.timer = Delay(r.attempts)
    <3>1. CASE r.attempts = MaxAttempts
      BY <2>1, <3>1 DEF Manager!ScheduleReconnect
    <3>2. CASE r.attempts < MaxAttempts
      <4> DEFINE b == Manager!BackoffDelay(m.attempts)
      <4>1. b \in 0..MaxDelay /\ b = Delay(r.attempts)
        BY <1>2, <2>1
      <4>2. d = [m EXCEPT !.state = "reconnecting", !.timer = b]
        BY <1>1, <2>1, <3>2 DEF Manager!ScheduleReconnect
      <4> HIDE DEF b, d
      <4>3. d \in Manager!ManagerType /\ d.state = "reconnecting" /\ d.attempts = m.attempts
            /\ d.timer = b
        BY <2>1, <4>1, <4>2
      <4> QED
        BY <2>1, <3>2, <4>1, <4>3
    <3> QED
      BY <1>1, <3>1, <3>2
  <2> QED
    BY <2>2 DEF m
<1>5. LET x == Manager!TimerFired(r)
      IN  r.timer = 0 => /\ x \in Manager!ManagerType /\ x.state = r.state
                         /\ x.attempts = r.attempts + 1 /\ x.timer = Off
  <2>1. r.timer = 0 => r.attempts + 1 \in 0..MaxAttempts
    BY <1>1
  <2> QED
    BY <1>1, <2>1 DEF Manager!TimerFired
<1>6. LET z == Manager!Reset(r)
      IN  /\ z \in Manager!ManagerType
          /\ z.state = "disconnected" /\ z.attempts = 0 /\ z.timer = Off
  BY DEF Manager!Reset, Manager!NewManager
<1>7. LET y == Manager!TimePasses(r)
      IN  r.timer # 0 => /\ y \in Manager!ManagerType /\ y.state = r.state
                         /\ y.attempts = r.attempts /\ y.timer = Earlier(r.timer)
  <2>1. r.timer # 0 => Earlier(r.timer) \in {-1} \cup 0..MaxDelay
    BY <1>1 DEF Earlier
  <2>2. Manager!TimePasses(r)
          = [state |-> r.state, attempts |-> r.attempts, timer |-> Earlier(r.timer)]
    BY <1>1 DEF Manager!TimePasses, Earlier
  <2> QED
    BY <1>1, <2>1, <2>2
<1> QED
  BY <1>3, <1>4, <1>5, <1>6, <1>7

-----------------------------------------------------------------------------
(* Types, and what the server knows *)

ReadyStates == {"closed", "new", "connecting", "open", "closing"}
Typed == /\ sockets \in [Sockets -> ReadyStates]
         /\ ws \in Sockets \cup {NoSocket}
         /\ server \in [Sockets -> SUBSET Subs]
         /\ subscriptions \subseteq Subs

LEMMA SocketsTyped == ASSUME WebSocketTypeOK PROVE Typed
BY DEF WebSocketTypeOK, Typed, ReadyStates

LEMMA ConnectKeeps ==
  ASSUME Typed, Server, isConnecting \in BOOLEAN, Connect, UNCHANGED subscriptions
  PROVE  Typed' /\ Server' /\ isConnecting' \in BOOLEAN
<1>1. CASE UNCHANGED <<sockets, ws, isConnecting, server>>
  BY <1>1 DEF Typed, Server, ServerHasSubscriptions, IsOpen
<1>2. ASSUME NEW s \in Sockets, sockets' = [sockets EXCEPT ![s] = "new"], ws' = s,
             isConnecting' = TRUE, server' = [server EXCEPT ![s] = {}]
      PROVE  Typed' /\ Server' /\ isConnecting' \in BOOLEAN
  <2>1. Typed'
    BY <1>2 DEF Typed, ReadyStates
  <2>2. sockets'[ws'] = "new" /\ server'[ws'] = {}
    BY <1>2 DEF Typed
  <2> QED
    BY <1>2, <2>1, <2>2 DEF Server, ServerHasSubscriptions, IsOpen
<1> QED
  BY <1>1, <1>2 DEF Connect

LEMMA OnOpenKeeps ==
  ASSUME Typed, Server, NEW s \in Sockets, OnOpen(s)
  PROVE  Typed' /\ Server'
<1>1. /\ sockets[s] = "connecting" /\ sockets' = [sockets EXCEPT ![s] = "open"]
      /\ ws' = ws /\ subscriptions' = subscriptions
  BY DEF OnOpen
<1>2. CASE ws = s \/ IsOpen(ws)
  <2>1. ws \in Sockets /\ server' = [server EXCEPT ![ws] = server[ws] \cup subscriptions]
    BY <1>2 DEF OnOpen, Resubscribe, IsOpen
  <2>2. server[ws] = {} \/ server[ws] = subscriptions
    BY <1>1, <1>2 DEF Server, ServerHasSubscriptions, IsOpen
  <2>3. server'[ws] = subscriptions
    BY <2>1, <2>2 DEF Typed
  <2>4. Typed'
    BY <1>1, <2>1 DEF Typed, ReadyStates
  <2>5. sockets'[ws] \notin {"new", "connecting"}
    BY <1>1, <1>2, <2>1 DEF Typed, IsOpen
  <2> QED
    BY <1>1, <2>3, <2>4, <2>5 DEF Server, ServerHasSubscriptions, IsOpen
<1>3. CASE ~(ws = s \/ IsOpen(ws))
  <2>1. server' = server
    BY <1>3 DEF OnOpen, Resubscribe
  <2>2. ws \in Sockets => sockets'[ws] = sockets[ws]
    BY <1>1, <1>3 DEF Typed
  <2> QED
    BY <1>1, <2>1, <2>2 DEF Typed, ReadyStates, Server, ServerHasSubscriptions, IsOpen
<1> QED
  BY <1>2, <1>3

\* Sockets that only close, or go on connecting.
LEMMA SocketsKeep ==
  ASSUME Typed, Server, server' = server, subscriptions' = subscriptions,
         ws' = ws \/ ws' = NoSocket,
         \A s \in Sockets : \/ sockets'[s] = sockets[s]
                            \/ sockets'[s] \in {"closed", "closing"}
                            \/ sockets[s] = "new" /\ sockets'[s] = "connecting"
  PROVE  Server'
BY SocketsAssumption DEF Server, ServerHasSubscriptions, IsOpen

LEMMA OnCloseKeeps ==
  ASSUME Typed, Server, NEW s \in Sockets, OnClose(s)
  PROVE  Typed' /\ Server'
<1>1. /\ sockets' = [sockets EXCEPT ![s] = "closed"]
      /\ UNCHANGED <<ws, subscriptions, server>>
  BY DEF OnClose
<1>2. Typed'
  BY <1>1 DEF Typed, ReadyStates
<1>3. \A x \in Sockets : \/ sockets'[x] = sockets[x]
                         \/ sockets'[x] \in {"closed", "closing"}
                         \/ sockets[x] = "new" /\ sockets'[x] = "connecting"
  BY <1>1 DEF Typed
<1> QED
  BY <1>1, <1>2, <1>3, SocketsKeep

LEMMA DisconnectKeeps ==
  ASSUME Typed, Server, Disconnect
  PROVE  Typed' /\ Server'
<1>1. /\ sockets' = [s \in Sockets |-> IF s = ws /\ s \in Live THEN "closing" ELSE sockets[s]]
      /\ ws' = NoSocket /\ UNCHANGED <<subscriptions, server>>
  BY DEF Disconnect
<1>2. Typed'
  BY <1>1 DEF Typed, ReadyStates
<1>3. \A x \in Sockets : \/ sockets'[x] = sockets[x]
                         \/ sockets'[x] \in {"closed", "closing"}
                         \/ sockets[x] = "new" /\ sockets'[x] = "connecting"
  BY <1>1
<1> QED
  BY <1>1, <1>2, <1>3, SocketsKeep

LEMMA TickKeeps ==
  ASSUME Typed, Server, WebSocketTick
  PROVE  Typed' /\ Server'
<1>1. /\ sockets' = [s \in Sockets |-> IF sockets[s] = "new" THEN "connecting" ELSE sockets[s]]
      /\ UNCHANGED <<ws, subscriptions, server>>
  BY DEF WebSocketTick
<1>2. Typed'
  BY <1>1 DEF Typed, ReadyStates
<1>3. \A x \in Sockets : \/ sockets'[x] = sockets[x]
                         \/ sockets'[x] \in {"closed", "closing"}
                         \/ sockets[x] = "new" /\ sockets'[x] = "connecting"
  BY <1>1
<1> QED
  BY <1>1, <1>2, <1>3, SocketsKeep

LEMMA SubscribeKeeps ==
  ASSUME Typed, Server, NEW x \in Subs, Subscribe(x) \/ Unsubscribe(x)
  PROVE  Typed' /\ Server'
<1>1. UNCHANGED <<sockets, ws>>
  BY DEF Subscribe, Unsubscribe
<1>2. PICK S \in SUBSET Subs :
        /\ subscriptions' = S
        /\ IsOpen(ws) => server' = [server EXCEPT ![ws] = S]
        /\ ~IsOpen(ws) => server' = server
  <2>1. CASE Subscribe(x)
    <3>1. subscriptions' = subscriptions \cup {x} /\ subscriptions' \in SUBSET Subs
      BY <2>1 DEF Subscribe, Typed
    <3>2. IsOpen(ws) => server[ws] = subscriptions
      BY DEF Server, ServerHasSubscriptions
    <3>3. IsOpen(ws) => server' = [server EXCEPT ![ws] = server[ws] \cup {x}]
      BY <2>1 DEF Subscribe
    <3>4. ~IsOpen(ws) => server' = server
      BY <2>1 DEF Subscribe
    <3> QED
      BY <3>1, <3>2, <3>3, <3>4
  <2>2. CASE Unsubscribe(x)
    <3>1. subscriptions' = subscriptions \ {x} /\ subscriptions' \in SUBSET Subs
      BY <2>2 DEF Unsubscribe, Typed
    <3>2. IsOpen(ws) => server[ws] = subscriptions
      BY DEF Server, ServerHasSubscriptions
    <3>3. IsOpen(ws) => server' = [server EXCEPT ![ws] = server[ws] \ {x}]
      BY <2>2 DEF Unsubscribe
    <3>4. ~IsOpen(ws) => server' = server
      BY <2>2 DEF Unsubscribe
    <3> QED
      BY <3>1, <3>2, <3>3, <3>4
  <2> QED
    BY <2>1, <2>2
<1>3. CASE IsOpen(ws)
  BY <1>1, <1>2, <1>3 DEF Typed, Server, ServerHasSubscriptions, IsOpen
<1>4. CASE ~IsOpen(ws)
  BY <1>1, <1>2, <1>4 DEF Typed, Server, ServerHasSubscriptions, IsOpen
<1> QED
  BY <1>3, <1>4

-----------------------------------------------------------------------------
(* The steps of the WebSocketManager keep the types and what the server knows,
   with any step of the ReconnectionManager that keeps its own. *)

Bounded == /\ reconnection \in Manager!ManagerType
           /\ reconnection.timer # Off => reconnection.attempts < MaxAttempts
           /\ ~inService => reconnection.state = "disconnected" /\ reconnection.timer = Off

\* The types of the variables of WebSocketManager, one by one.
LEMMA Types ==
  ASSUME IInv
  PROVE  /\ WebSocketTypeOK /\ Typed /\ Server /\ Bounded /\ inService \in BOOLEAN
         /\ isConnecting \in BOOLEAN /\ isDestroyed \in BOOLEAN /\ heartbeat \in BOOLEAN
         /\ reconnectAttempts \in Nat /\ reconnectTimer \in {Off} \cup 0..MaxDelay
         /\ orphans \in [0..MaxDelay -> Nat] /\ starts \in 0..MaxStarts
         /\ starts <= 1 => reconnectAttempts <= MaxReconnects
<1>1. TypeOK /\ Server
  BY DEF IInv, Common
<1>2. WebSocketTypeOK
  BY <1>1 DEF TypeOK
<1>3. isConnecting \in BOOLEAN /\ isDestroyed \in BOOLEAN /\ heartbeat \in BOOLEAN
  BY <1>2 DEF WebSocketTypeOK
<1>4. inService \in BOOLEAN
  BY <1>1 DEF TypeOK
<1> QED
  BY <1>1, <1>2, <1>3, <1>4, SocketsTyped DEF IInv, Common, Bounded, TypeOK, WebSocketTypeOK

LEMMA CommonFrom ==
  ASSUME Typed', Server', Bounded', inService' \in BOOLEAN,
         isConnecting' \in BOOLEAN, isDestroyed' \in BOOLEAN, heartbeat' \in BOOLEAN,
         reconnectAttempts' \in Nat, reconnectTimer' \in {Off} \cup 0..MaxDelay,
         orphans' \in [0..MaxDelay -> Nat], starts' \in 0..MaxStarts,
         starts' <= 1 => reconnectAttempts' <= MaxReconnects
  PROVE  Common'
<1>1. WebSocketTypeOK'
  BY DEF WebSocketTypeOK, Typed, ReadyStates
<1>2. TypeOK'
  BY <1>1 DEF TypeOK, Bounded
<1> QED
  BY <1>2 DEF Common, Bounded

LEMMA CommonStart ==
  ASSUME IInv, ApplicationConnects, UNCHANGED service
  PROVE  Common'
<1>1. /\ starts < MaxStarts /\ starts' = starts + 1 /\ Connect
      /\ isDestroyed' = isDestroyed /\ reconnectAttempts' = reconnectAttempts
      /\ reconnectTimer' = reconnectTimer /\ orphans' = orphans /\ heartbeat' = heartbeat
      /\ subscriptions' = subscriptions
      /\ reconnection' = reconnection /\ inService' = inService
  BY DEF ApplicationConnects, service
<1>2. Typed' /\ Server' /\ isConnecting' \in BOOLEAN
  BY <1>1, Types, ConnectKeeps
<1>3. Bounded'
  BY <1>1, Types DEF Bounded
<1>4. starts' \in 0..MaxStarts /\ (starts' <= 1 => starts <= 1)
  BY <1>1, Types, DelayAssumption
<1> QED
  BY <1>1, <1>2, <1>3, <1>4, Types, CommonFrom

LEMMA CommonStop ==
  ASSUME IInv, Disconnect, UNCHANGED <<starts, inService>>, Bounded'
  PROVE  Common'
<1>1. /\ isDestroyed' = TRUE /\ heartbeat' = FALSE /\ reconnectTimer' = Off
      /\ isConnecting' = isConnecting /\ reconnectAttempts' = reconnectAttempts
      /\ orphans' = orphans
  BY DEF Disconnect
<1>2. Typed' /\ Server'
  BY Types, DisconnectKeeps
<1> QED
  BY <1>1, <1>2, Types, CommonFrom

LEMMA CommonSocketTimer ==
  ASSUME IInv, ReconnectTimerFires, UNCHANGED <<starts, service>>
  PROVE  Common'
<1>1. /\ Connect /\ reconnectAttempts' = reconnectAttempts + 1
      /\ isDestroyed' = isDestroyed /\ heartbeat' = heartbeat /\ subscriptions' = subscriptions
      /\ reconnection' = reconnection /\ inService' = inService /\ starts' = starts
  BY DEF ReconnectTimerFires, service
<1>2. Typed' /\ Server' /\ isConnecting' \in BOOLEAN
  BY <1>1, Types, ConnectKeeps
<1>3. Bounded'
  BY <1>1, Types DEF Bounded
<1>4. reconnectTimer' \in {Off} \cup 0..MaxDelay /\ orphans' \in [0..MaxDelay -> Nat]
  <2>1. CASE reconnectTimer' = Off /\ orphans' = orphans
    BY <2>1, Types
  <2>2. CASE orphans[0] > 0 /\ orphans' = [orphans EXCEPT ![0] = orphans[0] - 1]
             /\ reconnectTimer' = reconnectTimer
    <3>1. 0 \in 0..MaxDelay
      BY DelayAssumption
    <3>2. orphans[0] \in Nat
      BY <3>1, Types
    <3>3. orphans[0] - 1 \in Nat
      BY <2>2, <3>2
    <3> QED
      BY <2>2, <3>3, Types
  <2> QED
    BY <2>1, <2>2 DEF ReconnectTimerFires
<1>5. starts <= 1 => reconnectAttempts < MaxReconnects
  <2>1. starts <= 1 => Sole
    BY DEF IInv, Alone
  <2>2. 0 \in 0..MaxDelay
    BY DelayAssumption
  <2>3. starts <= 1 => orphans[0] = 0
    BY <2>1, <2>2 DEF Sole
  <2>4. starts <= 1 => reconnectTimer = 0
    BY <2>3 DEF ReconnectTimerFires
  <2> QED
    BY <2>1, <2>4 DEF Sole, Off
<1>6. starts' <= 1 => reconnectAttempts' <= MaxReconnects
  BY <1>1, <1>5, Types, DelayAssumption
<1>7. reconnectAttempts' \in Nat
  BY <1>1, Types
<1> QED
  BY <1>1, <1>2, <1>3, <1>4, <1>6, <1>7, Types, CommonFrom

LEMMA CommonManagerTimer ==
  ASSUME IInv, ManagerTimerFires, Bounded'
  PROVE  Common'
<1>1. /\ Connect /\ reconnectAttempts' = reconnectAttempts /\ reconnectTimer' = reconnectTimer
      /\ isDestroyed' = isDestroyed /\ heartbeat' = heartbeat /\ subscriptions' = subscriptions
      /\ orphans' = orphans /\ inService' = inService /\ starts' = starts
  BY DEF ManagerTimerFires
<1>2. Typed' /\ Server' /\ isConnecting' \in BOOLEAN
  BY <1>1, Types, ConnectKeeps
<1> QED
  BY <1>1, <1>2, Types, CommonFrom

LEMMA EarlierType ==
  ASSUME NEW t \in {Off} \cup 0..MaxDelay, t # 0
  PROVE  /\ Earlier(t) \in {Off} \cup 0..MaxDelay /\ (Earlier(t) = Off <=> t = Off)
BY DelayAssumption DEF Earlier, Off

LEMMA CommonTick ==
  ASSUME IInv, WebSocketTick, UNCHANGED <<starts, inService>>, Bounded'
  PROVE  Common'
<1>1. /\ reconnectTimer # 0 /\ reconnectTimer' = Earlier(reconnectTimer)
      /\ orphans' = [t \in 0..MaxDelay |-> IF t < MaxDelay THEN orphans[t + 1] ELSE 0]
      /\ reconnectAttempts' = reconnectAttempts
      /\ isDestroyed' = isDestroyed /\ heartbeat' = heartbeat /\ isConnecting' = isConnecting
  BY DEF WebSocketTick
<1>2. Typed' /\ Server'
  BY Types, TickKeeps
<1>3. reconnectTimer' \in {Off} \cup 0..MaxDelay
  BY <1>1, Types, EarlierType
<1>4. \A t \in 0..MaxDelay : t < MaxDelay => t + 1 \in 0..MaxDelay
  BY DelayAssumption
<1>5. orphans' \in [0..MaxDelay -> Nat]
  BY <1>1, <1>4, Types
<1> QED
  BY <1>1, <1>2, <1>3, <1>5, Types, CommonFrom

LEMMA CommonOpen ==
  ASSUME IInv, NEW s \in Sockets, OnOpen(s), UNCHANGED <<starts, inService>>, Bounded'
  PROVE  Common'
<1>1. /\ reconnectTimer' = reconnectTimer /\ orphans' = orphans /\ reconnectAttempts' = 0
      /\ isDestroyed' = isDestroyed /\ heartbeat' = TRUE /\ isConnecting' = FALSE
  BY DEF OnOpen
<1>2. Typed' /\ Server'
  BY Types, OnOpenKeeps
<1>3. reconnectAttempts' \in Nat /\ reconnectAttempts' <= MaxReconnects
  BY <1>1, DelayAssumption
<1> QED
  BY <1>1, <1>2, <1>3, Types, CommonFrom

LEMMA CommonClose ==
  ASSUME IInv, NEW s \in Sockets, OnClose(s), UNCHANGED <<starts, inService>>, Bounded'
  PROVE  Common'
<1>1. /\ reconnectAttempts' = reconnectAttempts
      /\ isDestroyed' = isDestroyed /\ heartbeat' = FALSE /\ isConnecting' = FALSE
  BY DEF OnClose
<1>2. Typed' /\ Server'
  BY Types, OnCloseKeeps
<1>3. reconnectTimer' \in {Off} \cup 0..MaxDelay /\ orphans' \in [0..MaxDelay -> Nat]
  <2>1. CASE UNCHANGED <<reconnectTimer, orphans>>
    BY <2>1, Types
  <2>2. CASE /\ reconnectTimer' = Delay(reconnectAttempts)
             /\ orphans' = IF reconnectTimer = Off THEN orphans
                           ELSE [orphans EXCEPT ![reconnectTimer] = @ + 1]
    <3>1. Delay(reconnectAttempts) \in 0..MaxDelay
      BY Types, DelayType
    <3> QED
      BY <2>2, <3>1, Types
  <2> QED
    BY <2>1, <2>2 DEF OnClose, HandleReconnect
<1> QED
  BY <1>1, <1>2, <1>3, Types, CommonFrom

LEMMA CommonSubscribe ==
  ASSUME IInv, NEW x \in Subs, Subscribe(x) \/ Unsubscribe(x), UNCHANGED <<starts, service>>
  PROVE  Common'
<1>1. /\ reconnectTimer' = reconnectTimer /\ orphans' = orphans
      /\ reconnectAttempts' = reconnectAttempts
      /\ isDestroyed' = isDestroyed /\ heartbeat' = heartbeat /\ isConnecting' = isConnecting
      /\ reconnection' = reconnection /\ inService' = inService /\ starts' = starts
  BY DEF Subscribe, Unsubscribe, service
<1>2. Typed' /\ Server'
  BY Types, SubscribeKeeps
<1>3. Bounded'
  BY <1>1, Types DEF Bounded
<1> QED
  BY <1>1, <1>2, <1>3, Types, CommonFrom

-----------------------------------------------------------------------------
(* The connection of an application that connects once *)

\* connect() when nothing is connected, or when it does nothing.
LEMMA ConnectAlone ==
  ASSUME IInv, Sole, Connect, isConnecting \/ isDestroyed \/ Live = {}
  PROVE  \/ sockets' = sockets /\ ws' = ws /\ isConnecting' = isConnecting
         \/ /\ ~isDestroyed /\ Live = {} /\ isConnecting' = TRUE
            /\ ws' \in Sockets /\ sockets'[ws'] = "new" /\ Live' = {ws'}
            /\ \A s \in Sockets : sockets'[s] # "closing"
<1>1. CASE isConnecting \/ isDestroyed
  BY <1>1 DEF Connect
<1>2. CASE ~(isConnecting \/ isDestroyed)
  <2>1. PICK s \in Sockets : sockets' = [sockets EXCEPT ![s] = "new"] /\ ws' = s
    BY <1>2 DEF Connect
  <2>2. isConnecting' = TRUE /\ Live = {}
    BY <1>2 DEF Connect
  <2>3. sockets'[s] = "new" /\ \A x \in Sockets \ {s} : sockets'[x] = sockets[x]
    BY <2>1, Types DEF Typed
  <2>4. Live' = {s}
    BY <2>2, <2>3 DEF Live
  <2>5. \A x \in Sockets : sockets'[x] # "closing"
    BY <1>2, <2>3 DEF Sole
  <2> QED
    BY <1>2, <2>1, <2>2, <2>3, <2>4, <2>5
<1> QED
  BY <1>1, <1>2

\* A timer that is due finds connect() in progress or nothing connected.
LEMMA TimerFinds ==
  ASSUME Alone, reconnectTimer = 0 \/ reconnection.timer = 0
  PROVE  isConnecting \/ isDestroyed \/ Live = {}
BY DEF Alone, Agree, Off

\* connect() by the application or by a timer.
LEMMA AloneConnects ==
  ASSUME IInv, Alone, starts <= 1, Connect, isConnecting \/ isDestroyed \/ Live = {},
         orphans' = orphans, isDestroyed' = isDestroyed, inService' = inService, starts' # 0,
         reconnectTimer' \in {reconnectTimer, Off},
         reconnection'.timer \in {reconnection.timer, Off},
         reconnection'.state = reconnection.state,
         Live = {} /\ ~isDestroyed => /\ reconnectTimer' \in {Off, 0}
                                     /\ reconnection'.timer \in {Off, 0},
         reconnectTimer' # Off => reconnectAttempts' < MaxReconnects,
         inService /\ ~isDestroyed => Attempted' = Attempted /\ Scheduled' = Scheduled
  PROVE  Alone'
<1>1. Sole /\ StateTellsTruth
  BY DEF Alone
<1>2. inService \in BOOLEAN
  BY Types
<1>3. CASE sockets' = sockets /\ ws' = ws /\ isConnecting' = isConnecting
  <2>1. Live' = Live
    BY <1>3 DEF Live
  <2>2. Sole'
    BY <1>1, <1>3, <2>1 DEF Sole
  <2>3. StateTellsTruth'
    BY <1>1, <1>3 DEF StateTellsTruth, IsOpen
  <2>4. ASSUME ~isDestroyed
        PROVE  Agree'
    <3>1. Agree
      BY <2>4 DEF Alone
    <3>2. inService => \/ Attempted = Scheduled
                       \/ Attempted = MaxReconnects /\ Scheduled >= Attempted
                       \/ Scheduled = MaxAttempts /\ Attempted >= Scheduled
      BY <3>1 DEF Agree
    <3>3. inService' => \/ Attempted' = Scheduled'
                        \/ Attempted' = MaxReconnects /\ Scheduled' >= Attempted'
                        \/ Scheduled' = MaxAttempts /\ Attempted' >= Scheduled'
      BY <2>4, <3>2
    <3> QED
      BY <1>3, <2>1, <2>4, <3>1, <3>3 DEF Agree
  <2> QED
    BY <2>2, <2>3, <2>4 DEF Alone
<1>4. CASE /\ ~isDestroyed /\ Live = {} /\ isConnecting' = TRUE
           /\ ws' \in Sockets /\ sockets'[ws'] = "new" /\ Live' = {ws'}
           /\ \A s \in Sockets : sockets'[s] # "closing"
  <2>1. ~IsOpen(ws) /\ ~IsOpen(ws')
    BY <1>4 DEF Live, IsOpen
  <2>2. Sole'
    BY <1>1, <1>4 DEF Sole
  <2>3. StateTellsTruth'
    BY <1>1, <1>4, <2>1 DEF StateTellsTruth, IsOpen
  <2>4. Agree
    BY <1>4 DEF Alone
  <2>5. inService => \/ Attempted = Scheduled
                     \/ Attempted = MaxReconnects /\ Scheduled >= Attempted
                     \/ Scheduled = MaxAttempts /\ Attempted >= Scheduled
    BY <2>4 DEF Agree
  <2>6. inService' => \/ Attempted' = Scheduled'
                      \/ Attempted' = MaxReconnects /\ Scheduled' >= Attempted'
                      \/ Scheduled' = MaxAttempts /\ Attempted' >= Scheduled'
    BY <1>4, <2>5
  <2>7. Agree'
    BY <1>4, <2>6 DEF Agree
  <2> QED
    BY <2>2, <2>3, <2>7 DEF Alone
<1> QED
  BY <1>1, <1>3, <1>4, ConnectAlone

\* A timer that fires is one attempt made instead of one to be made.
LEMMA AloneStart ==
  ASSUME IInv, ApplicationConnects, UNCHANGED service, starts' <= 1
  PROVE  Alone'
<1>1. starts = 0 /\ starts' = 1
  BY Types DEF ApplicationConnects
<1>2. Alone
  BY <1>1 DEF IInv
<1>3. Live = {} /\ reconnectTimer = Off /\ reconnection.timer = Off
  BY <1>1, <1>2 DEF Alone, Sole, Live
<1>4. /\ Connect /\ orphans' = orphans /\ isDestroyed' = isDestroyed
      /\ reconnectTimer' = reconnectTimer /\ reconnectAttempts' = reconnectAttempts
      /\ reconnection' = reconnection /\ inService' = inService
  BY DEF ApplicationConnects, service
<1>5. Attempted' = Attempted /\ Scheduled' = Scheduled
  BY <1>4 DEF Attempted, Scheduled
<1> QED
  BY <1>1, <1>2, <1>3, <1>4, <1>5, AloneConnects

LEMMA AloneSocketTimer ==
  ASSUME IInv, ReconnectTimerFires, UNCHANGED <<starts, service>>, starts' <= 1
  PROVE  Alone'
<1>1. /\ Connect /\ reconnectAttempts' = reconnectAttempts + 1
      /\ isDestroyed' = isDestroyed /\ reconnection' = reconnection
      /\ inService' = inService /\ starts' = starts
  BY DEF ReconnectTimerFires, service
<1>2. Alone /\ Sole
  BY <1>1 DEF IInv, Alone
<1>3. 0 \in 0..MaxDelay
  BY DelayAssumption
<1>4. reconnectTimer = 0 /\ reconnectTimer' = Off /\ orphans' = orphans
  BY <1>2, <1>3 DEF ReconnectTimerFires, Sole
<1>5. starts' # 0
  BY <1>1, <1>2, <1>4 DEF Sole, Off
<1>6. Live = {} /\ ~isDestroyed => reconnection.timer \in {Off, 0}
  BY <1>2, <1>4 DEF Alone, Agree, Off
<1>7. Attempted' = Attempted /\ Scheduled' = Scheduled
  BY <1>1, <1>4, Types DEF Attempted, Scheduled, Off
<1>8. isConnecting \/ isDestroyed \/ Live = {}
  BY <1>2, <1>4, TimerFinds
<1> QED
  BY <1>1, <1>2, <1>4, <1>5, <1>6, <1>7, <1>8, AloneConnects

LEMMA AloneManagerTimer ==
  ASSUME IInv, ManagerTimerFires, starts' <= 1, reconnection'.timer = Off,
         reconnection'.attempts = reconnection.attempts + 1,
         reconnection'.state = reconnection.state
  PROVE  Alone'
<1>1. /\ Connect /\ reconnectAttempts' = reconnectAttempts /\ reconnectTimer' = reconnectTimer
      /\ isDestroyed' = isDestroyed /\ orphans' = orphans
      /\ inService' = inService /\ starts' = starts /\ reconnection.timer = 0
  BY DEF ManagerTimerFires
<1>2. Alone /\ Sole
  BY <1>1 DEF IInv, Alone
<1>3. starts' # 0
  BY <1>1, <1>2 DEF Sole, Off
<1>4. Live = {} /\ ~isDestroyed => reconnectTimer \in {Off, 0}
  BY <1>1, <1>2 DEF Alone, Agree, Off
<1>5. Attempted' = Attempted /\ Scheduled' = Scheduled
  <2>1. reconnection.attempts \in Int
    BY Types, AttemptsAssumption DEF Bounded, Manager!ManagerType
  <2> QED
    BY <1>1, <2>1 DEF Attempted, Scheduled, Off
<1>6. isConnecting \/ isDestroyed \/ Live = {}
  BY <1>1, <1>2, TimerFinds
<1>7. reconnectTimer' # Off => reconnectAttempts' < MaxReconnects
  BY <1>1, <1>2 DEF Sole
<1> QED
  BY <1>1, <1>2, <1>3, <1>4, <1>5, <1>6, <1>7, AloneConnects

\* disconnect(), with stop() if a service has the manager.
LEMMA AloneStop ==
  ASSUME IInv, Disconnect, UNCHANGED <<starts, inService>>, starts' <= 1,
         reconnection'.state = "disconnected", reconnection'.timer = Off
  PROVE  Alone'
<1>1. Sole
  BY DEF IInv, Alone
<1>2. /\ isDestroyed' = TRUE /\ reconnectTimer' = Off /\ ws' = NoSocket /\ orphans' = orphans
      /\ sockets' = [s \in Sockets |-> IF s = ws /\ s \in Live THEN "closing" ELSE sockets[s]]
  BY DEF Disconnect
<1>3. Live' = {}
  BY <1>1, <1>2 DEF Sole, Live
<1>4. starts' = 0 => \A s \in Sockets : sockets'[s] = "closed"
  BY <1>1, <1>2 DEF Sole, Live
<1>5. Sole'
  BY <1>1, <1>2, <1>3, <1>4 DEF Sole
<1>6. StateTellsTruth'
  BY <1>2, SocketsAssumption DEF StateTellsTruth, IsOpen
<1> QED
  BY <1>2, <1>5, <1>6 DEF Alone

\* Time passes for both managers alike.
LEMMA AloneTick ==
  ASSUME IInv, WebSocketTick, UNCHANGED <<starts, inService>>, starts' <= 1,
         reconnection.timer # 0, reconnection'.timer = Earlier(reconnection.timer),
         reconnection'.attempts = reconnection.attempts,
         reconnection'.state = reconnection.state
  PROVE  Alone'
<1>1. Alone /\ Sole /\ StateTellsTruth
  BY DEF IInv, Alone
<1>2. /\ reconnectTimer # 0 /\ reconnectTimer' = Earlier(reconnectTimer)
      /\ orphans' = [t \in 0..MaxDelay |-> IF t < MaxDelay THEN orphans[t + 1] ELSE 0]
      /\ sockets' = [s \in Sockets |-> IF sockets[s] = "new" THEN "connecting" ELSE sockets[s]]
      /\ reconnectAttempts' = reconnectAttempts /\ ws' = ws
      /\ isDestroyed' = isDestroyed /\ isConnecting' = isConnecting
  BY DEF WebSocketTick
<1>3. (reconnectTimer' = Off <=> reconnectTimer = Off)
  BY <1>2, Types, EarlierType
<1>4. reconnection.timer \in {Off} \cup 0..MaxDelay
  BY Types DEF Bounded, Manager!ManagerType, Manager!NoTimer, Off
<1>5. (reconnection'.timer = Off <=> reconnection.timer = Off)
  BY <1>4, EarlierType
<1>6. Live' = Live /\ \A s \in Sockets : /\ sockets'[s] = "open" <=> sockets[s] = "open"
                                         /\ sockets'[s] = "closing" <=> sockets[s] = "closing"
                                         /\ sockets'[s] = "closed" <=> sockets[s] = "closed"
                                         /\ sockets'[s] # "new"
  BY <1>2 DEF Live
<1>7. \A t \in 0..MaxDelay : orphans'[t] = 0
  <2>1. \A t \in 0..MaxDelay : t < MaxDelay => t + 1 \in 0..MaxDelay
    BY DelayAssumption
  <2> QED
    BY <1>1, <1>2, <2>1 DEF Sole
<1>8. Sole'
  BY <1>1, <1>2, <1>3, <1>5, <1>6, <1>7 DEF Sole
<1>9. StateTellsTruth'
  BY <1>1, <1>2, <1>6 DEF StateTellsTruth, IsOpen
<1>10. ASSUME ~isDestroyed
       PROVE  Agree'
  <2>1. Agree
    BY <1>1, <1>10 DEF Alone
  <2>2. isConnecting' <=> Live' # {} /\ sockets'[ws'] # "open"
    <3>1. Live # {} => ws \in Sockets
      BY <1>1 DEF Sole, Live
    <3> QED
      BY <1>2, <1>6, <2>1, <3>1 DEF Agree
  <2>3. Live # {} => reconnectTimer = Off /\ reconnection.timer = Off
    BY <1>2, <2>1 DEF Agree
  <2>4. reconnectTimer' # Off /\ reconnection'.timer # Off => reconnectTimer' = reconnection'.timer
    BY <1>2, <1>3, <1>5, <2>1 DEF Agree
  <2>5. Attempted' = Attempted /\ Scheduled' = Scheduled
    BY <1>2, <1>3, <1>5 DEF Attempted, Scheduled
  <2>6. inService' => \/ Attempted' = Scheduled'
                      \/ Attempted' = MaxReconnects /\ Scheduled' >= Attempted'
                      \/ Scheduled' = MaxAttempts /\ Attempted' >= Scheduled'
    BY <2>1, <2>5 DEF Agree
  <2> QED
    BY <1>3, <1>5, <1>6, <2>2, <2>3, <2>4, <2>6 DEF Agree
<1> QED
  BY <1>2, <1>8, <1>9, <1>10 DEF Alone

\* The socket that opens is the only one, and no timer is left.
LEMMA AloneOpen ==
  ASSUME IInv, NEW s \in Sockets, OnOpen(s), UNCHANGED <<starts, inService>>, starts' <= 1,
         reconnection'.timer = Off,
         inService => reconnection'.state = "connected" /\ reconnection'.attempts = 0
  PROVE  Alone'
<1>1. Alone /\ Sole
  BY DEF IInv, Alone
<1>2. /\ sockets[s] = "connecting" /\ sockets' = [sockets EXCEPT ![s] = "open"]
      /\ ws' = ws /\ isConnecting' = FALSE /\ reconnectAttempts' = 0
      /\ isDestroyed' = isDestroyed /\ reconnectTimer' = reconnectTimer /\ orphans' = orphans
  BY DEF OnOpen
<1>3. s \in Live /\ s = ws /\ ~isDestroyed /\ starts # 0
  BY <1>1, <1>2 DEF Sole, Live
<1>4. Agree
  BY <1>1, <1>3 DEF Alone
<1>5. reconnectTimer = Off
  BY <1>2, <1>3, <1>4 DEF Agree
<1>6. sockets'[s] = "open" /\ \A x \in Sockets \ {s} : sockets'[x] = sockets[x]
  BY <1>2, Types DEF Typed
<1>7. Live' = {ws}
  BY <1>1, <1>3, <1>6 DEF Sole, Live
<1>8. \A x \in Sockets : sockets'[x] = "closing" => sockets[x] = "closing"
  BY <1>6
<1>9. Sole'
  BY <1>1, <1>2, <1>3, <1>5, <1>7, <1>8 DEF Sole
<1>10. StateTellsTruth'
  BY <1>2, <1>3, <1>6 DEF StateTellsTruth, IsOpen
<1>11. inService => Attempted' = 0 /\ Scheduled' = 0
  BY <1>2, <1>5 DEF Attempted, Scheduled
<1>12. Agree'
  BY <1>2, <1>3, <1>5, <1>6, <1>7, <1>11 DEF Agree
<1> QED
  BY <1>9, <1>10, <1>12 DEF Alone

\* Both managers schedule, if at all, the attempt of the same number.
LEMMA AloneClose ==
  ASSUME IInv, NEW s \in Sockets, OnClose(s), UNCHANGED <<starts, inService>>, starts' <= 1,
         ~inService => reconnection'.timer = Off,
         inService => /\ reconnection'.state # "connected"
                      /\ reconnection'.attempts = reconnection.attempts
                      /\ reconnection.attempts = MaxAttempts => reconnection'.timer = Off
                      /\ reconnection.attempts < MaxAttempts
                           => reconnection'.timer = Delay(reconnection.attempts)
  PROVE  Alone'
<1>1. Alone /\ Sole
  BY DEF IInv, Alone
<1>2. /\ sockets[s] \in {"connecting", "open", "closing"}
      /\ sockets' = [sockets EXCEPT ![s] = "closed"]
      /\ ws' = ws /\ isConnecting' = FALSE /\ reconnectAttempts' = reconnectAttempts
      /\ isDestroyed' = isDestroyed /\ HandleReconnect
  BY DEF OnClose
<1>3. sockets'[s] = "closed" /\ \A x \in Sockets \ {s} : sockets'[x] = sockets[x]
  BY <1>2, Types DEF Typed
<1>4. starts # 0
  BY <1>1, <1>2 DEF Sole
<1>5. Live' = {}
  <2>1. Live \subseteq {s}
    BY <1>1, <1>2 DEF Sole, Live
  <2> QED
    BY <1>3, <2>1 DEF Live
<1>6. \A x \in Sockets : sockets'[x] = "closing" => sockets[x] = "closing"
  BY <1>3
<1>7. StateTellsTruth'
  BY <1>5 DEF StateTellsTruth, IsOpen, Live
<1>8. CASE isDestroyed
  <2>1. reconnectTimer' = reconnectTimer /\ orphans' = orphans
    BY <1>2, <1>8 DEF HandleReconnect
  <2>2. Sole'
    BY <1>1, <1>2, <1>4, <1>5, <1>6, <1>8, <2>1 DEF Sole
  <2> QED
    BY <1>2, <1>7, <1>8, <2>2 DEF Alone
<1>9. CASE ~isDestroyed
  <2>1. Agree /\ s \in Live /\ s = ws
    BY <1>1, <1>2, <1>9 DEF Alone, Sole, Live
  <2>2. reconnectTimer = Off /\ reconnection.timer = Off
    BY <1>2, <2>1 DEF Agree
  <2>3. /\ reconnectAttempts >= MaxReconnects => reconnectTimer' = Off
        /\ reconnectAttempts < MaxReconnects => reconnectTimer' = Delay(reconnectAttempts)
        /\ orphans' = orphans
    <3>1. reconnectAttempts \in Nat /\ MaxReconnects \in Nat
      BY Types, DelayAssumption
    <3> QED
      BY <1>2, <1>9, <2>2, <3>1 DEF HandleReconnect
  <2>4. reconnectAttempts \in Nat /\ reconnectAttempts <= MaxReconnects /\ MaxReconnects \in Nat
    BY Types, DelayAssumption
  <2>5. reconnection.attempts \in 0..MaxAttempts /\ MaxAttempts \in Nat
    BY Types, AttemptsAssumption DEF Bounded, Manager!ManagerType
  <2>6. /\ Delay(reconnectAttempts) # Off /\ Delay(reconnection.attempts) # Off
    <3>1. Delay(reconnectAttempts) \in 0..MaxDelay /\ Delay(reconnection.attempts) \in 0..MaxDelay
      BY <2>4, <2>5, DelayType
    <3> QED
      BY <3>1, DelayAssumption DEF Off
  <2>7. inService => \/ reconnectAttempts = reconnection.attempts
                     \/ reconnectAttempts = MaxReconnects
                          /\ reconnection.attempts >= reconnectAttempts
                     \/ reconnection.attempts = MaxAttempts
                          /\ reconnectAttempts >= reconnection.attempts
    <3>1. Attempted = reconnectAttempts /\ Scheduled = reconnection.attempts
      BY <2>2, <2>4, <2>5 DEF Attempted, Scheduled
    <3> QED
      BY <2>1, <3>1 DEF Agree
  <2>8. reconnectTimer' # Off => reconnectAttempts' < MaxReconnects
    BY <1>2, <2>3, <2>4
  <2>9. Sole'
    BY <1>1, <1>2, <1>4, <1>5, <1>6, <1>9, <2>3, <2>8 DEF Sole
  <2>10. reconnectTimer' # Off /\ reconnection'.timer # Off => reconnectTimer' = reconnection'.timer
    <3>1. ASSUME reconnectTimer' # Off, reconnection'.timer # Off
          PROVE  reconnectAttempts = reconnection.attempts /\ inService
      <4>1. inService /\ reconnectAttempts < MaxReconnects
        BY <1>2, <2>8, <3>1
      <4>2. reconnection.attempts < MaxAttempts
        BY <2>5, <3>1, <4>1
      <4> QED
        BY <2>4, <2>5, <2>7, <4>1, <4>2
    <3>2. ASSUME reconnectTimer' # Off, reconnection'.timer # Off
          PROVE  reconnectTimer' = reconnection'.timer
      BY <2>3, <2>4, <2>5, <3>1, <3>2
    <3> QED
      BY <3>2
  <2>11. inService' => \/ Attempted' = Scheduled'
                       \/ Attempted' = MaxReconnects /\ Scheduled' >= Attempted'
                       \/ Scheduled' = MaxAttempts /\ Attempted' >= Scheduled'
    <3> DEFINE a == reconnectAttempts
               b == reconnection.attempts
    <3>1. Attempted' = IF a < MaxReconnects THEN a + 1 ELSE MaxReconnects
      BY <1>2, <2>3, <2>4, <2>6 DEF Attempted
    <3>2. inService => Scheduled' = IF b < MaxAttempts THEN b + 1 ELSE MaxAttempts
      BY <2>5, <2>6 DEF Scheduled
    <3>3. a \in Nat /\ a <= MaxReconnects /\ MaxReconnects \in Nat
          /\ b \in 0..MaxAttempts /\ MaxAttempts \in Nat
      BY <2>4, <2>5
    <3>4. inService => \/ a = b
                       \/ a = MaxReconnects /\ b >= a
                       \/ b = MaxAttempts /\ a >= b
      BY <2>7
    <3> HIDE DEF a, b
    <3> QED
      BY <3>1, <3>2, <3>3, <3>4
  <2>12. Agree'
    BY <1>2, <1>5, <2>10, <2>11 DEF Agree
  <2> QED
    BY <1>7, <2>9, <2>12 DEF Alone
<1> QED
  BY <1>8, <1>9

LEMMA AloneSubscribe ==
  ASSUME IInv, NEW x \in Subs, Subscribe(x) \/ Unsubscribe(x), UNCHANGED <<starts, service>>,
         starts' <= 1
  PROVE  Alone'
<1>1. /\ sockets' = sockets /\ ws' = ws /\ reconnectTimer' = reconnectTimer /\ orphans' = orphans
      /\ reconnectAttempts' = reconnectAttempts /\ isDestroyed' = isDestroyed
      /\ isConnecting' = isConnecting
      /\ reconnection' = reconnection /\ inService' = inService /\ starts' = starts
  BY DEF Subscribe, Unsubscribe, service
<1>2. Alone
  BY <1>1 DEF IInv
<1> QED
  BY <1>1, <1>2 DEF Alone, Sole, Agree, StateTellsTruth, IsOpen, Live, Attempted, Scheduled

-----------------------------------------------------------------------------
(* The inductive invariant *)

LEMMA InvInit == Init => IInv
<1> SUFFICES ASSUME Init PROVE IInv
  OBVIOUS
<1>1. /\ sockets = [s \in Sockets |-> "closed"] /\ ws = NoSocket
      /\ isConnecting = FALSE /\ isDestroyed = FALSE
      /\ reconnectAttempts = 0 /\ reconnectTimer = Off
      /\ orphans = [t \in 0..MaxDelay |-> 0] /\ heartbeat = FALSE /\ subscriptions = {}
      /\ server = [s \in Sockets |-> {}] /\ starts = 0 /\ inService \in BOOLEAN
  BY DEF Init, WebSocketInit
<1>2. /\ reconnection \in Manager!ManagerType
      /\ reconnection.state = "disconnected" /\ reconnection.attempts = 0
      /\ reconnection.timer = Off
  BY AttemptsAssumption DEF Init, Manager!NewManager, Manager!ManagerType, Manager!States,
     Manager!NoTimer, Off
<1>3. ~IsOpen(ws) /\ Live = {}
  BY <1>1, SocketsAssumption DEF IsOpen, Live
<1>4. WebSocketTypeOK
  <2>1. {isConnecting, isDestroyed, heartbeat} \subseteq BOOLEAN
    BY <1>1
  <2>2. starts \in 0..MaxStarts /\ reconnectAttempts \in Nat /\ reconnectAttempts <= MaxReconnects
    BY <1>1, DelayAssumption
  <2> QED
    BY <1>1, <2>1, <2>2 DEF WebSocketTypeOK
<1>5. Common
  BY <1>1, <1>2, <1>3, <1>4, SocketsAssumption
  DEF Common, TypeOK, Server, ServerHasSubscriptions
<1>6. Sole
  BY <1>1, <1>2, <1>3 DEF Sole
<1>7. StateTellsTruth
  BY <1>2, <1>3 DEF StateTellsTruth
<1>8. Agree
  <2>1. Attempted = 0 /\ Scheduled = 0
    BY <1>1, <1>2 DEF Attempted, Scheduled
  <2> QED
    BY <1>1, <1>2, <1>3, <2>1 DEF Agree
<1> QED
  BY <1>5, <1>6, <1>7, <1>8 DEF IInv, Alone

LEMMA ServiceStep == ASSUME IInv, inService, ServiceNext PROVE IInv'
<1>1. /\ reconnection \in Manager!ManagerType
      /\ reconnection.timer # Off => reconnection.attempts < MaxAttempts
      /\ reconnection.attempts \in 0..MaxAttempts
      /\ reconnection.timer \in {Off} \cup 0..MaxDelay
  BY Types DEF Bounded, Manager!ManagerType, Manager!NoTimer, Off
<1>2. CASE Start
  BY <1>2, CommonStart, AloneStart DEF Start, IInv
<1>3. CASE Stop
  <2>1. Disconnect /\ UNCHANGED <<starts, inService>> /\ reconnection' = Manager!Reset(reconnection)
    BY <1>3 DEF Stop
  <2>2. /\ reconnection' \in Manager!ManagerType
        /\ reconnection'.state = "disconnected" /\ reconnection'.timer = Off
    BY <1>1, <2>1, ManagerSteps
  <2>3. Bounded'
    BY <2>2 DEF Bounded
  <2> QED
    BY <2>1, <2>2, <2>3, CommonStop, AloneStop DEF IInv
<1>4. CASE ManagerTimerFires
  <2>1. reconnection.timer = 0 /\ reconnection' = Manager!TimerFired(reconnection)
        /\ inService' = inService
    BY <1>4 DEF ManagerTimerFires
  <2>2. /\ reconnection' \in Manager!ManagerType /\ reconnection'.state = reconnection.state
        /\ reconnection'.attempts = reconnection.attempts + 1 /\ reconnection'.timer = Off
    BY <1>1, <2>1, ManagerSteps
  <2>3. Bounded'
    BY <2>1, <2>2 DEF Bounded
  <2> QED
    BY <1>4, <2>2, <2>3, CommonManagerTimer, AloneManagerTimer DEF IInv
<1>5. CASE SocketTimerFires
  BY <1>5, CommonSocketTimer, AloneSocketTimer DEF SocketTimerFires, IInv
<1>6. CASE Tick
  <2>1. /\ reconnection.timer # 0 /\ reconnection' = Manager!TimePasses(reconnection)
        /\ WebSocketTick /\ UNCHANGED <<starts, inService>>
    BY <1>6 DEF Tick
  <2>2. /\ reconnection' \in Manager!ManagerType /\ reconnection'.state = reconnection.state
        /\ reconnection'.attempts = reconnection.attempts
        /\ reconnection'.timer = Earlier(reconnection.timer)
    BY <1>1, <2>1, ManagerSteps
  <2>3. reconnection'.timer = Off <=> reconnection.timer = Off
    BY <1>1, <2>1, <2>2, EarlierType
  <2>4. Bounded'
    BY <1>1, <2>1, <2>2, <2>3 DEF Bounded
  <2> QED
    BY <2>1, <2>2, <2>4, CommonTick, AloneTick DEF IInv
<1>7. ASSUME NEW s \in Sockets, Open(s)
      PROVE  IInv'
  <2>1. /\ OnOpen(s) /\ UNCHANGED <<starts, inService>>
        /\ reconnection' = Manager!MarkConnected(reconnection)
    BY <1>7 DEF Open
  <2>2. /\ reconnection' \in Manager!ManagerType /\ reconnection'.state = "connected"
        /\ reconnection'.attempts = 0 /\ reconnection'.timer = Off
    BY <1>1, <2>1, ManagerSteps
  <2>3. Bounded'
    BY <2>1, <2>2 DEF Bounded
  <2> QED
    BY <2>1, <2>2, <2>3, CommonOpen, AloneOpen DEF IInv
<1>8. ASSUME NEW s \in Sockets, Close(s)
      PROVE  IInv'
  <2>1. /\ OnClose(s) /\ UNCHANGED <<starts, inService>>
        /\ reconnection' = Manager!ScheduleReconnect(Manager!MarkDisconnected(reconnection))
    BY <1>8 DEF Close
  <2>2. /\ reconnection' \in Manager!ManagerType /\ reconnection'.state # "connected"
        /\ reconnection'.attempts = reconnection.attempts
        /\ reconnection.attempts = MaxAttempts => reconnection'.timer = Off
        /\ reconnection.attempts < MaxAttempts
             => reconnection'.timer = Delay(reconnection.attempts)
    BY <1>1, <2>1, ManagerSteps
  <2>3. Bounded'
    <3>1. reconnection'.timer # Off => reconnection'.attempts < MaxAttempts
      BY <1>1, <2>2, AttemptsAssumption
    <3> QED
      BY <2>1, <2>2, <3>1 DEF Bounded
  <2> QED
    BY <2>1, <2>2, <2>3, CommonClose, AloneClose DEF IInv
<1> QED
  BY <1>2, <1>3, <1>4, <1>5, <1>6, <1>7, <1>8 DEF ServiceNext

LEMMA ApplicationStep ==
  ASSUME IInv, ~inService, WebSocketNext, UNCHANGED service
  PROVE  IInv'
<1>1. /\ reconnection' = reconnection /\ inService' = inService
      /\ reconnection.state = "disconnected" /\ reconnection.timer = Off
  BY Types DEF service, Bounded
<1>2. Bounded'
  BY <1>1, Types DEF Bounded
<1>3. CASE ApplicationConnects
  BY <1>3, CommonStart, AloneStart DEF IInv
<1>4. CASE Cleanup
  BY <1>1, <1>2, <1>4, CommonStop, AloneStop DEF Cleanup, IInv
<1>5. CASE ReconnectTimerFires /\ UNCHANGED starts
  BY <1>5, CommonSocketTimer, AloneSocketTimer DEF IInv
<1>6. CASE WebSocketTick /\ UNCHANGED starts
  <2>1. Earlier(reconnection.timer) = Off /\ reconnection.timer # 0
    BY <1>1 DEF Earlier, Off
  <2> QED
    BY <1>1, <1>2, <1>6, <2>1, CommonTick, AloneTick DEF IInv
<1>7. ASSUME NEW s \in Sockets, OnOpen(s), UNCHANGED starts
      PROVE  IInv'
  BY <1>1, <1>2, <1>7, CommonOpen, AloneOpen DEF IInv
<1>8. ASSUME NEW s \in Sockets, OnClose(s), UNCHANGED starts
      PROVE  IInv'
  BY <1>1, <1>2, <1>8, CommonClose, AloneClose DEF IInv
<1>9. ASSUME NEW x \in Subs, Subscribe(x) \/ Unsubscribe(x), UNCHANGED starts
      PROVE  IInv'
  BY <1>9, CommonSubscribe, AloneSubscribe DEF IInv
<1> QED
  BY <1>3, <1>4, <1>5, <1>6, <1>7, <1>8, <1>9 DEF WebSocketNext

LEMMA InvStep == ASSUME IInv, [Next]_vars PROVE IInv'
<1>1. CASE UNCHANGED vars
  BY <1>1 DEF vars, wsVars, IInv, Common, Alone, Sole, Agree, TypeOK, WebSocketTypeOK, Server,
     ServerHasSubscriptions, StateTellsTruth, IsOpen, Live, Attempted, Scheduled
<1>2. CASE inService /\ ServiceNext
  BY <1>2, ServiceStep
<1>3. CASE ~inService /\ WebSocketNext /\ UNCHANGED service
  BY <1>3, ApplicationStep
<1> QED
  BY <1>1, <1>2, <1>3 DEF Next

(* The inductive invariant holds: the WebSocketManager and the
   ReconnectionManager, which know nothing of each other, stay in step. *)
THEOREM Invariance == Spec => []IInv
<1> QED
  BY InvInit, InvStep, PTL DEF Spec

-----------------------------------------------------------------------------
(* Every variable of both managers keeps its type; a manager connected once by
   the application never exceeds config.reconnectAttempts, and the
   ReconnectionManager never maxAttempts. *)
THEOREM TypeCorrect == Spec => []TypeOK
<1>1. IInv => TypeOK
  BY DEF IInv, Common
<1> QED
  BY <1>1, Invariance, PTL

(* Although a lost connection is answered by two backoff timers, connect() is
   never effective while a socket connects or is open, if the application called
   it once: there is at most one live connection. *)
THEOREM OneConnection == Spec => []SingleConnection
<1>1. IInv => SingleConnection
  <2> SUFFICES ASSUME IInv, starts <= 1 PROVE Cardinality(Live) <= 1
    BY DEF SingleConnection
  <2>1. Live \subseteq {ws}
    BY DEF IInv, Alone, Sole
  <2>2. Live = {} \/ Live = {ws}
    BY <2>1
  <2>3. Cardinality({}) = 0 /\ Cardinality({ws}) = 1
    BY FS_EmptySet, FS_Singleton
  <2> QED
    BY <2>2, <2>3
<1> QED
  BY <1>1, Invariance, PTL

(* resubscribeAll() on every new socket, and subscribe() and unsubscribe() on an
   open one, keep the server of the current connection up to date, however often
   the application connects and whichever socket opens late. *)
THEOREM ServerUpToDate == Spec => []ServerHasSubscriptions
<1>1. IInv => ServerHasSubscriptions
  BY DEF IInv, Common, Server
<1> QED
  BY <1>1, Invariance, PTL

(* The state the SubscriptionService reports is "connected" exactly while the
   current socket is open. *)
THEOREM StateIsTrue == Spec => []StateTellsTruth
<1>1. IInv => StateTellsTruth
  BY DEF IInv, Alone, StateTellsTruth
<1> QED
  BY <1>1, Invariance, PTL
=============================================================================
