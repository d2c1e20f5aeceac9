----------------------- MODULE ConcurrencyQueueProofs -----------------------
(***************************************************************************)
(* Theorems about ConcurrencyQueue for every set of requests and every set *)
(* of configurations.  The invariant of the queue is inductive as a whole: *)
(* the active count is exact only because a waiting request is waiting     *)
(* once and not running, and a waiter is never stranded only because the   *)
(* count is exact.                                                         *)
(***************************************************************************)
EXTENDS ConcurrencyQueue, FiniteSetTheorems, SequenceTheorems, TLAPS

IInv ==
  /\ TypeOK
  /\ PendingIsWaitingOrRunning
  /\ ActiveCountExact
  /\ TimeoutsAreWaiting
  /\ NoStrandedQueue

-----------------------------------------------------------------------------
(* Lemmas about queues *)

\* The first k entries of a queue without duplicates are k requests.
LEMMA PrefixCardinality ==
  ASSUME NEW q \in Seq(Requests), IsInjective(q), NEW k \in 0..Len(q)
  PROVE  /\ IsFiniteSet({q[i] : i \in 1..k})
         /\ Cardinality({q[i] : i \in 1..k}) = k
<1> DEFINE P == {q[i] : i \in 1..k}
           f == [i \in 1..k |-> q[i]]
<1>1. DOMAIN q = 1..Len(q) /\ \A i \in 1..k : i \in DOMAIN q
  OBVIOUS
<1>2. f \in [1..k -> P]
  OBVIOUS
<1>3. \A i, j \in 1..k : f[i] = f[j] => i = j
  BY <1>1 DEF IsInjective
<1>4. \A p \in P : \E i \in 1..k : f[i] = p
  OBVIOUS
<1>5. f \in Bijection(1..k, P)
  BY <1>2, <1>3, <1>4 DEF Bijection, Injection, Surjection, IsInjective
<1>6. ExistsBijection(1..k, P)
  BY <1>5 DEF ExistsBijection
<1>7. IsFiniteSet(1..k) /\ Cardinality(1..k) = k
  BY FS_Interval
<1> QED
  BY <1>6, <1>7, FS_Bijection

\* Cutting k requests off the head of a queue without duplicates: the rest
\* holds the others, again without duplicates.
LEMMA SuffixOfQueue ==
  ASSUME NEW q \in Seq(Requests), IsInjective(q), NEW k \in 0..Len(q)
  PROVE  /\ SubSeq(q, k + 1, Len(q)) \in Seq(Requests)
         /\ Len(SubSeq(q, k + 1, Len(q))) = Len(q) - k
         /\ IsInjective(SubSeq(q, k + 1, Len(q)))
         /\ Range(SubSeq(q, k + 1, Len(q))) \cap {q[i] : i \in 1..k} = {}
         /\ Range(SubSeq(q, k + 1, Len(q))) \cup {q[i] : i \in 1..k} = Range(q)
<1>0. SUFFICES ASSUME NEW s, s = SubSeq(q, k + 1, Len(q)),
                    NEW P, P = {q[i] : i \in 1..k}
             PROVE  /\ s \in Seq(Requests)
                    /\ Len(s) = Len(q) - k
                    /\ IsInjective(s)
                    /\ Range(s) \cap P = {}
                    /\ Range(s) \cup P = Range(q)
  OBVIOUS
<1>1. \A i \in (k + 1)..Len(q) : q[i] \in Requests
  OBVIOUS
<1>2. /\ s \in Seq(Requests)
      /\ Len(s) = IF k + 1 <= Len(q) THEN Len(q) - (k + 1) + 1 ELSE 0
      /\ \A i \in 1..(Len(q) - (k + 1) + 1) : s[i] = q[(k + 1) + i - 1]
  BY <1>0, <1>1, SubSeqProperties
<1>3. /\ Len(s) = Len(q) - k
      /\ \A i \in 1..(Len(q) - k) : s[i] = q[k + i]
  BY <1>2
<1>4. \A x : x \in P <=> \E i \in 1..k : x = q[i]
  BY <1>0
<1> DEFINE n == Len(q)
<1>5. n \in Nat /\ DOMAIN s = 1..(n - k) /\ DOMAIN q = 1..n
  BY <1>2, <1>3
<1>6. \A i \in DOMAIN s : k + i \in DOMAIN q /\ s[i] = q[k + i]
  BY <1>3, <1>5
<1>7. \A i \in 1..k : i \in DOMAIN q
  BY <1>5
<1>8. \A i \in DOMAIN s : i \in Nat \ {0}
  BY <1>5
<1>9. IsInjective(s)
  <2> SUFFICES ASSUME NEW a \in DOMAIN s, NEW b \in DOMAIN s, s[a] = s[b]
               PROVE  a = b
    BY DEF IsInjective
  <2>1. k + a = k + b
    BY <1>6 DEF IsInjective
  <2> QED
    BY <2>1, <1>8
<1>10. Range(s) \cap P = {}
  <2> SUFFICES ASSUME NEW a \in DOMAIN s, NEW i \in 1..k, s[a] = q[i]
               PROVE  FALSE
    BY <1>4 DEF Range
  <2>1. k + a = i
    BY <1>6, <1>7 DEF IsInjective
  <2> QED
    BY <2>1, <1>8
<1>11. Range(s) \cup P \subseteq Range(q)
  BY <1>4, <1>6, <1>7 DEF Range
<1>12. ASSUME NEW i \in DOMAIN q PROVE q[i] \in Range(s) \cup P
  <2>1. CASE i <= k
    <3>1. i \in 1..k
      BY <2>1, <1>5
    <3> QED
      BY <3>1, <1>4
  <2>2. CASE i > k
    <3>1. i - k \in DOMAIN s /\ k + (i - k) = i
      BY <2>2, <1>5
    <3>2. s[i - k] = q[i]
      BY <3>1, <1>6
    <3> QED
      BY <3>1, <3>2 DEF Range
  <2> QED
    BY <2>1, <2>2, <1>5
<1>13. Range(q) \subseteq Range(s) \cup P
  BY <1>12 DEF Range
<1> QED
  BY <1>2, <1>3, <1>9, <1>10, <1>11, <1>13

\* Appending a request that is not in the queue.
LEMMA AppendToQueue ==
  ASSUME NEW q \in Seq(Requests), IsInjective(q), NEW r \in Requests, r \notin Range(q)
  PROVE  /\ Append(q, r) \in Seq(Requests)
         /\ Append(q, r) # <<>>
         /\ IsInjective(Append(q, r))
         /\ Range(Append(q, r)) = Range(q) \cup {r}
<1> DEFINE s == Append(q, r)
<1>1. /\ s \in Seq(Requests)
      /\ s # <<>>
      /\ Len(s) = Len(q) + 1
      /\ \A i \in 1..Len(q) : s[i] = q[i]
      /\ s[Len(q) + 1] = r
  BY AppendProperties
<1>2. DOMAIN s = 1..(Len(q) + 1) /\ DOMAIN q = 1..Len(q)
  BY <1>1
<1>3. IsInjective(s)
  BY <1>1, <1>2 DEF IsInjective, Range
<1>4. Range(s) = Range(q) \cup {r}
  <2>1. \A i \in DOMAIN s : s[i] \in Range(q) \cup {r}
    BY <1>1, <1>2 DEF Range
  <2>2. \A i \in DOMAIN q : q[i] \in Range(s)
    BY <1>1, <1>2 DEF Range
  <2>3. r \in Range(s)
    BY <1>1, <1>2 DEF Range
  <2> QED
    BY <2>1, <2>2, <2>3 DEF Range
<1> QED
  BY <1>1, <1>3, <1>4

\* removeFromQueue() takes out the request and nothing else.
LEMMA RemovalFromQueue ==
  ASSUME NEW q \in Seq(Requests), IsInjective(q), NEW r \in Range(q)
  PROVE  /\ RemoveFromQueue(q, r) \in Seq(Requests)
         /\ IsInjective(RemoveFromQueue(q, r))
         /\ Range(RemoveFromQueue(q, r)) = Range(q) \ {r}
<1> DEFINE n == Len(q)
           i == CHOOSE x \in DOMAIN q : q[x] = r
           at(j) == IF j < i THEN j ELSE j + 1
           s == [j \in 1..(n - 1) |-> q[at(j)]]
<1>1. RemoveFromQueue(q, r) = s
  BY DEF RemoveFromQueue
<1>2. DOMAIN q = 1..n /\ n \in Nat
  OBVIOUS
<1>3. i \in 1..n /\ q[i] = r
  BY <1>2 DEF Range
<1> HIDE DEF i
<1>4. \A j \in 1..(n - 1) : at(j) \in 1..n /\ at(j) # i
  BY <1>2, <1>3
<1>5. s \in [1..(n - 1) -> Requests] /\ n - 1 \in Nat
  BY <1>2, <1>3, <1>4
<1>6. s \in Seq(Requests) /\ DOMAIN s = 1..(n - 1)
  BY <1>5
<1>7. IsInjective(s)
  <2> SUFFICES ASSUME NEW a \in 1..(n - 1), NEW b \in 1..(n - 1), s[a] = s[b]
               PROVE  a = b
    BY <1>6 DEF IsInjective
  <2>1. at(a) = at(b)
    BY <1>2, <1>4 DEF IsInjective
  <2> QED
    BY <2>1, <1>3
<1>8. Range(s) \subseteq Range(q) \ {r}
  BY <1>2, <1>3, <1>4, <1>6 DEF Range, IsInjective
<1>9. ASSUME NEW x \in 1..n, q[x] # r PROVE q[x] \in Range(s)
  <2>1. \E j \in 1..(n - 1) : at(j) = x
    <3>1. CASE x < i
      <4>1. x \in 1..(n - 1) /\ at(x) = x
        BY <3>1, <1>2, <1>3
      <4> QED
        BY <4>1
    <3>2. CASE x > i
      <4>1. x - 1 \in 1..(n - 1) /\ at(x - 1) = x
        BY <3>2, <1>2, <1>3
      <4> QED
        BY <4>1
    <3> QED
      BY <3>1, <3>2, <1>3, <1>9
  <2> QED
    BY <2>1, <1>6 DEF Range
<1>10. Range(q) \ {r} \subseteq Range(s)
  BY <1>2, <1>9 DEF Range
<1> HIDE DEF s
<1> QED
  BY <1>1, <1>6, <1>7, <1>8, <1>10

-----------------------------------------------------------------------------
(* The invariant *)

ConfigFacts == config \in Configs => config.max \in Nat \ {0} /\ config.rate \in Nat

LEMMA ConfigTyped == ConfigFacts
BY ConfigAssumption DEF ConfigFacts, ConfigType

\* processQueue() only moves requests from the queue to the running set, as
\* many as it counts, and leaves a waiter only behind a running request or a
\* timer.
LEMMA ProcessQueueMoves ==
  ASSUME config \in Configs, age \in 0..Interval, inInterval \in Nat,
         NEW q \in Seq(Requests), IsInjective(q),
         NEW r \in SUBSET Requests, Range(q) \cap r = {},
         NEW n \in Nat, n = Cardinality(r),
         NEW t \in {NoTimer} \cup 0..Interval,
         NEW armed \in SUBSET Range(q),
         ProcessQueue(q, n, r, t, armed)
  PROVE  /\ queue' \in Seq(Requests)
         /\ IsInjective(queue')
         /\ running' \in SUBSET Requests
         /\ Range(queue') \cap running' = {}
         /\ Range(queue') \cup running' = Range(q) \cup r
         /\ activeRequests' \in Nat
         /\ activeRequests' = Cardinality(running')
         /\ timeouts' \subseteq Range(queue')
         /\ inInterval' \in Nat
         /\ age' \in 0..Interval
         /\ throttleTimer' \in {NoTimer} \cup 0..Interval
         /\ queue' # <<>> => activeRequests' > 0 \/ throttleTimer' # NoTimer
<1> DEFINE Throttled == config.throttle /\ IsThrottled
           k == StartCount(q, n)
           started == {q[i] : i \in 1..k}
<1>1. CASE Throttled
  <2>1. /\ queue' = q /\ activeRequests' = n /\ running' = r /\ timeouts' = armed
        /\ throttleTimer' = Interval - age /\ inInterval' = inInterval /\ age' = age
    BY <1>1 DEF ProcessQueue
  <2>2. Interval - age \in 0..Interval /\ Interval - age # NoTimer
    BY IntervalAssumption DEF NoTimer
  <2> QED
    BY <2>1, <2>2
<1>2. CASE ~Throttled
  <2>1. /\ queue' = SubSeq(q, k + 1, Len(q))
        /\ activeRequests' = n + k
        /\ running' = r \cup started
        /\ timeouts' = armed \ started
        /\ inInterval' = (IF StartInterval THEN 0 ELSE inInterval) + k
        /\ age' = (IF StartInterval THEN 0 ELSE age)
        /\ throttleTimer' = t
    BY <1>2 DEF ProcessQueue
  <2>2. /\ k \in 0..Len(q)
        /\ k < Len(q) => n + k > 0
    BY ConfigTyped DEF ConfigFacts, StartCount
  <2>3. IsFiniteSet(started) /\ Cardinality(started) = k
    BY <2>2, PrefixCardinality
  <2>4. /\ queue' \in Seq(Requests)
        /\ Len(queue') = Len(q) - k
        /\ IsInjective(queue')
        /\ Range(queue') \cap started = {}
        /\ Range(queue') \cup started = Range(q)
    <3> HIDE DEF k
    <3> QED
      BY <2>1, <2>2, SuffixOfQueue
  <2>5. IsFiniteSet(r) /\ r \cap started = {}
    BY RequestsAssumption, FS_Subset, <2>4
  <2>6. Cardinality(r \cup started) = n + k
    <3>1. Cardinality(r \cap started) = 0
      BY <2>5, FS_EmptySet
    <3>2. Cardinality(r \cup started)
            = Cardinality(r) + Cardinality(started) - Cardinality(r \cap started)
      BY <2>3, <2>5, FS_Union
    <3> QED
      BY <3>1, <3>2, <2>3, <2>2
  <2>7. started \subseteq Requests
    BY <2>4, RangeOfSeq
  <2>8. queue' # <<>> => activeRequests' > 0
    BY <2>1, <2>2, <2>4
  <2>9. activeRequests' \in Nat /\ inInterval' \in Nat /\ age' \in 0..Interval
    BY <2>1, <2>2, IntervalAssumption
  <2> HIDE DEF started, k
  <2> QED
    BY <2>1, <2>4, <2>5, <2>6, <2>7, <2>8, <2>9
<1> QED
  BY <1>1, <1>2

LEMMA InvInit == Init => IInv
<1> SUFFICES ASSUME Init PROVE IInv
  OBVIOUS
<1>1. DOMAIN queue = {} /\ Range(queue) = {} /\ queue \in Seq(Requests)
  BY DEF Init, Range
<1>2. Cardinality({}) = 0
  BY FS_EmptySet
<1>3. TypeOK
  BY <1>1, ConfigAssumption, IntervalAssumption DEF Init, TypeOK, NoTimer, Outcomes
<1> QED
  BY <1>1, <1>2, <1>3
  DEF Init, IInv, PendingIsWaitingOrRunning, ActiveCountExact, TimeoutsAreWaiting,
      NoStrandedQueue, IsInjective

LEMMA ExecuteInv ==
  ASSUME IInv, NEW r \in Requests, Execute(r)
  PROVE  IInv'
<1> USE DEF IInv, TypeOK, PendingIsWaitingOrRunning, TimeoutsAreWaiting, ActiveCountExact
<1> DEFINE q == Append(queue, r)
           armed == IF config.timeout THEN timeouts \cup {r} ELSE timeouts
<1>1. r \notin Range(queue) /\ r \notin running
  BY DEF Execute
<1>2. /\ q \in Seq(Requests)
      /\ IsInjective(q)
      /\ Range(q) = Range(queue) \cup {r}
  BY <1>1, AppendToQueue
<1>3. ProcessQueue(q, activeRequests, running, throttleTimer, armed)
  BY DEF Execute
<1>4. armed \in SUBSET Range(q) /\ Range(q) \cap running = {}
  BY <1>1, <1>2
<1> HIDE DEF q, armed
<1>5. /\ queue' \in Seq(Requests)
      /\ IsInjective(queue')
      /\ running' \in SUBSET Requests
      /\ Range(queue') \cap running' = {}
      /\ Range(queue') \cup running' = Range(q) \cup running
      /\ activeRequests' \in Nat
      /\ activeRequests' = Cardinality(running')
      /\ timeouts' \subseteq Range(queue')
      /\ inInterval' \in Nat
      /\ age' \in 0..Interval
      /\ throttleTimer' \in {NoTimer} \cup 0..Interval
      /\ queue' # <<>> => activeRequests' > 0 \/ throttleTimer' # NoTimer
  BY <1>2, <1>3, <1>4, ProcessQueueMoves
<1>6. config' = config /\ outcome' = [outcome EXCEPT ![r] = "pending"]
  BY DEF Execute
<1>7. Range(queue') \subseteq Requests
  BY <1>5, RangeOfSeq
<1>8. outcome' \in [Requests -> Outcomes] /\ timeouts' \subseteq Requests
  BY <1>5, <1>6, <1>7 DEF Outcomes
<1>9. \A x \in Requests : (outcome'[x] = "pending") <=> (x \in Range(queue') \cup running')
  BY <1>2, <1>5, <1>6
<1> QED
  BY <1>5, <1>6, <1>8, <1>9 DEF NoStrandedQueue

LEMMA CompleteInv ==
  ASSUME IInv, NEW r \in Requests, Complete(r)
  PROVE  IInv'
<1> USE DEF IInv, TypeOK, PendingIsWaitingOrRunning, TimeoutsAreWaiting, ActiveCountExact
<1> DEFINE rest == running \ {r}
<1>1. r \in running /\ rest \in SUBSET Requests /\ Range(queue) \cap rest = {}
  BY DEF Complete
<1>2. activeRequests - 1 \in Nat /\ activeRequests - 1 = Cardinality(rest)
  <2>1. IsFiniteSet(running)
    BY RequestsAssumption, FS_Subset
  <2>2. IsFiniteSet(rest) /\ Cardinality(rest) = Cardinality(running) - 1
    BY <2>1, <1>1, FS_RemoveElement
  <2> QED
    BY <2>2, FS_CardinalityType
<1>3. ProcessQueue(queue, activeRequests - 1, rest, throttleTimer, timeouts)
  BY DEF Complete
<1>4. \E o \in {"resolved", "failed"} : outcome' = Settle({r}, o)
  BY DEF Complete
<1>5. /\ \A x \in Requests : outcome'[x] = "pending" <=> (outcome[x] = "pending" /\ x # r)
      /\ outcome' \in [Requests -> Outcomes]
  BY <1>4 DEF Settle, Outcomes
<1> HIDE DEF rest
<1>6. /\ queue' \in Seq(Requests)
      /\ IsInjective(queue')
      /\ running' \in SUBSET Requests
      /\ Range(queue') \cap running' = {}
      /\ Range(queue') \cup running' = Range(queue) \cup rest
      /\ activeRequests' \in Nat
      /\ activeRequests' = Cardinality(running')
      /\ timeouts' \subseteq Range(queue')
      /\ inInterval' \in Nat
      /\ age' \in 0..Interval
      /\ throttleTimer' \in {NoTimer} \cup 0..Interval
      /\ queue' # <<>> => activeRequests' > 0 \/ throttleTimer' # NoTimer
  BY <1>1, <1>2, <1>3, ProcessQueueMoves
<1>7. timeouts' \subseteq Requests
  BY <1>6, RangeOfSeq
<1>8. \A x \in Requests : (outcome'[x] = "pending") <=> (x \in Range(queue') \cup running')
  BY <1>1, <1>5, <1>6 DEF rest
<1>9. config' = config
  BY DEF Complete
<1> QED
  BY <1>5, <1>6, <1>7, <1>8, <1>9 DEF NoStrandedQueue

LEMMA QueueTimeoutInv ==
  ASSUME IInv, NEW r \in Requests, QueueTimeout(r)
  PROVE  IInv'
<1> USE DEF IInv, TypeOK, PendingIsWaitingOrRunning, TimeoutsAreWaiting, ActiveCountExact
<1>1. r \in Range(queue)
  BY DEF QueueTimeout
<1>2. /\ queue' \in Seq(Requests)
      /\ IsInjective(queue')
      /\ Range(queue') = Range(queue) \ {r}
  BY <1>1, RemovalFromQueue DEF QueueTimeout
<1>3. timeouts' = timeouts \ {r} /\ outcome' = Settle({r}, "timedOut")
  BY DEF QueueTimeout
<1>4. UNCHANGED <<config, activeRequests, inInterval, age, throttleTimer, running>>
  BY DEF QueueTimeout
<1>5. /\ \A x \in Requests : outcome'[x] = "pending" <=> (outcome[x] = "pending" /\ x # r)
      /\ outcome' \in [Requests -> Outcomes]
  BY <1>3 DEF Settle, Outcomes
<1>6. \A x \in Requests : (outcome'[x] = "pending") <=> (x \in Range(queue') \cup running')
  BY <1>1, <1>2, <1>4, <1>5
<1>7. queue # <<>>
  BY <1>1 DEF Range
<1> QED
  BY <1>2, <1>3, <1>4, <1>5, <1>6, <1>7 DEF NoStrandedQueue

LEMMA ThrottleTimerInv ==
  ASSUME IInv, ThrottleTimerFires
  PROVE  IInv'
<1> USE DEF IInv, TypeOK, PendingIsWaitingOrRunning, TimeoutsAreWaiting, ActiveCountExact
<1>1. /\ ProcessQueue(queue, activeRequests, running, NoTimer, timeouts)
      /\ config' = config /\ outcome' = outcome
  BY DEF ThrottleTimerFires
<1>2. /\ queue' \in Seq(Requests)
      /\ IsInjective(queue')
      /\ running' \in SUBSET Requests
      /\ Range(queue') \cap running' = {}
      /\ Range(queue') \cup running' = Range(queue) \cup running
      /\ activeRequests' \in Nat
      /\ activeRequests' = Cardinality(running')
      /\ timeouts' \subseteq Range(queue')
      /\ inInterval' \in Nat
      /\ age' \in 0..Interval
      /\ throttleTimer' \in {NoTimer} \cup 0..Interval
      /\ queue' # <<>> => activeRequests' > 0 \/ throttleTimer' # NoTimer
  BY <1>1, ProcessQueueMoves
<1>3. timeouts' \subseteq Requests
  BY <1>2, RangeOfSeq
<1> QED
  BY <1>1, <1>2, <1>3 DEF NoStrandedQueue

LEMMA ClearQueueInv ==
  ASSUME IInv, ClearQueue
  PROVE  IInv'
<1> USE DEF IInv, TypeOK, PendingIsWaitingOrRunning, TimeoutsAreWaiting, ActiveCountExact
<1>1. /\ queue' = <<>>
      /\ timeouts' = timeouts \ Range(queue)
      /\ throttleTimer' = NoTimer
      /\ outcome' = Settle(Range(queue), "cleared")
      /\ UNCHANGED <<config, activeRequests, inInterval, age, running>>
  BY DEF ClearQueue
<1>2. queue' \in Seq(Requests) /\ IsInjective(queue') /\ Range(queue') = {}
  BY <1>1 DEF IsInjective, Range
<1>3. /\ \A x \in Requests :
           outcome'[x] = "pending" <=> (outcome[x] = "pending" /\ x \notin Range(queue))
      /\ outcome' \in [Requests -> Outcomes]
  BY <1>1 DEF Settle, Outcomes
<1>4. \A x \in Requests : (outcome'[x] = "pending") <=> (x \in Range(queue') \cup running')
  BY <1>1, <1>2, <1>3
<1>5. timeouts' = {}
  BY <1>1
<1> QED
  BY <1>1, <1>2, <1>3, <1>4, <1>5 DEF NoStrandedQueue

LEMMA NextInv == IInv /\ [Next]_vars => IInv'
<1> SUFFICES ASSUME IInv, [Next]_vars PROVE IInv'
  OBVIOUS
<1> USE DEF IInv, TypeOK, PendingIsWaitingOrRunning, TimeoutsAreWaiting,
            ActiveCountExact, NoStrandedQueue
<1>1. ASSUME NEW c \in Configs, UpdateConfig(c) PROVE IInv'
  BY <1>1 DEF UpdateConfig
<1>2. CASE GetQueueStatus
  BY <1>2, IntervalAssumption DEF GetQueueStatus
<1>3. CASE Tick
  <2>1. age' \in 0..Interval /\ throttleTimer' \in {NoTimer} \cup 0..Interval
        /\ (throttleTimer # NoTimer => throttleTimer' # NoTimer)
    BY <1>3, IntervalAssumption DEF Tick, NoTimer
  <2>2. UNCHANGED <<config, queue, activeRequests, inInterval, timeouts, running, outcome>>
    BY <1>3 DEF Tick
  <2> QED
    BY <2>1, <2>2
<1>4. CASE UNCHANGED vars
  BY <1>4 DEF vars
<1> QED
  BY <1>1, <1>2, <1>3, <1>4, ExecuteInv, CompleteInv, QueueTimeoutInv,
     ThrottleTimerInv, ClearQueueInv DEF Next

THEOREM QueueInvariant == Spec => []IInv
BY InvInit, NextInv, PTL DEF Spec

\* The variables of the model keep their types.
THEOREM TypeCorrect == Spec => []TypeOK
BY QueueInvariant, PTL DEF IInv

\* Whatever the interleaving of calls, completions and timers, a promise of
\* execute() is pending exactly while its request waits or runs, and a
\* request is in one place: one that timed out or was cleared never runs.
THEOREM SettledRequestsAreGone == Spec => []PendingIsWaitingOrRunning
BY QueueInvariant, PTL DEF IInv

\* activeRequests is the number of requests in flight.
THEOREM ActiveCountIsExact == Spec => []ActiveCountExact
BY QueueInvariant, PTL DEF IInv

\* A waiting request always has a completion or a timer that will call
\* processQueue().
THEOREM NobodyStranded == Spec => []NoStrandedQueue
BY QueueInvariant, PTL DEF IInv

-----------------------------------------------------------------------------
(* Action properties *)

LEMMA ProcessQueueLimit ==
  ASSUME config \in Configs, NEW q \in Seq(Requests), NEW n \in Nat, NEW r, NEW t, NEW armed,
         ProcessQueue(q, n, r, t, armed)
  PROVE  running' \subseteq r \/ activeRequests' <= config.max
<1> DEFINE k == StartCount(q, n)
<1>1. CASE config.throttle /\ IsThrottled
  BY <1>1 DEF ProcessQueue
<1>2. CASE ~(config.throttle /\ IsThrottled)
  <2>1. activeRequests' = n + k /\ running' = r \cup {q[i] : i \in 1..k}
    BY <1>2 DEF ProcessQueue
  <2>2. k \in Nat /\ (k = 0 \/ n + k <= config.max)
    BY ConfigTyped DEF ConfigFacts, StartCount
  <2> HIDE DEF k
  <2> QED
    BY <2>1, <2>2
<1> QED
  BY <1>1, <1>2

\* The active count of a queue in which something runs can be decremented.
LEMMA CountPositive ==
  ASSUME IInv, NEW r \in running
  PROVE  activeRequests - 1 \in Nat
<1> USE DEF IInv, TypeOK
<1>1. IsFiniteSet(running)
  BY RequestsAssumption, FS_Subset
<1>2. Cardinality(running) # 0 /\ Cardinality(running) \in Nat
  BY <1>1, FS_EmptySet, FS_CardinalityType
<1> QED
  BY <1>2 DEF ActiveCountExact

LEMMA StartStep ==
  IInv /\ [Next]_vars => running' \subseteq running \/ activeRequests' <= config'.max
<1> DEFINE Within == running' \subseteq running \/ activeRequests' <= config'.max
<1>1. IInv /\ [Next]_vars => Within
  <2> SUFFICES ASSUME IInv, [Next]_vars PROVE Within
    OBVIOUS
  <2> USE DEF IInv, TypeOK
  <2>1. ASSUME NEW r \in Requests, Execute(r) PROVE Within
    <3>1. Append(queue, r) \in Seq(Requests)
      OBVIOUS
    <3> QED
      BY <2>1, <3>1, ProcessQueueLimit DEF Execute
  <2>2. ASSUME NEW r \in Requests, Complete(r) PROVE Within
    <3>1. activeRequests - 1 \in Nat
      BY <2>2, CountPositive DEF Complete
    <3>2. running' \subseteq running \ {r} \/ activeRequests' <= config.max
      BY <2>2, <3>1, ProcessQueueLimit DEF Complete
    <3> QED
      BY <2>2, <3>2 DEF Complete
  <2>3. CASE ThrottleTimerFires
    BY <2>3, ProcessQueueLimit DEF ThrottleTimerFires
  <2> QED
    BY <2>1, <2>2, <2>3
    DEF Next, vars, QueueTimeout, ClearQueue, UpdateConfig, GetQueueStatus, Tick
<1> QED
  BY <1>1

\* No step starts a request beyond the limit in force, whatever updateConfig()
\* and the completions did before.
THEOREM StartsRespectLimit == Spec => StartsWithinLimit
<1>1. IInv /\ [Next]_vars => [running' \subseteq running \/ activeRequests' <= config'.max]_vars
  BY StartStep
<1> QED
  BY <1>1, QueueInvariant, PTL DEF Spec, StartsWithinLimit

\* The order two requests have in a queue is the order in which processQueue()
\* takes them.
LEMMA ProcessQueueFifo ==
  ASSUME config \in Configs, NEW q \in Seq(Requests), IsInjective(q), NEW n \in Nat,
         NEW r, Range(q) \cap r = {}, NEW t, NEW armed,
         ProcessQueue(q, n, r, t, armed),
         NEW x, NEW y, Ahead(q, x, y)
  PROVE  /\ y \in running' => x \in running'
         /\ {x, y} \subseteq Range(queue') => Ahead(queue', x, y)
<1> DEFINE k == StartCount(q, n)
           started == {q[i] : i \in 1..k}
<1>1. PICK i, j \in DOMAIN q : i < j /\ q[i] = x /\ q[j] = y
  BY DEF Ahead
<1>2. y \notin r /\ DOMAIN q = 1..Len(q)
  BY <1>1 DEF Range
<1>3. CASE config.throttle /\ IsThrottled
  BY <1>2, <1>3 DEF ProcessQueue
<1>4. CASE ~(config.throttle /\ IsThrottled)
  <2>1. running' = r \cup started /\ queue' = SubSeq(q, k + 1, Len(q))
    BY <1>4 DEF ProcessQueue
  <2>2. k \in 0..Len(q)
    BY ConfigTyped DEF ConfigFacts, StartCount
  <2> HIDE DEF k
  <2>3. ASSUME y \in running' PROVE x \in running'
    <3>1. PICK z \in 1..k : q[z] = y
      BY <1>2, <2>1, <2>3
    <3>2. z = j
      BY <1>1, <1>2, <2>2, <3>1 DEF IsInjective
    <3> QED
      BY <1>1, <1>2, <2>1, <2>2, <3>2
  <2>4. ASSUME x \in Range(queue') PROVE Ahead(queue', x, y)
    <3>1. Range(queue') \cap started = {} /\ queue' \in Seq(Requests)
          /\ Len(queue') = Len(q) - k
      BY <2>1, <2>2, SuffixOfQueue
    <3>2. i > k
      <4>1. x \notin started
        BY <2>4, <3>1
      <4>2. i \notin 1..k
        BY <1>1, <4>1
      <4> QED
        BY <1>2, <2>2, <4>2
    <3>3. \A z \in (k + 1)..Len(q) : q[z] \in Requests
      BY <2>2
    <3>4. \A z \in 1..(Len(q) - k) : queue'[z] = q[k + z]
      <4>1. \A z \in 1..(Len(q) - (k + 1) + 1) :
               SubSeq(q, k + 1, Len(q))[z] = q[(k + 1) + z - 1]
        BY <2>2, <3>3, SubSeqProperties
      <4> QED
        BY <2>1, <2>2, <4>1
    <3>5. i - k \in DOMAIN queue' /\ j - k \in DOMAIN queue' /\ i - k < j - k
      BY <1>1, <1>2, <2>2, <3>1, <3>2
    <3>6. queue'[i - k] = x /\ queue'[j - k] = y
      <4>1. /\ i - k \in 1..(Len(q) - k) /\ k + (i - k) = i
            /\ j - k \in 1..(Len(q) - k) /\ k + (j - k) = j
        BY <1>1, <1>2, <2>2, <3>2
      <4> QED
        BY <1>1, <3>4, <4>1
    <3> QED
      BY <3>5, <3>6 DEF Ahead
  <2> QED
    BY <2>3, <2>4
<1> QED
  BY <1>3, <1>4

LEMMA RemovalKeepsOrder ==
  ASSUME NEW q \in Seq(Requests), IsInjective(q), NEW r \in Range(q), NEW x, NEW y,
         Ahead(q, x, y), x # r, y # r
  PROVE  Ahead(RemoveFromQueue(q, r), x, y)
<1> DEFINE n == Len(q)
           i == CHOOSE z \in DOMAIN q : q[z] = r
           at(j) == IF j < i THEN j ELSE j + 1
           back(j) == IF j < i THEN j ELSE j - 1
           s == [j \in 1..(n - 1) |-> q[at(j)]]
<1>1. RemoveFromQueue(q, r) = s /\ DOMAIN q = 1..n /\ n \in Nat
  BY DEF RemoveFromQueue
<1>2. i \in 1..n /\ q[i] = r
  BY <1>1 DEF Range
<1> HIDE DEF i
<1>3. PICK a, b \in 1..n : a < b /\ q[a] = x /\ q[b] = y
  BY <1>1 DEF Ahead
<1>4. a # i /\ b # i
  BY <1>2, <1>3
<1>5. /\ back(a) \in 1..(n - 1) /\ at(back(a)) = a
      /\ back(b) \in 1..(n - 1) /\ at(back(b)) = b
      /\ back(a) < back(b)
  BY <1>1, <1>2, <1>3, <1>4
<1>6. DOMAIN s = 1..(n - 1) /\ s[back(a)] = x /\ s[back(b)] = y
  BY <1>3, <1>5
<1> HIDE DEF s, back
<1>7. Ahead(s, x, y)
  BY <1>5, <1>6 DEF Ahead
<1> QED
  BY <1>1, <1>7

LEMMA FifoStep ==
  ASSUME IInv, Next, NEW x \in Requests, NEW y \in Requests, WaitsLonger(x, y)
  PROVE  /\ y \in running' => x \in running'
         /\ {x, y} \subseteq Range(queue') => Ahead(queue', x, y)
<1> DEFINE Fifo == /\ y \in running' => x \in running'
                   /\ {x, y} \subseteq Range(queue') => Ahead(queue', x, y)
<1> USE DEF IInv, TypeOK, PendingIsWaitingOrRunning
<1>1. x \in Range(queue) /\ y \notin running
  BY DEF WaitsLonger, Ahead, Range
<1>2. ASSUME NEW r \in Requests, Execute(r) PROVE Fifo
  <2> DEFINE q == Append(queue, r)
             armed == IF config.timeout THEN timeouts \cup {r} ELSE timeouts
  <2>1. r \notin Range(queue) /\ r \notin running
    BY <1>2 DEF Execute
  <2>2. /\ q \in Seq(Requests)
        /\ IsInjective(q)
        /\ Range(q) = Range(queue) \cup {r}
        /\ Len(q) = Len(queue) + 1
        /\ \A i \in 1..Len(queue) : q[i] = queue[i]
        /\ q[Len(queue) + 1] = r
    BY <2>1, AppendToQueue, AppendProperties
  <2>3. ProcessQueue(q, activeRequests, running, throttleTimer, armed)
    BY <1>2 DEF Execute
  <2> HIDE DEF q, armed
  <2>4. DOMAIN q = 1..(Len(queue) + 1) /\ DOMAIN queue = 1..Len(queue)
    BY <2>2
  <2>5. CASE Ahead(queue, x, y)
    <3>1. Ahead(q, x, y)
      BY <2>2, <2>4, <2>5 DEF Ahead
    <3> QED
      BY <2>1, <2>2, <2>3, <3>1, ProcessQueueFifo
  <2>6. CASE ~Ahead(queue, x, y) /\ y = r
    <3>1. PICK i \in 1..Len(queue) : queue[i] = x
      BY <1>1, <2>4 DEF Range
    <3>2. i \in DOMAIN q /\ Len(queue) + 1 \in DOMAIN q /\ i < Len(queue) + 1
      BY <2>4
    <3>3. Ahead(q, x, y)
      BY <2>2, <2>6, <3>1, <3>2 DEF Ahead
    <3> QED
      BY <2>1, <2>2, <2>3, <3>3, ProcessQueueFifo
  <2>7. CASE ~Ahead(queue, x, y) /\ y # r
    <3>1. outcome'[y] = "unsubmitted"
      BY <1>2, <2>7 DEF Execute, WaitsLonger
    <3>2. IInv'
      BY <1>2, ExecuteInv
    <3> QED
      BY <3>1, <3>2
  <2> QED
    BY <2>5, <2>6, <2>7
<1>3. ASSUME Next, ~\E r \in Requests : Execute(r) PROVE Ahead(queue, x, y) \/ Fifo
  <2>1. CASE outcome[y] = "unsubmitted"
    <3>1. IInv'
      BY NextInv
    <3>2. outcome'[y] = "unsubmitted"
      BY <1>3, <2>1 DEF Next, Complete, QueueTimeout, ThrottleTimerFires, ClearQueue,
                        UpdateConfig, GetQueueStatus, Tick, Settle
    <3> QED
      BY <3>1, <3>2
  <2> QED
    BY <2>1 DEF WaitsLonger
<1>4. ASSUME NEW r \in Requests, Complete(r), Ahead(queue, x, y) PROVE Fifo
  <2>1. activeRequests - 1 \in Nat
    BY <1>4, CountPositive DEF Complete
  <2>2. ProcessQueue(queue, activeRequests - 1, running \ {r}, throttleTimer, timeouts)
    BY <1>4 DEF Complete
  <2>3. Range(queue) \cap (running \ {r}) = {}
    OBVIOUS
  <2> QED
    BY <1>4, <2>1, <2>2, <2>3, ProcessQueueFifo
<1>5. ASSUME ThrottleTimerFires, Ahead(queue, x, y) PROVE Fifo
  <2>1. ProcessQueue(queue, activeRequests, running, NoTimer, timeouts)
    BY <1>5 DEF ThrottleTimerFires
  <2> QED
    BY <1>5, <2>1, ProcessQueueFifo
<1>6. ASSUME NEW r \in Requests, QueueTimeout(r), Ahead(queue, x, y) PROVE Fifo
  <2>1. r \in Range(queue) /\ running' = running
    BY <1>6 DEF QueueTimeout, TimeoutsAreWaiting
  <2>2. queue' = RemoveFromQueue(queue, r) /\ Range(queue') = Range(queue) \ {r}
    BY <1>6, <2>1, RemovalFromQueue DEF QueueTimeout
  <2>3. {x, y} \subseteq Range(queue') => Ahead(queue', x, y)
    BY <1>6, <2>1, <2>2, RemovalKeepsOrder
  <2> QED
    BY <1>1, <2>1, <2>3
<1>7. CASE ClearQueue
  <2>1. Range(queue') = {} /\ running' = running
    BY <1>7 DEF ClearQueue, Range
  <2> QED
    BY <1>1, <2>1
<1>8. ASSUME UNCHANGED <<queue, running>>, Ahead(queue, x, y) PROVE Fifo
  BY <1>1, <1>8 DEF Ahead
<1> QED
  BY <1>2, <1>3, <1>4, <1>5, <1>6, <1>7, <1>8 DEF Next, UpdateConfig, GetQueueStatus, Tick

\* Requests start in the order in which execute() was called, also when some
\* of them time out or the configuration changes meanwhile.
THEOREM StartsAreFifo == Spec => FifoStart
<1> DEFINE Fifo == \A x, y \in Requests : WaitsLonger(x, y) =>
                     /\ y \in running' => x \in running'
                     /\ {x, y} \subseteq Range(queue') => Ahead(queue', x, y)
<1>1. IInv /\ [Next]_vars => [Fifo]_vars
  BY FifoStep
<1> QED
  BY <1>1, QueueInvariant, PTL DEF Spec, FifoStart

-----------------------------------------------------------------------------
(* The throttle *)

LEMMA ProcessQueueOvershoot ==
  ASSUME config \in Configs, inInterval \in Nat, age \in 0..Interval, config.throttle,
         NEW q \in Seq(Requests), NEW n \in Nat, NEW r, NEW t, NEW armed,
         ProcessQueue(q, n, r, t, armed)
  PROVE  inInterval' = inInterval \/ inInterval' <= config.rate - 1 + config.max
<1> DEFINE k == StartCount(q, n)
<1>1. k \in Nat /\ k <= config.max /\ config.max \in Nat \ {0} /\ config.rate \in Nat \ {0}
  BY ConfigAssumption DEF StartCount, ConfigType
<1>2. CASE IsThrottled
  BY <1>2 DEF ProcessQueue
<1>3. CASE ~IsThrottled
  <2>1. inInterval' = (IF IntervalOver THEN 0 ELSE inInterval) + k
    BY <1>3 DEF ProcessQueue, StartInterval
  <2>2. IntervalOver \/ inInterval <= config.rate - 1
    BY <1>1, <1>3, IntervalAssumption DEF IsThrottled, IntervalOver
  <2> HIDE DEF k
  <2> QED
    BY <2>1, <2>2, <1>1
<1> QED
  BY <1>2, <1>3

\* With the throttle always on, an interval exceeds the rate by less than one
\* batch of maxConcurrentRequests.
THEOREM OvershootIsBounded == Spec => []OvershootBounded
<1> DEFINE Bounded == \E c, d \in Configs : inInterval <= c.rate - 1 + d.max
<1>1. Init => OvershootBounded
  BY ConfigAssumption DEF Init, OvershootBounded, ConfigType
<1>2. IInv /\ OvershootBounded /\ [Next]_vars => OvershootBounded'
  <2> SUFFICES ASSUME IInv, Bounded, [Next]_vars, \A c \in Configs : c.throttle
               PROVE  Bounded'
    BY DEF OvershootBounded
  <2> USE DEF IInv, TypeOK
  <2>1. config.throttle /\ config.max \in Nat /\ config.rate \in Nat \ {0}
    BY ConfigAssumption DEF ConfigType
  <2>2. ASSUME inInterval' = inInterval \/ inInterval' <= config.rate - 1 + config.max
        PROVE  Bounded'
    BY <2>2
  <2>3. ASSUME NEW r \in Requests, Execute(r) PROVE Bounded'
    <3>1. Append(queue, r) \in Seq(Requests)
      OBVIOUS
    <3> QED
      BY <2>1, <2>2, <2>3, <3>1, ProcessQueueOvershoot DEF Execute
  <2>4. ASSUME NEW r \in Requests, Complete(r) PROVE Bounded'
    <3>1. activeRequests - 1 \in Nat
      BY <2>4, CountPositive DEF Complete
    <3> QED
      BY <2>1, <2>2, <2>4, <3>1, ProcessQueueOvershoot DEF Complete
  <2>5. CASE ThrottleTimerFires
    BY <2>1, <2>2, <2>5, ProcessQueueOvershoot DEF ThrottleTimerFires
  <2>6. CASE GetQueueStatus
    BY <2>1, <2>2, <2>6 DEF GetQueueStatus
  <2> QED
    BY <2>2, <2>3, <2>4, <2>5, <2>6
    DEF Next, vars, QueueTimeout, ClearQueue, UpdateConfig, Tick
<1> QED
  BY <1>1, <1>2, QueueInvariant, PTL DEF Spec

-----------------------------------------------------------------------------
(* Refinement of the bounded executor *)

\* What a step may do to the promise and the place of one request.
RequestStep(x) ==
  /\ outcome[x] = "unsubmitted" => outcome'[x] \in {"unsubmitted", "pending"}
  /\ Settled(x) => outcome'[x] = outcome[x]
  /\ x \in Range(queue) => outcome'[x] \in {"pending", "timedOut", "cleared"}
  /\ x \in running => x \in running' \/ outcome'[x] \in {"resolved", "failed"}

LEMMA ProcessQueueKeepsRunning ==
  ASSUME NEW q, NEW n, NEW r, NEW t, NEW armed, ProcessQueue(q, n, r, t, armed)
  PROVE  r \subseteq running'
BY DEF ProcessQueue

LEMMA StepOfRequest ==
  ASSUME IInv, Next, NEW x \in Requests
  PROVE  RequestStep(x)
<1> USE DEF IInv, TypeOK, PendingIsWaitingOrRunning, RequestStep, Settled
<1>1. ASSUME NEW r \in Requests, Execute(r) PROVE RequestStep(x)
  <2>1. running \subseteq running'
    BY <1>1, ProcessQueueKeepsRunning DEF Execute
  <2> QED
    BY <1>1, <2>1 DEF Execute
<1>2. ASSUME NEW r \in Requests, Complete(r) PROVE RequestStep(x)
  <2>1. running \ {r} \subseteq running'
    BY <1>2, ProcessQueueKeepsRunning DEF Complete
  <2>2. PICK o \in {"resolved", "failed"} : outcome' = Settle({r}, o)
    BY <1>2 DEF Complete
  <2>3. outcome'[x] = IF x = r /\ outcome[x] = "pending" THEN o ELSE outcome[x]
    BY <2>2 DEF Settle
  <2>4. r \in running /\ outcome[r] = "pending"
    BY <1>2 DEF Complete
  <2> QED
    BY <2>1, <2>3, <2>4
<1>3. ASSUME NEW r \in Requests, QueueTimeout(r) PROVE RequestStep(x)
  <2>1. running' = running /\ r \in Range(queue)
    BY <1>3 DEF QueueTimeout, TimeoutsAreWaiting
  <2>2. outcome'[x] = IF x = r /\ outcome[x] = "pending" THEN "timedOut" ELSE outcome[x]
    BY <1>3 DEF QueueTimeout, Settle
  <2> QED
    BY <2>1, <2>2
<1>4. CASE ThrottleTimerFires
  <2>1. running \subseteq running' /\ outcome' = outcome
    BY <1>4, ProcessQueueKeepsRunning DEF ThrottleTimerFires
  <2> QED
    BY <2>1
<1>5. CASE ClearQueue
  BY <1>5 DEF ClearQueue, Settle
<1> QED
  BY <1>1, <1>2, <1>3, <1>4, <1>5 DEF Next, UpdateConfig, GetQueueStatus, Tick

\* The phase the abstract specification gives a request, by its place.
PlaceGivesPhase ==
  \A x \in Requests :
    /\ x \in running => Phase(x) = "running"
    /\ x \in Range(queue) => Phase(x) = "waiting"
    /\ outcome[x] = "unsubmitted" => Phase(x) = "new"
    /\ outcome[x] \in {"timedOut", "cleared"} => Phase(x) = "dropped"
    /\ outcome[x] \in {"resolved", "failed"} => Phase(x) = "done"
    /\ Phase(x) \in {"new", "waiting", "running", "done", "dropped"}

LEMMA PhaseOfPlace == IInv => PlaceGivesPhase
BY DEF IInv, TypeOK, PendingIsWaitingOrRunning, PlaceGivesPhase, Phase, Outcomes

SameRunning == Executor!InPhase("running") = running

LEMMA ExecutorRunning == IInv => SameRunning
<1> SUFFICES ASSUME IInv PROVE Executor!InPhase("running") = running
  BY DEF SameRunning
<1>1. \A x \in Requests : (Phase(x) = "running") <=> x \in running
  BY DEF Phase, IInv, TypeOK, Outcomes
<1> QED
  BY <1>1 DEF Executor!InPhase, IInv, TypeOK

LEMMA RequestMoves ==
  ASSUME IInv, IInv', NEW x \in Requests, RequestStep(x)
  PROVE  Phase(x)' # Phase(x) => <<Phase(x), Phase(x)'>> \in Executor!Moves
<1> USE DEF RequestStep, Settled, Executor!Moves
<1>0. PlaceGivesPhase /\ PlaceGivesPhase'
  BY PhaseOfPlace, PTL
<1>1. /\ x \in running' => Phase(x)' = "running"
      /\ x \in Range(queue') => Phase(x)' = "waiting"
      /\ outcome'[x] = "unsubmitted" => Phase(x)' = "new"
      /\ outcome'[x] \in {"timedOut", "cleared"} => Phase(x)' = "dropped"
      /\ outcome'[x] \in {"resolved", "failed"} => Phase(x)' = "done"
  BY <1>0 DEF PlaceGivesPhase
<1>2. (outcome'[x] = "pending") <=> (x \in Range(queue') \cup running')
  BY DEF IInv, PendingIsWaitingOrRunning
<1>3. (outcome[x] = "pending") <=> (x \in Range(queue) \cup running)
  BY DEF IInv, PendingIsWaitingOrRunning
<1>4. CASE x \in running
  BY <1>1, <1>4, <1>0 DEF PlaceGivesPhase
<1>5. CASE x \in Range(queue)
  BY <1>1, <1>2, <1>5, <1>0 DEF PlaceGivesPhase
<1>6. CASE outcome[x] = "unsubmitted"
  BY <1>1, <1>2, <1>6, <1>0 DEF PlaceGivesPhase
<1>7. CASE outcome[x] \in {"timedOut", "cleared", "resolved", "failed"}
  BY <1>1, <1>7, <1>0 DEF PlaceGivesPhase
<1> QED
  BY <1>3, <1>4, <1>5, <1>6, <1>7 DEF IInv, TypeOK, Outcomes

LEMMA ExecutorStep ==
  ASSUME IInv, IInv', Next
  PROVE  [Executor!Next]_<<[r \in Requests |-> Phase(r)], config.max>>
<1> DEFINE ph == [r \in Requests |-> Phase(r)]
<1>1. CASE \E c \in Configs : UpdateConfig(c)
  <2>1. config.max' \in Limits
    BY <1>1 DEF UpdateConfig, Limits
  <2>2. ph' = ph
    BY <1>1 DEF UpdateConfig, Phase
  <2> QED
    BY <2>1, <2>2 DEF Executor!Next, Executor!Reconfigure
<1>2. CASE ~\E c \in Configs : UpdateConfig(c)
  <2>1. config' = config
    BY <1>2 DEF Next, Execute, Complete, QueueTimeout, ThrottleTimerFires, ClearQueue,
                GetQueueStatus, Tick
  <2>2. \A x \in Requests : Phase(x)' # Phase(x) => <<Phase(x), Phase(x)'>> \in Executor!Moves
    BY StepOfRequest, RequestMoves
  <2>3. ph' \in [Requests -> Executor!Phases]
    <3>1. PlaceGivesPhase'
      BY PhaseOfPlace, PTL
    <3> QED
      BY <3>1 DEF PlaceGivesPhase, Executor!Phases
  <2>4. SameRunning /\ SameRunning'
    BY ExecutorRunning, PTL
  <2>5. Executor!InPhase("running") = running /\ Executor!InPhase("running")' = running'
    BY <2>4 DEF SameRunning
  <2>6. running' \subseteq running \/ Cardinality(running') <= config.max
    BY <2>1, StartStep DEF IInv, ActiveCountExact
  <2>7. Executor!Cardinality(running') = Cardinality(running')
    BY DEF Executor!Cardinality, Cardinality
  <2>8. Executor!Advance
    BY <2>1, <2>2, <2>3, <2>5, <2>6, <2>7 DEF Executor!Advance
  <2> QED
    BY <2>8 DEF Executor!Next
<1> QED
  BY <1>1, <1>2

\* The queue implements the bounded executor: every step of the code's queue
\* moves requests only along the executor's phases and within its limit.
THEOREM QueueImplementsExecutor == Spec => ImplementsExecutor
<1>1. Init => Executor!Init
  <2> SUFFICES ASSUME Init PROVE Executor!Init
    OBVIOUS
  <2>1. IInv /\ PlaceGivesPhase
    BY InvInit, PhaseOfPlace
  <2>2. \A r \in Requests : Phase(r) = "new"
    BY <2>1 DEF PlaceGivesPhase, Init
  <2>3. config.max \in Limits
    BY ConfigAssumption DEF Init, Limits
  <2> QED
    BY <2>2, <2>3 DEF Executor!Init
<1>2. IInv /\ IInv' /\ [Next]_vars
        => [Executor!Next]_<<[r \in Requests |-> Phase(r)], config.max>>
  <2>1. CASE Next
    BY <2>1, ExecutorStep
  <2>2. CASE UNCHANGED vars
    BY <2>2 DEF vars, Phase
  <2> QED
    BY <2>1, <2>2
<1> QED
  BY <1>1, <1>2, QueueInvariant, PTL DEF Spec, ImplementsExecutor, Executor!Spec
=============================================================================
