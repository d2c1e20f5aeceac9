----------------------- MODULE CloudWatchLoggerProofs -----------------------
(***************************************************************************)
(* Theorems about CloudWatchLogger for any entries, calls, overlapping     *)
(* flushes, batch size and number of retries.                              *)
(***************************************************************************)
EXTENDS CloudWatchLogger, SequenceTheorems, TLAPS

Phases == {"idle", "put", "stored", "describe", "backoff"}

\* A run of flush() that is over holds no batch, and one that waits will try
\* again.
FlushType ==
  {r \in [phase : Phases, batch : Seq(Entries), attempt : 1..MaxRetries,
          fresh : BOOLEAN, last : BOOLEAN] :
     /\ Len(r.batch) <= BatchSize
     /\ r.phase = "idle" => r.batch = <<>>
     /\ r.phase \in {"describe", "backoff"} => r.attempt < MaxRetries}

Batch(fl, f) == ToSet(fl[f].batch)

\* Where the entries are, with queue q, flushes fl, callers cs, entries stored
\* st and answers lost: an entry in the logger was accepted, is there once, and
\* is stored already only if CloudWatch has it twice or the logger was not told.
Placed(q, fl, cs, st, lost) ==
  /\ q \in Seq(Entries) /\ fl \in [Flushes -> FlushType]
  /\ IsInjective(q)
  /\ \A f \in Flushes :
       /\ IsInjective(fl[f].batch)
       /\ \A e \in Batch(fl, f) : /\ e \notin ToSet(q) /\ cs[e] = "done"
                                  /\ fl[f].phase = "stored" => st[e] > 0
                                  /\ fl[f].phase # "stored" /\ st[e] > 0 => e \in lost
                                  /\ \A g \in Flushes : e \in Batch(fl, g) => g = f
  /\ \A e \in ToSet(q) : cs[e] = "done" /\ (st[e] > 0 => e \in lost)
  /\ \A e \in Entries : /\ st[e] > 0 => cs[e] = "done"
                        /\ st[e] > 1 => e \in lost
                        /\ cs[e] = "done" => \/ st[e] > 0 \/ e \in ToSet(q)
                                             \/ \E f \in Flushes : e \in Batch(fl, f)

Simple ==
  /\ {flushTimer, tokenFresh, client, isInitialized, isDestroyed} \subseteq BOOLEAN
  /\ callers \in [Callers -> {"new", "loading", "group", "stream", "done", "rejected"}]
  /\ stored \in [Entries -> 0..2]
  /\ failures \in 0..MaxFailures
  /\ lostAcks \subseteq Entries /\ remaining \subseteq Entries

IInv == Simple /\ Placed(logQueue, flushes, callers, stored, lostAcks)

-----------------------------------------------------------------------------
(* Lemmas about sequences *)

LEMMA AppendSets ==
  ASSUME NEW q \in Seq(Entries), NEW e \in Entries, IsInjective(q), e \notin ToSet(q)
  PROVE  /\ Append(q, e) \in Seq(Entries) /\ IsInjective(Append(q, e))
         /\ ToSet(Append(q, e)) = ToSet(q) \cup {e}
<1> DEFINE a == Append(q, e)
<1>1. /\ a \in Seq(Entries) /\ Len(a) = Len(q) + 1 /\ Len(q) \in Nat
      /\ \A i \in 1..Len(q) : a[i] = q[i]
      /\ a[Len(q) + 1] = e
  BY AppendProperties, LenProperties
<1>2. DOMAIN q = 1..Len(q) /\ DOMAIN a = 1..(Len(q) + 1)
  BY <1>1, LenProperties
<1> HIDE DEF a
<1>3. IsInjective(a)
  BY <1>1, <1>2 DEF IsInjective, ToSet
<1>4. ToSet(a) = ToSet(q) \cup {e}
  BY <1>1, <1>2 DEF ToSet
<1> QED
  BY <1>1, <1>3, <1>4 DEF a

\* splice(): the batch and the rest of the queue.
LEMMA SplitSets ==
  ASSUME NEW q \in Seq(Entries), IsInjective(q), NEW k \in 0..Len(q)
  PROVE  LET b == SubSeq(q, 1, k)
             r == SubSeq(q, 1 + k, Len(q))
         IN  /\ b \in Seq(Entries) /\ r \in Seq(Entries) /\ Len(b) = k
             /\ IsInjective(b) /\ IsInjective(r)
             /\ ToSet(q) = ToSet(b) \cup ToSet(r) /\ ToSet(b) \cap ToSet(r) = {}
<1> DEFINE b == SubSeq(q, 1, k)
           r == SubSeq(q, 1 + k, Len(q))
           n == Len(q)
<1>1. n \in Nat /\ DOMAIN q = 1..n /\ \A i \in 1..n : q[i] \in Entries
  BY LenProperties, ElementOfSeq
<1>2. b \in Seq(Entries) /\ Len(b) = k /\ \A i \in 1..k : b[i] = q[i]
  BY <1>1, SubSeqProperties
<1>3. r \in Seq(Entries) /\ Len(r) = n - k /\ \A i \in 1..(n - k) : r[i] = q[k + i]
  <2>1. \A i \in (1 + k)..n : q[i] \in Entries
    BY <1>1
  <2>2. /\ r \in Seq(Entries) /\ Len(r) = IF 1 + k <= n THEN n - (1 + k) + 1 ELSE 0
        /\ \A i \in 1..(n - (1 + k) + 1) : r[i] = q[(1 + k) + i - 1]
    BY <1>1, <2>1, SubSeqProperties
  <2> HIDE DEF r
  <2>3. Len(r) = n - k
    <3>1. n \in Int /\ k \in Int /\ k <= n
      BY <1>1
    <3> HIDE DEF n
    <3>2. CASE 1 + k <= n
      <4>1. Len(r) = n - (1 + k) + 1
        BY <2>2, <3>2
      <4> QED
        BY <3>1, <4>1
    <3>3. CASE ~(1 + k <= n)
      <4>1. Len(r) = 0 /\ k = n
        BY <2>2, <3>1, <3>3
      <4> QED
        BY <3>1, <4>1
    <3> QED
      BY <3>2, <3>3
  <2>4. ASSUME NEW i \in 1..(n - k)
        PROVE  r[i] = q[k + i]
    <3>1. i \in 1..(n - (1 + k) + 1) /\ (1 + k) + i - 1 = k + i
      BY <1>1
    <3>2. r[i] = q[(1 + k) + i - 1]
      BY <2>2, <3>1
    <3> QED
      BY <3>1, <3>2
  <2> QED
    BY <2>2, <2>3, <2>4
<1> HIDE DEF b, r
<1>4. DOMAIN b = 1..k /\ DOMAIN r = 1..(n - k)
  BY <1>1, <1>2, <1>3, LenProperties
<1>a. \A i, j \in 1..n : q[i] = q[j] => i = j
  BY <1>1 DEF IsInjective
<1>b. ASSUME NEW i \in 1..(n - k)
      PROVE  k + i \in 1..n /\ k + i > k /\ r[i] = q[k + i]
  BY <1>1, <1>3
<1>5. IsInjective(b) /\ IsInjective(r)
  <2>1. IsInjective(b)
    BY <1>1, <1>2, <1>4, <1>a DEF IsInjective
  <2>2. ASSUME NEW i \in 1..(n - k), NEW j \in 1..(n - k), r[i] = r[j]
        PROVE  i = j
    <3>1. k + i = k + j
      BY <1>a, <1>b, <2>2
    <3> QED
      BY <1>1, <3>1
  <2> QED
    BY <1>4, <2>1, <2>2 DEF IsInjective
<1>6. ToSet(b) \cap ToSet(r) = {}
  <2>1. ASSUME NEW i \in 1..k, NEW j \in 1..(n - k)
        PROVE  b[i] # r[j]
    <3>1. i \in 1..n /\ k + j # i
      BY <1>1
    <3> QED
      BY <1>2, <1>a, <1>b, <3>1
  <2> QED
    BY <1>4, <2>1 DEF ToSet
<1>7. ToSet(q) = ToSet(b) \cup ToSet(r)
  <2>1. ASSUME NEW i \in 1..n
        PROVE  q[i] \in ToSet(b) \cup ToSet(r)
    <3>1. CASE i <= k
      BY <1>1, <1>2, <1>4, <3>1 DEF ToSet
    <3>2. CASE i > k
      <4>1. i - k \in 1..(n - k) /\ k + (i - k) = i
        BY <1>1, <3>2
      <4>2. r[i - k] = q[i]
        BY <1>3, <4>1
      <4> QED
        BY <1>4, <4>1, <4>2 DEF ToSet
    <3> QED
      BY <1>1, <3>1, <3>2
  <2>2. \A i \in 1..k : b[i] \in ToSet(q)
    BY <1>1, <1>2 DEF ToSet
  <2>3. \A i \in 1..(n - k) : r[i] \in ToSet(q)
    BY <1>1, <1>b DEF ToSet
  <2> QED
    BY <1>1, <1>4, <2>1, <2>2, <2>3 DEF ToSet
<1> QED
  BY <1>2, <1>3, <1>5, <1>6, <1>7 DEF b, r

\* unshift(): a batch goes back to the front.
LEMMA JoinSets ==
  ASSUME NEW b \in Seq(Entries), NEW q \in Seq(Entries), IsInjective(b), IsInjective(q),
         ToSet(b) \cap ToSet(q) = {}
  PROVE  /\ b \o q \in Seq(Entries) /\ IsInjective(b \o q)
         /\ ToSet(b \o q) = ToSet(b) \cup ToSet(q)
<1> DEFINE c == b \o q
           m == Len(b)
           n == Len(q)
<1>1. m \in Nat /\ n \in Nat /\ DOMAIN b = 1..m /\ DOMAIN q = 1..n
  BY LenProperties
<1>2. /\ c \in Seq(Entries) /\ Len(c) = m + n
      /\ \A i \in 1..(m + n) : c[i] = IF i <= m THEN b[i] ELSE q[i - m]
  BY ConcatProperties
<1>3. DOMAIN c = 1..(m + n)
  BY <1>2, LenProperties
<1> HIDE DEF c, m, n
<1>4. ASSUME NEW i \in 1..(m + n)
      PROVE  \/ i \in 1..m /\ c[i] = b[i] /\ b[i] \in ToSet(b)
             \/ i - m \in 1..n /\ c[i] = q[i - m] /\ q[i - m] \in ToSet(q)
  <2>1. CASE i <= m
    BY <1>1, <1>2, <2>1 DEF ToSet
  <2>2. CASE ~(i <= m)
    <3>1. i - m \in 1..n
      BY <1>1, <2>2
    <3> QED
      BY <1>1, <1>2, <2>2, <3>1 DEF ToSet
  <2> QED
    BY <2>1, <2>2
<1>5. ASSUME NEW i \in 1..(m + n), NEW j \in 1..(m + n), c[i] = c[j]
      PROVE  i = j
  <2>1. CASE i \in 1..m /\ j \in 1..m /\ b[i] = b[j]
    BY <1>1, <2>1 DEF IsInjective
  <2>2. CASE i - m \in 1..n /\ j - m \in 1..n /\ q[i - m] = q[j - m]
    <3>1. i - m = j - m
      BY <1>1, <2>2 DEF IsInjective
    <3> QED
      BY <1>1, <3>1
  <2> QED
    BY <1>4, <1>5, <2>1, <2>2
<1>6. IsInjective(c)
  BY <1>3, <1>5 DEF IsInjective
<1>7. ToSet(c) = ToSet(b) \cup ToSet(q)
  <2>1. ToSet(c) \subseteq ToSet(b) \cup ToSet(q)
    BY <1>3, <1>4 DEF ToSet
  <2>2. ASSUME NEW i \in 1..m
        PROVE  b[i] \in ToSet(c)
    <3>1. i \in 1..(m + n) /\ i <= m
      BY <1>1
    <3>2. c[i] = b[i]
      BY <1>2, <3>1
    <3> QED
      BY <1>3, <3>1, <3>2 DEF ToSet
  <2>3. ASSUME NEW i \in 1..n
        PROVE  q[i] \in ToSet(c)
    <3>1. m + i \in 1..(m + n) /\ ~(m + i <= m) /\ (m + i) - m = i
      BY <1>1
    <3>2. c[m + i] = q[i]
      BY <1>2, <3>1
    <3> QED
      BY <1>3, <3>1, <3>2 DEF ToSet
  <2> QED
    BY <1>1, <2>1, <2>2, <2>3 DEF ToSet
<1> QED
  BY <1>2, <1>6, <1>7 DEF c

-----------------------------------------------------------------------------
(* Lemmas about where the entries are *)

\* A flush without its batch.
LEMMA IdleTyped ==
  /\ Idle \in FlushType /\ Idle.batch = <<>> /\ Idle.phase = "idle"
  /\ IsInjective(<<>>) /\ ToSet(<<>>) = {}
<1>1. <<>> \in Seq(Entries) /\ Len(<<>>) = 0
  BY EmptySeq
<1>2. 1 \in 1..MaxRetries /\ 0 <= BatchSize
  BY ConfigAssumption
<1>3. Idle \in FlushType /\ Idle.batch = <<>> /\ Idle.phase = "idle"
  BY <1>1, <1>2 DEF Idle, FlushType, Phases
<1>4. IsInjective(<<>>) /\ ToSet(<<>>) = {}
  BY DEF IsInjective, ToSet
<1> QED
  BY <1>3, <1>4

\* What only concerns callers that have not finished.
LEMMA CallersPlaced ==
  ASSUME NEW q, NEW fl, NEW cs, NEW st, NEW lost, Placed(q, fl, cs, st, lost), NEW cs2,
         \A e \in Entries : cs2[e] = "done" <=> cs[e] = "done"
  PROVE  Placed(q, fl, cs2, st, lost)
<1>1. q \in Seq(Entries) /\ fl \in [Flushes -> FlushType]
  BY DEF Placed
<1>2. \A e \in ToSet(q) : e \in Entries
  BY <1>1, LenProperties DEF ToSet
<1>3. \A f \in Flushes : \A e \in Batch(fl, f) : e \in Entries
  BY <1>1, LenProperties DEF ToSet, Batch, FlushType
<1> QED
  BY <1>2, <1>3 DEF Placed

\* An entry that log() takes.
LEMMA AppendPlaced ==
  ASSUME NEW q, NEW fl, NEW cs, NEW st, NEW lost, Placed(q, fl, cs, st, lost),
         NEW e \in Entries, cs[e] # "done", NEW cs2, cs2[e] = "done",
         \A x \in Entries \ {e} : cs2[x] = cs[x]
  PROVE  Placed(Append(q, e), fl, cs2, st, lost)
<1>1. q \in Seq(Entries) /\ fl \in [Flushes -> FlushType] /\ IsInjective(q)
  BY DEF Placed
<1>2. e \notin ToSet(q) /\ (\A f \in Flushes : e \notin Batch(fl, f)) /\ ~(st[e] > 0)
  BY DEF Placed
<1> DEFINE a == Append(q, e)
<1>3. a \in Seq(Entries) /\ IsInjective(a) /\ ToSet(a) = ToSet(q) \cup {e}
  BY <1>1, <1>2, AppendSets
<1>4. ToSet(q) \subseteq Entries
  BY <1>1, LenProperties DEF ToSet
<1>5. \A f \in Flushes : Batch(fl, f) \subseteq Entries
  BY <1>1, LenProperties DEF ToSet, Batch, FlushType
<1> HIDE DEF a
<1>6. \A f \in Flushes :
        /\ IsInjective(fl[f].batch)
        /\ \A x \in Batch(fl, f) : /\ x \notin ToSet(a) /\ cs2[x] = "done"
                                   /\ fl[f].phase = "stored" => st[x] > 0
                                   /\ fl[f].phase # "stored" /\ st[x] > 0 => x \in lost
                                   /\ \A g \in Flushes : x \in Batch(fl, g) => g = f
  BY <1>2, <1>3, <1>5 DEF Placed
<1>7. \A x \in ToSet(a) : cs2[x] = "done" /\ (st[x] > 0 => x \in lost)
  BY <1>2, <1>3, <1>4 DEF Placed
<1>8. \A x \in Entries : /\ st[x] > 0 => cs2[x] = "done"
                         /\ st[x] > 1 => x \in lost
                         /\ cs2[x] = "done" => \/ st[x] > 0 \/ x \in ToSet(a)
                                               \/ \E f \in Flushes : x \in Batch(fl, f)
  BY <1>2, <1>3 DEF Placed
<1>9. Placed(a, fl, cs2, st, lost)
  BY <1>1, <1>3, <1>6, <1>7, <1>8 DEF Placed
<1> QED
  BY <1>9 DEF a

\* The front of the queue becomes the batch of a flush.
LEMMA SplicePlaced ==
  ASSUME NEW q, NEW fl, NEW cs, NEW st, NEW lost, Placed(q, fl, cs, st, lost),
         NEW f \in Flushes, fl[f].phase = "idle", NEW fresh \in BOOLEAN, NEW last \in BOOLEAN
  PROVE  Placed(Rest(q),
                [fl EXCEPT ![f] = [phase |-> "put", batch |-> SubSeq(q, 1, Min2(BatchSize, Len(q))),
                                   attempt |-> 1, fresh |-> fresh, last |-> last]],
                cs, st, lost)
<1> DEFINE k == Min2(BatchSize, Len(q))
           b == SubSeq(q, 1, k)
           r == SubSeq(q, 1 + k, Len(q))
           x == [phase |-> "put", batch |-> b, attempt |-> 1, fresh |-> fresh, last |-> last]
           fl2 == [fl EXCEPT ![f] = x]
<1>1. q \in Seq(Entries) /\ fl \in [Flushes -> FlushType] /\ IsInjective(q)
  BY DEF Placed
<1>2. k \in 0..Len(q) /\ k <= BatchSize
  BY <1>1, LenProperties, ConfigAssumption DEF Min2
<1> HIDE DEF k
<1>3. /\ b \in Seq(Entries) /\ r \in Seq(Entries) /\ Len(b) = k
      /\ IsInjective(b) /\ IsInjective(r)
      /\ ToSet(q) = ToSet(b) \cup ToSet(r) /\ ToSet(b) \cap ToSet(r) = {}
  BY <1>1, <1>2, SplitSets
<1> HIDE DEF b, r
<1>4. x \in FlushType /\ x.batch = b /\ x.phase = "put"
  BY <1>2, <1>3, ConfigAssumption DEF FlushType, Phases
<1> HIDE DEF x
<1>5. /\ fl2 \in [Flushes -> FlushType] /\ fl2[f] = x
      /\ \A g \in Flushes \ {f} : fl2[g] = fl[g]
  BY <1>1, <1>4
<1> HIDE DEF fl2
<1>6. /\ Batch(fl2, f) = ToSet(b) /\ \A g \in Flushes \ {f} : Batch(fl2, g) = Batch(fl, g)
      /\ Batch(fl, f) = {}
  <2>1. fl[f].batch = <<>>
    BY <1>1 DEF FlushType
  <2> QED
    BY <1>4, <1>5, <2>1, IdleTyped DEF Batch
<1>7. ASSUME NEW g \in Flushes
      PROVE  /\ IsInjective(fl2[g].batch)
             /\ \A e \in Batch(fl2, g) : /\ e \notin ToSet(r) /\ cs[e] = "done"
                                         /\ fl2[g].phase = "stored" => st[e] > 0
                                         /\ fl2[g].phase # "stored" /\ st[e] > 0 => e \in lost
                                         /\ \A h \in Flushes : e \in Batch(fl2, h) => h = g
  <2>1. CASE g = f
    BY <1>3, <1>4, <1>5, <1>6, <2>1 DEF Placed
  <2>2. CASE g # f
    BY <1>3, <1>5, <1>6, <2>2 DEF Placed
  <2> QED
    BY <2>1, <2>2
<1>8. \A e \in ToSet(r) : cs[e] = "done" /\ (st[e] > 0 => e \in lost)
  BY <1>3 DEF Placed
<1>9. \A e \in Entries : /\ st[e] > 0 => cs[e] = "done"
                         /\ st[e] > 1 => e \in lost
                         /\ cs[e] = "done" => \/ st[e] > 0 \/ e \in ToSet(r)
                                              \/ \E g \in Flushes : e \in Batch(fl2, g)
  BY <1>3, <1>6 DEF Placed
<1>10. Placed(r, fl2, cs, st, lost)
  BY <1>3, <1>5, <1>7, <1>8, <1>9 DEF Placed
<1>11. Rest(q) = r
  BY DEF Rest, r, k
<1> QED
  BY <1>10, <1>11 DEF fl2, x, b, k

\* A batch goes back to the queue: not stored, or its answer lost.
LEMMA GiveUpPlaced ==
  ASSUME NEW q, NEW fl, NEW cs, NEW st, NEW lost, Placed(q, fl, cs, st, lost),
         NEW f \in Flushes, NEW lost2, lost \subseteq lost2,
         fl[f].phase = "stored" => Batch(fl, f) \subseteq lost2
  PROVE  Placed(fl[f].batch \o q, [fl EXCEPT ![f] = Idle], cs, st, lost2)
<1> DEFINE b == fl[f].batch
           c == b \o q
           fl2 == [fl EXCEPT ![f] = Idle]
<1>1. /\ q \in Seq(Entries) /\ fl \in [Flushes -> FlushType] /\ IsInjective(q)
      /\ b \in Seq(Entries) /\ IsInjective(b) /\ ToSet(b) \cap ToSet(q) = {}
      /\ ToSet(b) = Batch(fl, f)
  BY DEF Placed, FlushType, Batch
<1>2. c \in Seq(Entries) /\ IsInjective(c) /\ ToSet(c) = ToSet(b) \cup ToSet(q)
  BY <1>1, JoinSets
<1> HIDE DEF b, c
<1>3. /\ fl2 \in [Flushes -> FlushType] /\ fl2[f] = Idle
      /\ \A g \in Flushes \ {f} : fl2[g] = fl[g]
  BY <1>1, IdleTyped
<1> HIDE DEF fl2
<1>4. Batch(fl2, f) = {} /\ \A g \in Flushes \ {f} : Batch(fl2, g) = Batch(fl, g)
  BY <1>3, IdleTyped DEF Batch
<1>5. ASSUME NEW g \in Flushes
      PROVE  /\ IsInjective(fl2[g].batch)
             /\ \A e \in Batch(fl2, g) : /\ e \notin ToSet(c) /\ cs[e] = "done"
                                         /\ fl2[g].phase = "stored" => st[e] > 0
                                         /\ fl2[g].phase # "stored" /\ st[e] > 0 => e \in lost2
                                         /\ \A h \in Flushes : e \in Batch(fl2, h) => h = g
  <2>1. CASE g = f
    BY <1>3, <1>4, <2>1, IdleTyped
  <2>2. CASE g # f
    BY <1>1, <1>2, <1>3, <1>4, <2>2 DEF Placed
  <2> QED
    BY <2>1, <2>2
<1>6. \A e \in ToSet(c) : cs[e] = "done" /\ (st[e] > 0 => e \in lost2)
  BY <1>1, <1>2 DEF Placed
<1>7. \A e \in Entries : /\ st[e] > 0 => cs[e] = "done"
                         /\ st[e] > 1 => e \in lost2
                         /\ cs[e] = "done" => \/ st[e] > 0 \/ e \in ToSet(c)
                                              \/ \E g \in Flushes : e \in Batch(fl2, g)
  BY <1>1, <1>2, <1>4 DEF Placed
<1>8. Placed(c, fl2, cs, st, lost2)
  BY <1>2, <1>3, <1>5, <1>6, <1>7 DEF Placed
<1> QED
  BY <1>8 DEF c, b, fl2

\* Flushes go on with the batch they have; one whose request was stored goes on
\* only if its answer was lost.
LEMMA RephasePlaced ==
  ASSUME NEW q, NEW fl, NEW cs, NEW st, NEW lost, Placed(q, fl, cs, st, lost),
         NEW fl2 \in [Flushes -> FlushType], NEW lost2, lost \subseteq lost2,
         \A g \in Flushes :
           /\ fl2[g].batch = fl[g].batch
           /\ fl2[g].phase = "stored" => fl[g].phase = "stored"
           /\ fl2[g].phase # "stored" /\ fl[g].phase = "stored" => Batch(fl, g) \subseteq lost2
  PROVE  Placed(q, fl2, cs, st, lost2)
<1>1. \A g \in Flushes : Batch(fl2, g) = Batch(fl, g)
  BY DEF Batch
<1>2. ASSUME NEW g \in Flushes
      PROVE  /\ IsInjective(fl2[g].batch)
             /\ \A e \in Batch(fl2, g) : /\ e \notin ToSet(q) /\ cs[e] = "done"
                                         /\ fl2[g].phase = "stored" => st[e] > 0
                                         /\ fl2[g].phase # "stored" /\ st[e] > 0 => e \in lost2
                                         /\ \A h \in Flushes : e \in Batch(fl2, h) => h = g
  BY <1>1 DEF Placed
<1>3. \A e \in ToSet(q) : cs[e] = "done" /\ (st[e] > 0 => e \in lost2)
  BY DEF Placed
<1>4. \A e \in Entries : /\ st[e] > 0 => cs[e] = "done"
                         /\ st[e] > 1 => e \in lost2
                         /\ cs[e] = "done" => \/ st[e] > 0 \/ e \in ToSet(q)
                                              \/ \E g \in Flushes : e \in Batch(fl2, g)
  BY <1>1 DEF Placed
<1> QED
  BY <1>2, <1>3, <1>4 DEF Placed

\* CloudWatch stores the batch of a flush.
LEMMA StorePlaced ==
  ASSUME NEW q, NEW fl, NEW cs, NEW st \in [Entries -> 0..2], NEW lost,
         Placed(q, fl, cs, st, lost), NEW f \in Flushes, fl[f].phase = "put",
         NEW fl2 \in [Flushes -> FlushType], fl2[f].phase = "stored",
         \A g \in Flushes : fl2[g].batch = fl[g].batch,
         \A g \in Flushes \ {f} : fl2[g].phase = fl[g].phase,
         NEW st2,
         \A e \in Entries : st2[e] = IF e \in Batch(fl, f) THEN Min2(2, st[e] + 1) ELSE st[e]
  PROVE  Placed(q, fl2, cs, st2, lost)
<1>1. \A g \in Flushes : Batch(fl2, g) = Batch(fl, g)
  BY DEF Batch
<1>2. q \in Seq(Entries) /\ IsInjective(q) /\ fl \in [Flushes -> FlushType]
  BY DEF Placed
<1>3. ToSet(q) \subseteq Entries /\ \A g \in Flushes : Batch(fl, g) \subseteq Entries
  BY <1>2, LenProperties DEF ToSet, Batch, FlushType
<1>4. \A e \in Entries : e \notin Batch(fl, f) => st2[e] = st[e]
  OBVIOUS
<1>5. ASSUME NEW e \in Batch(fl, f)
      PROVE  st2[e] > 0 /\ (st2[e] > 1 => st[e] > 0)
  <2>1. e \in Entries /\ st[e] \in 0..2
    BY <1>3
  <2>2. st2[e] = Min2(2, st[e] + 1)
    BY <2>1
  <2> QED
    BY <2>1, <2>2 DEF Min2
<1>6. ASSUME NEW g \in Flushes
      PROVE  /\ IsInjective(fl2[g].batch)
             /\ \A e \in Batch(fl2, g) : /\ e \notin ToSet(q) /\ cs[e] = "done"
                                         /\ fl2[g].phase = "stored" => st2[e] > 0
                                         /\ fl2[g].phase # "stored" /\ st2[e] > 0 => e \in lost
                                         /\ \A h \in Flushes : e \in Batch(fl2, h) => h = g
  <2>1. CASE g = f
    BY <1>1, <1>5, <2>1 DEF Placed
  <2>2. CASE g # f
    <3>1. \A e \in Batch(fl, g) : e \notin Batch(fl, f)
      BY <2>2 DEF Placed
    <3>2. \A e \in Batch(fl, g) : st2[e] = st[e]
      BY <1>3, <1>4, <3>1
    <3>3. fl2[g].phase = fl[g].phase /\ fl2[g].batch = fl[g].batch
      BY <2>2
    <3> QED
      BY <1>1, <3>2, <3>3 DEF Placed
  <2> QED
    BY <2>1, <2>2
<1>7. \A e \in ToSet(q) : cs[e] = "done" /\ (st2[e] > 0 => e \in lost)
  BY <1>3, <1>4 DEF Placed
<1>8. ASSUME NEW e \in Entries
      PROVE  /\ st2[e] > 0 => cs[e] = "done"
             /\ st2[e] > 1 => e \in lost
             /\ cs[e] = "done" => \/ st2[e] > 0 \/ e \in ToSet(q)
                                  \/ \E g \in Flushes : e \in Batch(fl2, g)
  <2>1. CASE e \in Batch(fl, f)
    BY <1>5, <2>1 DEF Placed
  <2>2. CASE e \notin Batch(fl, f)
    BY <1>1, <1>4, <2>2 DEF Placed
  <2> QED
    BY <2>1, <2>2
<1> QED
  BY <1>2, <1>6, <1>7, <1>8 DEF Placed

\* The batch of a flush is stored and answered.
LEMMA AnswerPlaced ==
  ASSUME NEW q, NEW fl, NEW cs, NEW st, NEW lost, Placed(q, fl, cs, st, lost),
         NEW f \in Flushes, fl[f].phase = "stored"
  PROVE  Placed(q, [fl EXCEPT ![f] = Idle], cs, st, lost)
<1> DEFINE fl2 == [fl EXCEPT ![f] = Idle]
<1>1. q \in Seq(Entries) /\ fl \in [Flushes -> FlushType] /\ IsInjective(q)
  BY DEF Placed
<1>2. /\ fl2 \in [Flushes -> FlushType] /\ fl2[f] = Idle
      /\ \A g \in Flushes \ {f} : fl2[g] = fl[g]
  BY <1>1, IdleTyped
<1> HIDE DEF fl2
<1>3. Batch(fl2, f) = {} /\ \A g \in Flushes \ {f} : Batch(fl2, g) = Batch(fl, g)
  BY <1>2, IdleTyped DEF Batch
<1>4. \A e \in Batch(fl, f) : st[e] > 0
  BY DEF Placed
<1>5. ASSUME NEW g \in Flushes
      PROVE  /\ IsInjective(fl2[g].batch)
             /\ \A e \in Batch(fl2, g) : /\ e \notin ToSet(q) /\ cs[e] = "done"
                                         /\ fl2[g].phase = "stored" => st[e] > 0
                                         /\ fl2[g].phase # "stored" /\ st[e] > 0 => e \in lost
                                         /\ \A h \in Flushes : e \in Batch(fl2, h) => h = g
  <2>1. CASE g = f
    BY <1>2, <1>3, <2>1, IdleTyped
  <2>2. CASE g # f
    BY <1>2, <1>3, <2>2 DEF Placed
  <2> QED
    BY <2>1, <2>2
<1>6. \A e \in Entries : /\ st[e] > 0 => cs[e] = "done"
                         /\ st[e] > 1 => e \in lost
                         /\ cs[e] = "done" => \/ st[e] > 0 \/ e \in ToSet(q)
                                              \/ \E g \in Flushes : e \in Batch(fl2, g)
  BY <1>3, <1>4 DEF Placed
<1>7. \A e \in ToSet(q) : cs[e] = "done" /\ (st[e] > 0 => e \in lost)
  BY DEF Placed
<1>8. Placed(q, fl2, cs, st, lost)
  BY <1>1, <1>2, <1>5, <1>6, <1>7 DEF Placed
<1> QED
  BY <1>8 DEF fl2

-----------------------------------------------------------------------------
(* Lemmas about the parts of the actions *)

\* What the inductive invariant says of the types.
LEMMA Typed ==
  ASSUME IInv
  PROVE  /\ logQueue \in Seq(Entries) /\ ToSet(logQueue) \subseteq Entries
         /\ flushes \in [Flushes -> FlushType]
         /\ \A f \in Flushes : Batch(flushes, f) \subseteq Entries
<1>1. logQueue \in Seq(Entries) /\ flushes \in [Flushes -> FlushType]
  BY DEF IInv, Placed
<1> QED
  BY <1>1, LenProperties DEF ToSet, Batch, FlushType

\* A flush goes on with its batch, to wait or to send it again.
LEMMA GoOn ==
  ASSUME IInv, NEW f \in Flushes, NEW lost2, lostAcks \subseteq lost2,
         flushes[f].phase = "stored" => Batch(flushes, f) \subseteq lost2,
         NEW x \in FlushType, x.phase # "stored", x.batch = flushes[f].batch
  PROVE  Placed(logQueue, [flushes EXCEPT ![f] = x], callers, stored, lost2)
<1> DEFINE fl2 == [flushes EXCEPT ![f] = x]
<1>1. /\ fl2 \in [Flushes -> FlushType] /\ fl2[f] = x
      /\ \A g \in Flushes \ {f} : fl2[g] = flushes[g]
  BY Typed
<1> HIDE DEF fl2
<1>2. \A g \in Flushes :
        /\ fl2[g].batch = flushes[g].batch
        /\ fl2[g].phase = "stored" => flushes[g].phase = "stored"
        /\ fl2[g].phase # "stored" /\ flushes[g].phase = "stored"
             => Batch(flushes, g) \subseteq lost2
  BY <1>1
<1>3. Placed(logQueue, fl2, callers, stored, lost2)
  BY <1>1, <1>2, RephasePlaced DEF IInv
<1> QED
  BY <1>3 DEF fl2

\* splice() in flush().
LEMMA SpliceStep ==
  ASSUME IInv, NEW q, NEW f \in Flushes, NEW last \in BOOLEAN, NEW cs,
         Placed(q, flushes, cs, stored, lostAcks), Splice(q, f, last)
  PROVE  Placed(logQueue', flushes', cs, stored, lostAcks)
<1>1. tokenFresh \in BOOLEAN
  BY DEF IInv, Simple
<1> QED
  BY <1>1, SplicePlaced DEF Splice

\* The catch of flush().
LEMMA GiveUpStep ==
  ASSUME IInv, NEW f \in Flushes, NEW lost2, lostAcks \subseteq lost2,
         flushes[f].phase = "stored" => Batch(flushes, f) \subseteq lost2, GiveUp(f)
  PROVE  /\ Placed(logQueue', flushes', callers, stored, lost2)
         /\ client' \in BOOLEAN /\ remaining' \subseteq Entries
<1>1. Placed(flushes[f].batch \o logQueue, [flushes EXCEPT ![f] = Idle], callers, stored, lost2)
  BY GiveUpPlaced DEF IInv
<1>2. client' \in BOOLEAN
  BY DEF GiveUp
<1>3. remaining' \subseteq Entries
  BY DEF GiveUp, IInv, Simple
<1> QED
  BY <1>1, <1>2, <1>3 DEF GiveUp

\* The catch of putLogEventsWithRetry().
LEMMA FailedStep ==
  ASSUME IInv, NEW f \in Flushes, NEW lost2, lostAcks \subseteq lost2, NEW invalid \in BOOLEAN,
         flushes[f].phase \in {"put", "stored"},
         flushes[f].phase = "stored" => Batch(flushes, f) \subseteq lost2, Failed(f, invalid)
  PROVE  /\ Placed(logQueue', flushes', callers, stored, lost2)
         /\ client' \in BOOLEAN /\ remaining' \subseteq Entries
<1>1. CASE GiveUp(f)
  BY <1>1, GiveUpStep
<1>2. CASE ~GiveUp(f)
  <2> DEFINE phase == IF invalid THEN "describe" ELSE "backoff"
             fresh == flushes[f].fresh /\ flushes[f].phase = "put"
  <2>1. /\ flushes[f].attempt < MaxRetries
        /\ flushes' = [flushes EXCEPT ![f].phase = phase, ![f].fresh = fresh]
        /\ UNCHANGED <<logQueue, client, remaining>>
    BY <1>2 DEF Failed
  <2>2. flushes \in [Flushes -> FlushType]
    BY Typed
  <2>3. flushes[f].attempt \in 1..MaxRetries
    BY <2>2 DEF FlushType
  <2>4. phase \in {"describe", "backoff"} /\ fresh \in BOOLEAN
    OBVIOUS
  <2> HIDE DEF phase, fresh
  <2> DEFINE x == [flushes[f] EXCEPT !.phase = phase, !.fresh = fresh]
  <2>5. x \in FlushType /\ x.phase = phase /\ x.batch = flushes[f].batch
    BY <2>1, <2>2, <2>3, <2>4 DEF FlushType, Phases
  <2>6. flushes' = [flushes EXCEPT ![f] = x]
    BY <2>1
  <2> HIDE DEF x
  <2>7. Placed(logQueue, flushes', callers, stored, lost2)
    BY <2>4, <2>5, <2>6, GoOn
  <2> QED
    BY <2>1, <2>7 DEF IInv, Simple
<1> QED
  BY <1>1, <1>2

\* The rest of log() or initialize().
LEMMA ReturnStep ==
  ASSUME IInv, NEW c \in Callers, callers[c] # "done", Return(c)
  PROVE  /\ Placed(logQueue', flushes', callers', stored, lostAcks)
         /\ callers' = [callers EXCEPT ![c] = "done"]
<1>1. callers' = [callers EXCEPT ![c] = "done"]
  BY DEF Return, Push
<1>2. callers'[c] = "done" /\ \A x \in Callers \ {c} : callers'[x] = callers[x]
  BY <1>1 DEF IInv, Simple
<1>3. Placed(logQueue, flushes, callers, stored, lostAcks)
  BY DEF IInv
<1>4. CASE c \in Entries
  <2> DEFINE q == Append(logQueue, c)
  <2>1. Placed(q, flushes, callers', stored, lostAcks)
    BY <1>2, <1>3, <1>4, AppendPlaced DEF Callers
  <2>2. CASE client' /\ Len(q) >= BatchSize
    <3>1. PICK f \in Flushes : Splice(q, f, FALSE)
      BY <1>4, <2>2 DEF Return, Push
    <3> HIDE DEF q
    <3> QED
      BY <1>1, <2>1, <3>1, SpliceStep
  <2>3. CASE ~(client' /\ Len(q) >= BatchSize)
    <3>1. logQueue' = q /\ flushes' = flushes
      BY <1>4, <2>3 DEF Return, Push
    <3> QED
      BY <1>1, <2>1, <3>1
  <2> QED
    BY <2>2, <2>3
<1>5. CASE c \notin Entries
  <2>1. logQueue' = logQueue /\ flushes' = flushes
    BY <1>5 DEF Return
  <2>2. \A e \in Entries : callers'[e] = "done" <=> callers[e] = "done"
    BY <1>2, <1>5 DEF Callers
  <2> QED
    BY <1>1, <1>3, <2>1, <2>2, CallersPlaced
<1> QED
  BY <1>4, <1>5

-----------------------------------------------------------------------------
(* The inductive invariant *)

LEMMA InvInit == Init => IInv
<1> SUFFICES ASSUME Init PROVE IInv
  OBVIOUS
<1>1. Simple
  <2>1. {flushTimer, tokenFresh, client, isInitialized, isDestroyed} \subseteq BOOLEAN
    BY DEF Init
  <2>2. /\ callers \in [Callers -> {"new", "loading", "group", "stream", "done", "rejected"}]
        /\ stored \in [Entries -> 0..2]
    BY DEF Init
  <2>3. failures \in 0..MaxFailures
    BY ConfigAssumption DEF Init
  <2> QED
    BY <2>1, <2>2, <2>3 DEF Init, Simple
<1>2. logQueue = <<>> /\ logQueue \in Seq(Entries) /\ ToSet(logQueue) = {} /\ IsInjective(logQueue)
  BY IdleTyped, EmptySeq DEF Init
<1>3. flushes \in [Flushes -> FlushType] /\ \A f \in Flushes : flushes[f] = Idle
  BY IdleTyped DEF Init
<1>4. \A f \in Flushes : IsInjective(flushes[f].batch) /\ Batch(flushes, f) = {}
  BY <1>3, IdleTyped DEF Batch
<1>5. \A e \in Entries : stored[e] = 0 /\ callers[e] = "new"
  BY DEF Init, Callers
<1>6. Placed(logQueue, flushes, callers, stored, lostAcks)
  BY <1>2, <1>3, <1>4, <1>5 DEF Placed
<1> QED
  BY <1>1, <1>6 DEF IInv

LEMMA CallInv == ASSUME IInv, NEW c \in Callers, Call(c) PROVE IInv'
<1>1. Placed(logQueue', flushes', callers', stored, lostAcks)
  <2>1. CASE isInitialized \/ isDestroyed
    BY <2>1, ReturnStep DEF Call
  <2>2. CASE ~(isInitialized \/ isDestroyed)
    <3>1. /\ callers' = [callers EXCEPT ![c] = "loading"] /\ callers[c] = "new"
          /\ logQueue' = logQueue /\ flushes' = flushes
      BY <2>2 DEF Call
    <3>2. \A e \in Entries : callers'[e] = "done" <=> callers[e] = "done"
      BY <3>1 DEF IInv, Simple
    <3> QED
      BY <3>1, <3>2, CallersPlaced DEF IInv
  <2> QED
    BY <2>1, <2>2
<1>2. callers' \in [Callers -> {"new", "loading", "group", "stream", "done", "rejected"}]
  <2>1. callers' = [callers EXCEPT ![c] = "done"] \/ callers' = [callers EXCEPT ![c] = "loading"]
    BY DEF Call, Return, Push
  <2> QED
    BY <2>1 DEF IInv, Simple
<1>3. /\ UNCHANGED <<flushTimer, tokenFresh, client, isInitialized, isDestroyed>>
      /\ UNCHANGED <<stored, lostAcks, failures, remaining>>
  BY DEF Call
<1> QED
  BY <1>1, <1>2, <1>3 DEF IInv, Simple

LEMMA StreamReadyInv == ASSUME IInv, NEW c \in Callers, StreamReady(c) PROVE IInv'
<1>1. /\ Placed(logQueue', flushes', callers', stored, lostAcks)
      /\ callers' = [callers EXCEPT ![c] = "done"]
  BY ReturnStep DEF StreamReady
<1>2. callers' \in [Callers -> {"new", "loading", "group", "stream", "done", "rejected"}]
  BY <1>1 DEF IInv, Simple
<1>3. /\ UNCHANGED <<tokenFresh, client, isDestroyed>> /\ flushTimer' = TRUE
      /\ isInitialized' = TRUE /\ UNCHANGED <<stored, lostAcks, failures, remaining>>
  BY DEF StreamReady
<1> QED
  BY <1>1, <1>2, <1>3 DEF IInv, Simple

\* The steps of initialize() before it returns, and its failures.
LEMMA InitializeInv ==
  ASSUME IInv, NEW c \in Callers, Load(c) \/ GroupReady(c) \/ InitializeFails(c)
  PROVE  IInv'
<1>1. /\ UNCHANGED <<logQueue, flushTimer, tokenFresh, isInitialized, isDestroyed>>
      /\ UNCHANGED <<flushes, stored, lostAcks, failures, remaining>>
      /\ client' = client \/ client' = TRUE
      /\ callers[c] # "done"
  BY DEF Load, GroupReady, InitializeFails
<1>2. PICK p \in {"group", "stream", "rejected"} : callers' = [callers EXCEPT ![c] = p]
  BY DEF Load, GroupReady, InitializeFails
<1>3. /\ callers' \in [Callers -> {"new", "loading", "group", "stream", "done", "rejected"}]
      /\ \A e \in Entries : callers'[e] = "done" <=> callers[e] = "done"
  BY <1>1, <1>2 DEF IInv, Simple
<1>4. Placed(logQueue, flushes, callers', stored, lostAcks)
  BY <1>3, CallersPlaced DEF IInv
<1>5. client' \in BOOLEAN
  BY <1>1 DEF IInv, Simple
<1> QED
  BY <1>1, <1>3, <1>4, <1>5 DEF IInv, Simple

LEMMA FlushInv == ASSUME IInv, NEW f \in Flushes, Flush(f) PROVE IInv'
<1>1. Placed(logQueue', flushes', callers, stored, lostAcks)
  BY SpliceStep DEF Flush, IInv
<1>2. /\ UNCHANGED <<flushTimer, tokenFresh, client, isInitialized, isDestroyed>>
      /\ UNCHANGED <<callers, stored, lostAcks, failures, remaining>>
  BY DEF Flush
<1> QED
  BY <1>1, <1>2 DEF IInv, Simple

LEMMA StoreInv == ASSUME IInv, NEW f \in Flushes, Store(f) PROVE IInv'
<1> DEFINE x(g) == IF g = f THEN [flushes[g] EXCEPT !.phase = "stored", !.fresh = TRUE]
                   ELSE [flushes[g] EXCEPT !.fresh = FALSE]
           n(e) == IF e \in Batch(flushes, f) THEN Min2(2, stored[e] + 1) ELSE stored[e]
<1>1. /\ UNCHANGED <<logQueue, flushTimer, client, isInitialized, isDestroyed>>
      /\ UNCHANGED <<callers, lostAcks, failures, remaining>> /\ tokenFresh' = FALSE
      /\ flushes[f].phase = "put"
  BY DEF Store
<1>2. flushes' = [g \in Flushes |-> x(g)] /\ stored' = [e \in Entries |-> n(e)]
  BY DEF Store, Batch
<1>3. ASSUME NEW g \in Flushes
      PROVE  /\ x(g) \in FlushType /\ x(g).batch = flushes[g].batch
             /\ g = f => x(g).phase = "stored"
             /\ g # f => x(g).phase = flushes[g].phase
  <2>1. flushes[g] \in FlushType
    BY Typed
  <2>2. CASE g = f
    BY <1>1, <2>1, <2>2 DEF FlushType, Phases
  <2>3. CASE g # f
    BY <2>1, <2>3 DEF FlushType, Phases
  <2> QED
    BY <2>2, <2>3
<1>4. stored \in [Entries -> 0..2]
  BY DEF IInv, Simple
<1>5. \A e \in Entries : n(e) \in 0..2
  BY <1>4 DEF Min2
<1> HIDE DEF x, n
<1>6. /\ flushes' \in [Flushes -> FlushType] /\ flushes'[f].phase = "stored"
      /\ \A g \in Flushes : flushes'[g].batch = flushes[g].batch
      /\ \A g \in Flushes \ {f} : flushes'[g].phase = flushes[g].phase
  BY <1>2, <1>3
<1>7. stored' \in [Entries -> 0..2] /\ \A e \in Entries : stored'[e] = n(e)
  BY <1>2, <1>5
<1>8. Placed(logQueue, flushes', callers, stored', lostAcks)
  BY <1>1, <1>4, <1>6, <1>7, StorePlaced DEF IInv, n
<1> QED
  BY <1>1, <1>7, <1>8 DEF IInv, Simple

LEMMA AnswerInv == ASSUME IInv, NEW f \in Flushes, Answer(f) PROVE IInv'
<1>1. Placed(logQueue, [flushes EXCEPT ![f] = Idle], callers, stored, lostAcks)
  BY AnswerPlaced DEF Answer, IInv
<1>2. flushes[f].fresh \in BOOLEAN
  BY Typed DEF FlushType
<1>3. tokenFresh' \in BOOLEAN /\ client' \in BOOLEAN
  BY <1>2 DEF Answer
<1>4. remaining' \subseteq Entries
  BY DEF Answer, IInv, Simple
<1>5. /\ UNCHANGED <<logQueue, flushTimer, isInitialized, isDestroyed>>
      /\ UNCHANGED <<callers, stored, lostAcks, failures>>
      /\ flushes' = [flushes EXCEPT ![f] = Idle]
  BY DEF Answer
<1> QED
  BY <1>1, <1>3, <1>4, <1>5 DEF IInv, Simple

LEMMA PutFailsInv == ASSUME IInv, NEW f \in Flushes, PutFails(f) PROVE IInv'
<1>1. /\ lostAcks \subseteq lostAcks' /\ lostAcks' \subseteq Entries
      /\ flushes[f].phase = "stored" => Batch(flushes, f) \subseteq lostAcks'
  <2>1. lostAcks \subseteq Entries /\ Batch(flushes, f) \subseteq Entries
    BY Typed DEF IInv, Simple
  <2> QED
    BY <2>1 DEF PutFails, Batch
<1>2. /\ Placed(logQueue', flushes', callers, stored, lostAcks')
      /\ client' \in BOOLEAN /\ remaining' \subseteq Entries
  BY <1>1, FailedStep DEF PutFails
<1>3. failures' \in 0..MaxFailures
  BY ConfigAssumption DEF PutFails, Fails, IInv, Simple
<1>4. UNCHANGED <<flushTimer, tokenFresh, isInitialized, isDestroyed, callers, stored>>
  BY DEF PutFails
<1> QED
  BY <1>1, <1>2, <1>3, <1>4 DEF IInv, Simple

LEMMA TokenRejectedInv == ASSUME IInv, NEW f \in Flushes, TokenRejected(f) PROVE IInv'
<1>1. /\ Placed(logQueue', flushes', callers, stored, lostAcks)
      /\ client' \in BOOLEAN /\ remaining' \subseteq Entries
  BY FailedStep DEF TokenRejected
<1>2. /\ UNCHANGED <<flushTimer, tokenFresh, isInitialized, isDestroyed>>
      /\ UNCHANGED <<callers, stored, lostAcks, failures>>
  BY DEF TokenRejected
<1> QED
  BY <1>1, <1>2 DEF IInv, Simple

LEMMA DescribedInv == ASSUME IInv, NEW f \in Flushes, Described(f) PROVE IInv'
<1> DEFINE x == [flushes[f] EXCEPT !.phase = "backoff", !.fresh = TRUE]
<1>1. flushes' = [flushes EXCEPT ![f] = x] /\ flushes[f].phase = "describe"
  BY DEF Described
<1>2. x \in FlushType /\ x.phase # "stored" /\ x.batch = flushes[f].batch
  <2>1. flushes[f] \in FlushType
    BY Typed
  <2> QED
    BY <1>1, <2>1 DEF FlushType, Phases
<1> HIDE DEF x
<1>3. Placed(logQueue, flushes', callers, stored, lostAcks)
  BY <1>1, <1>2, GoOn
<1>4. /\ UNCHANGED <<logQueue, flushTimer, tokenFresh, client, isInitialized>>
      /\ UNCHANGED <<isDestroyed, callers, stored, lostAcks, failures, remaining>>
  BY DEF Described
<1> QED
  BY <1>3, <1>4 DEF IInv, Simple

LEMMA DescribeFailsInv == ASSUME IInv, NEW f \in Flushes, DescribeFails(f) PROVE IInv'
<1>1. /\ Placed(logQueue', flushes', callers, stored, lostAcks)
      /\ client' \in BOOLEAN /\ remaining' \subseteq Entries
  BY GiveUpStep DEF DescribeFails
<1>2. failures' \in 0..MaxFailures
  BY ConfigAssumption DEF DescribeFails, Fails, IInv, Simple
<1>3. /\ UNCHANGED <<flushTimer, tokenFresh, isInitialized, isDestroyed>>
      /\ UNCHANGED <<callers, stored, lostAcks>>
  BY DEF DescribeFails
<1> QED
  BY <1>1, <1>2, <1>3 DEF IInv, Simple

LEMMA RetryInv == ASSUME IInv, NEW f \in Flushes, Retry(f) PROVE IInv'
<1>1. /\ UNCHANGED <<flushTimer, tokenFresh, isInitialized, isDestroyed>>
      /\ UNCHANGED <<callers, stored, lostAcks, failures>> /\ flushes[f].phase = "backoff"
  BY DEF Retry
<1>2. /\ Placed(logQueue', flushes', callers, stored, lostAcks)
      /\ client' \in BOOLEAN /\ remaining' \subseteq Entries
  <2>1. CASE GiveUp(f)
    BY <1>1, <2>1, GiveUpStep
  <2>2. CASE ~GiveUp(f)
    <3> DEFINE phase == IF client THEN "put" ELSE "backoff"
               x == [flushes[f] EXCEPT !.phase = phase, !.attempt = @ + 1]
    <3>1. /\ flushes' = [flushes EXCEPT ![f].phase = phase, ![f].attempt = @ + 1]
          /\ client \/ flushes[f].attempt + 1 < MaxRetries
          /\ UNCHANGED <<logQueue, client, remaining>>
      BY <2>2 DEF Retry
    <3>2. flushes[f] \in FlushType
      BY Typed
    <3>3. phase = "put" \/ (phase = "backoff" /\ flushes[f].attempt + 1 < MaxRetries)
      BY <3>1
    <3> HIDE DEF phase
    <3>4. x \in FlushType /\ x.phase # "stored" /\ x.batch = flushes[f].batch
      <4>1. flushes[f].attempt + 1 \in 1..MaxRetries
        BY <1>1, <3>2, ConfigAssumption DEF FlushType
      <4> QED
        BY <1>1, <3>2, <3>3, <4>1 DEF FlushType, Phases
    <3>5. flushes' = [flushes EXCEPT ![f] = x]
      BY <3>1
    <3> HIDE DEF x
    <3>6. Placed(logQueue, flushes', callers, stored, lostAcks)
      BY <1>1, <3>4, <3>5, GoOn
    <3> QED
      BY <3>1, <3>6 DEF IInv, Simple
  <2> QED
    BY <2>1, <2>2
<1> QED
  BY <1>1, <1>2 DEF IInv, Simple

LEMMA DestroyInv == ASSUME IInv, Destroy PROVE IInv'
<1>1. /\ UNCHANGED <<tokenFresh, isInitialized, callers, stored, lostAcks, failures>>
      /\ flushTimer' = FALSE /\ isDestroyed' = TRUE
  BY DEF Destroy
<1>2. /\ Placed(logQueue', flushes', callers, stored, lostAcks)
      /\ client' \in BOOLEAN /\ remaining' \subseteq Entries
  <2>1. CASE client /\ logQueue # <<>>
    <3>1. PICK f \in Flushes : Splice(logQueue, f, TRUE)
      BY <2>1 DEF Destroy
    <3>2. Placed(logQueue', flushes', callers, stored, lostAcks)
      BY <3>1, SpliceStep DEF IInv
    <3>3. remaining' = ToSet(logQueue) /\ client' = client
      BY <2>1 DEF Destroy
    <3> QED
      BY <3>2, <3>3, Typed DEF IInv, Simple
  <2>2. CASE ~(client /\ logQueue # <<>>)
    BY <2>2 DEF Destroy, IInv, Simple
  <2> QED
    BY <2>1, <2>2
<1> QED
  BY <1>1, <1>2 DEF IInv, Simple

LEMMA InvStep == ASSUME IInv, [Next]_vars PROVE IInv'
<1>1. CASE UNCHANGED vars
  BY <1>1 DEF IInv, Simple, Placed, Batch, vars
<1>2. ASSUME NEW c \in Callers,
             Call(c) \/ Load(c) \/ GroupReady(c) \/ StreamReady(c) \/ InitializeFails(c)
      PROVE  IInv'
  BY <1>2, CallInv, InitializeInv, StreamReadyInv
<1>3. ASSUME NEW f \in Flushes,
             \/ Flush(f) \/ TimerFlush(f) \/ Store(f) \/ Answer(f) \/ PutFails(f)
             \/ TokenRejected(f) \/ Described(f) \/ DescribeFails(f) \/ Retry(f)
      PROVE  IInv'
  BY <1>3, FlushInv, StoreInv, AnswerInv, PutFailsInv, TokenRejectedInv, DescribedInv,
     DescribeFailsInv, RetryInv DEF TimerFlush
<1>4. CASE Destroy
  BY <1>4, DestroyInv
<1> QED
  BY <1>1, <1>2, <1>3, <1>4 DEF Next

(* The inductive invariant holds: whatever flushes overlap, fail or are given
   up, flush() and its retries move an entry, and never copy or drop it. *)
THEOREM Invariance == Spec => []IInv
<1> QED
  BY InvInit, InvStep, PTL DEF Spec

-----------------------------------------------------------------------------
(* Every field of the logger keeps its type, whatever overlaps: in particular
   no batch is larger than config.batchSize, and no request is sent after the
   last attempt of putLogEventsWithRetry(). *)
THEOREM TypeCorrect == Spec => []TypeOK
<1>1. IInv => TypeOK
  <2> SUFFICES ASSUME IInv PROVE TypeOK
    OBVIOUS
  <2>1. \A f \in Flushes :
          /\ flushes[f].phase \in Phases /\ flushes[f].batch \in Seq(Entries)
          /\ Len(flushes[f].batch) <= BatchSize /\ flushes[f].attempt \in 1..MaxRetries
          /\ flushes[f].fresh \in BOOLEAN /\ flushes[f].last \in BOOLEAN
    BY Typed DEF FlushType
  <2> QED
    BY <2>1, Typed DEF IInv, Simple, TypeOK, Phases
<1> QED
  BY <1>1, Invariance, PTL

(* log() loses nothing: an entry it took is in the queue, in the batch of one
   flush() or stored by CloudWatch, and in one place of the logger only. *)
THEOREM EntriesKept == Spec => []NothingLost
<1>1. IInv => NothingLost
  <2> SUFFICES ASSUME IInv PROVE NothingLost
    OBVIOUS
  <2>1. \A f \in Flushes : Batch(flushes, f) # {} => f \in InFlight
    BY Typed, IdleTyped DEF InFlight, Batch, FlushType
  <2>2. \A e \in Entries : Accepted(e) =>
          \/ stored[e] > 0 \/ e \in ToSet(logQueue)
          \/ \E f \in InFlight : e \in Batch(flushes, f)
    BY <2>1 DEF IInv, Placed, Accepted
  <2>3. IsInjective(logQueue)
    BY DEF IInv, Placed
  <2>4. \A f \in InFlight :
          /\ IsInjective(flushes[f].batch)
          /\ Batch(flushes, f) \cap ToSet(logQueue) = {}
          /\ \A g \in InFlight \ {f} : Batch(flushes, f) \cap Batch(flushes, g) = {}
    BY DEF IInv, Placed, InFlight
  <2> QED
    BY <2>2, <2>3, <2>4 DEF NothingLost, Batch
<1> QED
  BY <1>1, Invariance, PTL

(* CloudWatch gets an entry twice only after the answer to a PutLogEvents that
   stored it was lost: neither flush() nor its retries duplicate anything. *)
THEOREM DuplicatesExplained == Spec => []DuplicatesOnlyAfterLostAnswer
<1>1. IInv => DuplicatesOnlyAfterLostAnswer
  BY DEF IInv, Placed, DuplicatesOnlyAfterLostAnswer
<1> QED
  BY <1>1, Invariance, PTL
=============================================================================
