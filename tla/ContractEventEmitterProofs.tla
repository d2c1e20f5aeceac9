--------------------- MODULE ContractEventEmitterProofs ---------------------
(***************************************************************************)
(* Proofs about ContractEventEmitter: the cursor loses and repeats no      *)
(* event, a once() listener fires for one event, and a closed emitter      *)
(* holds nothing and calls nobody.                                         *)
(*                                                                         *)
(* The heart is what poll()'s loop over a page does to the listeners       *)
(* (PageIsPassed).  The loop is a recursive function; that it exists, and  *)
(* what holds of it, is shown by induction over the events of the page,    *)
(* as SetInduction states it.                                              *)
(***************************************************************************)
EXTENDS ContractEventEmitter, FiniteSetTheorems, WellFoundedInduction, TLAPS

-----------------------------------------------------------------------------
(* Induction. *)

\* Numbers that exist have a least one.
LEMMA Smallest ==
  ASSUME NEW T \in SUBSET Nat, T # {}
  PROVE  \E n \in T : \A m \in T : n <= m
<1> DEFINE R == OpToRel(<, Nat)
<1>1. IsWellFoundedOn(R, Nat)
  BY NatLessThanWellFounded
<1>2. \A m, n \in Nat : <<m, n>> \in R <=> m < n
  BY DEF OpToRel
<1> HIDE DEF R
<1>3. PICK n \in T : \A m \in T : ~(<<m, n>> \in R)
  BY <1>1, WFMin
<1>4. \A m \in T : ~(m < n)
  BY <1>2, <1>3
<1>5. \A m \in T : n <= m
  BY <1>4
<1>6. QED
  BY <1>5

\* A set that has 0, and the next of each of its numbers, has them all.
LEMMA SetInduction ==
  ASSUME NEW T, 0 \in T, \A n \in Nat : n \in T => n + 1 \in T
  PROVE  Nat \subseteq T
<1> SUFFICES ASSUME Nat \ T # {} PROVE FALSE
  OBVIOUS
<1>1. PICK n \in Nat \ T : \A m \in Nat \ T : n <= m
  BY Smallest
<1>2. n # 0 /\ n - 1 \in Nat
  BY <1>1
<1>3. n - 1 \in T
  BY <1>1, <1>2
<1>4. (n - 1) + 1 \in T
  BY <1>2, <1>3
<1>5. QED
  BY <1>1, <1>2, <1>4

-----------------------------------------------------------------------------
(* Dispatch. *)

\* The part of the state emit() changes.
Parts == [listeners : SUBSET Listeners, open : BOOLEAN,
          calls : [Listeners -> [1..MaxEvents -> Nat]]]

\* What holds of it whenever poll() takes an event from the page.
Ready(s) ==
  /\ s \in Parts
  /\ s.open \/ s.listeners = {}
  /\ \A l \in s.listeners \cap OnceListeners, i \in 1..MaxEvents : s.calls[l][i] = 0

\* From s to t the events of the set A were passed to the listeners.
Passed(s, t, A) ==
  /\ t.open => s.open
  /\ t.listeners \subseteq s.listeners
  /\ s.listeners \ OnceListeners \subseteq t.listeners
  /\ \A l \in Listeners, j \in 1..MaxEvents :
       l \notin s.listeners \/ j \notin A => t.calls[l][j] = s.calls[l][j]
  /\ \A l \in s.listeners \ OnceListeners, j \in A :
       t.calls[l][j] = s.calls[l][j] + Multiplicity(l, log[j])
  /\ \A l \in s.listeners \cap OnceListeners, j \in A :
       /\ t.calls[l][j] <= Multiplicity(l, log[j])
       /\ \A i \in A : t.calls[l][i] > 0 /\ t.calls[l][j] > 0 => i = j

\* What Ready says of the types.
LEMMA ReadyTyped ==
  ASSUME NEW s, Ready(s)
  PROVE  /\ s.listeners \subseteq Listeners
         /\ \A l \in Listeners, j \in 1..MaxEvents : s.calls[l][j] \in Nat
  BY DEF Ready, Parts

\* A key calls a listener so many times.
LEMMA CallsInIsNat ==
  ASSUME NEW k, NEW l
  PROVE  CallsIn(k, l) \in Nat
  BY DEF CallsIn, Count

\* What one emit() does: it counts for every listener, and those of once()
\* that were called are gone.
LEMMA EmitCounts ==
  ASSUME NEW s \in Parts, NEW k, NEW i \in 1..MaxEvents
  PROVE  /\ Emit(s, k, i) \in Parts
         /\ Emit(s, k, i).open => s.open
         /\ (s.open \/ s.listeners = {}) => (Emit(s, k, i).open \/ Emit(s, k, i).listeners = {})
         /\ Emit(s, k, i).listeners =
              {l \in s.listeners : l \in OnceListeners => CallsIn(k, l) = 0}
         /\ \A l \in Listeners, j \in 1..MaxEvents :
              Emit(s, k, i).calls[l][j] =
                IF l \in s.listeners /\ j = i THEN s.calls[l][j] + CallsIn(k, l)
                ELSE s.calls[l][j]
<1> DEFINE fired == {l \in s.listeners \cap OnceListeners : CallsIn(k, l) > 0}
           after == [s EXCEPT !.listeners = @ \ fired, !.calls = CallsAfter(s, k, i)]
<1>1. CallsAfter(s, k, i) \in [Listeners -> [1..MaxEvents -> Nat]]
  <2>1. \A l \in Listeners, j \in 1..MaxEvents : s.calls[l][j] \in Nat
    BY DEF Parts
  <2>2. \A l \in Listeners : CallsIn(k, l) \in Nat
    BY CallsInIsNat
  <2>3. QED
    BY <2>1, <2>2 DEF CallsAfter
<1>2. \A l \in Listeners, j \in 1..MaxEvents :
        CallsAfter(s, k, i)[l][j] =
          IF l \in s.listeners /\ j = i THEN s.calls[l][j] + CallsIn(k, l) ELSE s.calls[l][j]
  BY DEF CallsAfter
<1>3. s.listeners \ fired = {l \in s.listeners : l \in OnceListeners => CallsIn(k, l) = 0}
  BY CallsInIsNat
<1>4. Emit(s, k, i) = IF fired # {} /\ after.listeners = {} THEN Close(after) ELSE after
  BY DEF Emit
<1> HIDE DEF fired
<1>5. /\ after \in Parts
      /\ after.listeners = s.listeners \ fired /\ after.open = s.open
      /\ after.calls = CallsAfter(s, k, i)
  BY <1>1 DEF Parts
<1> HIDE DEF after
<1>6. CASE fired # {} /\ after.listeners = {}
  <2>1. Emit(s, k, i) = [after EXCEPT !.listeners = {}, !.open = FALSE]
    BY <1>4, <1>6 DEF Close
  <2>2. /\ Emit(s, k, i) \in Parts
        /\ Emit(s, k, i).listeners = after.listeners /\ ~Emit(s, k, i).open
        /\ Emit(s, k, i).calls = CallsAfter(s, k, i)
    BY <2>1, <1>5, <1>6 DEF Parts
  <2>3. QED
    BY <2>2, <1>2, <1>3, <1>5, <1>6
<1>7. CASE ~(fired # {} /\ after.listeners = {})
  <2>1. Emit(s, k, i) = after
    BY <1>4, <1>7
  <2>2. (s.open \/ s.listeners = {}) => (after.open \/ after.listeners = {})
    BY <1>5
  <2>3. QED
    BY <2>1, <2>2, <1>2, <1>3, <1>5
<1>8. QED
  BY <1>6, <1>7

\* From s to t, some keys of event i were emitted, for which a listener that
\* stays is called c times.
Emitting(s, t, i, c) ==
  /\ t \in Parts /\ c \in [Listeners -> Nat]
  /\ t.open => s.open
  /\ t.open \/ t.listeners = {}
  /\ t.listeners = {l \in s.listeners : l \in OnceListeners => c[l] = 0}
  /\ \A l \in Listeners, j \in 1..MaxEvents :
       l \notin s.listeners \/ j # i => t.calls[l][j] = s.calls[l][j]
  /\ \A l \in s.listeners \ OnceListeners : t.calls[l][i] = s.calls[l][i] + c[l]
  /\ \A l \in s.listeners \cap OnceListeners : t.calls[l][i] <= c[l]

\* One more emit(): the calls it makes are added.
LEMMA OneMoreKey ==
  ASSUME NEW s, Ready(s), NEW t, NEW i \in 1..MaxEvents, NEW c, Emitting(s, t, i, c), NEW k
  PROVE  Emitting(s, Emit(t, k, i), i, [l \in Listeners |-> c[l] + CallsIn(k, l)])
<1> DEFINE u == Emit(t, k, i)
           d == [l \in Listeners |-> c[l] + CallsIn(k, l)]
<1>1. t \in Parts /\ s \in Parts /\ c \in [Listeners -> Nat]
  BY DEF Emitting, Ready
<1>2. \A l \in Listeners : CallsIn(k, l) \in Nat
  BY CallsInIsNat
<1>3. /\ \A l \in Listeners : d[l] = c[l] + CallsIn(k, l) /\ c[l] \in Nat
      /\ d \in [Listeners -> Nat]
  BY <1>1, <1>2
<1>4. /\ u \in Parts
      /\ u.open => t.open
      /\ (t.open \/ t.listeners = {}) => (u.open \/ u.listeners = {})
      /\ u.listeners = {l \in t.listeners : l \in OnceListeners => CallsIn(k, l) = 0}
      /\ \A l \in Listeners, j \in 1..MaxEvents :
           u.calls[l][j] = IF l \in t.listeners /\ j = i THEN t.calls[l][j] + CallsIn(k, l)
                           ELSE t.calls[l][j]
  BY <1>1, EmitCounts
<1> HIDE DEF u, d
<1>5. s.listeners \subseteq Listeners /\ t.listeners \subseteq Listeners
  BY <1>1 DEF Parts
<1>6. u.listeners = {l \in s.listeners : l \in OnceListeners => d[l] = 0}
  BY <1>2, <1>3, <1>4, <1>5 DEF Emitting
<1>7. \A l \in Listeners, j \in 1..MaxEvents :
        l \notin s.listeners \/ j # i => u.calls[l][j] = s.calls[l][j]
  BY <1>4 DEF Emitting
<1>8. \A l \in Listeners : t.calls[l][i] \in Nat /\ s.calls[l][i] \in Nat
  BY <1>1 DEF Parts
<1>9. \A l \in s.listeners \ OnceListeners : u.calls[l][i] = s.calls[l][i] + d[l]
  <2> SUFFICES ASSUME NEW l \in s.listeners \ OnceListeners
               PROVE  u.calls[l][i] = s.calls[l][i] + d[l]
    OBVIOUS
  <2>1. l \in t.listeners /\ l \in Listeners /\ t.calls[l][i] = s.calls[l][i] + c[l]
    BY <1>5 DEF Emitting
  <2>2. u.calls[l][i] = t.calls[l][i] + CallsIn(k, l)
    BY <1>4, <2>1
  <2>3. QED
    BY <1>2, <1>3, <1>8, <2>1, <2>2
<1>10. \A l \in s.listeners \cap OnceListeners : u.calls[l][i] <= d[l]
  <2> SUFFICES ASSUME NEW l \in s.listeners \cap OnceListeners PROVE u.calls[l][i] <= d[l]
    OBVIOUS
  <2>1. l \in Listeners /\ t.calls[l][i] <= c[l]
    BY <1>5 DEF Emitting
  <2>2. u.calls[l][i] = t.calls[l][i] + CallsIn(k, l) \/ u.calls[l][i] = t.calls[l][i]
    BY <1>4, <2>1
  <2>3. QED
    BY <1>2, <1>3, <1>8, <2>1, <2>2
<1>11. QED
  BY <1>3, <1>4, <1>6, <1>7, <1>9, <1>10 DEF Emitting, u, d

\* Before the first key.
LEMMA NoKey ==
  ASSUME NEW s, Ready(s), NEW i \in 1..MaxEvents
  PROVE  Emitting(s, s, i, [l \in Listeners |-> 0])
<1>1. s.listeners \subseteq Listeners /\ \A l \in Listeners : s.calls[l][i] \in Nat
  BY DEF Ready, Parts
<1>2. QED
  BY <1>1 DEF Ready, Emitting

\* The calls of one event, added up over the keys emitted for it.
LEMMA KeysAddUp ==
  ASSUME NEW l \in Listeners, NEW i, log[i].name \in Names \cup {NoName}, Matches(log[i])
  PROVE  LET forAll == 0 + CallsIn("event", l) + CallsIn("*", l)
             name == log[i].name
         IN  Multiplicity(l, log[i]) =
               IF name = NoName THEN forAll
               ELSE forAll + CallsIn(name, l) + CallsIn(Prefixed, l)
<1> DEFINE name == log[i].name
<1>1. KeyOf[l] \in Names \cup {"event", "*"}
  BY KeysAssumption DEF Keys
<1>2. KeyOf[l] # Prefixed /\ KeyOf[l] # NoName
  BY <1>1, KeysAssumption DEF Prefixed, NoName
<1>3. Count(KeyOf[l] = Prefixed) = 0
  BY <1>2 DEF Count
<1>4. Count(KeyOf[l] = name) \in {0, 1}
  BY DEF Count
<1> HIDE DEF name
<1>5. CASE KeyOf[l] = "event"
  <2>1. Count(KeyOf[l] = "event") = 1 /\ Count(KeyOf[l] = "*") = 0
    BY <1>5 DEF Count
  <2>2. CallsIn("event", l) = 2 /\ CallsIn("*", l) = 1
    BY <2>1 DEF CallsIn
  <2>3. CallsIn(name, l) = Count(KeyOf[l] = name) + 1 /\ CallsIn(Prefixed, l) = 1
    BY <1>3, <1>4, <2>1 DEF CallsIn
  <2>4. Multiplicity(l, log[i]) = Count(KeyOf[l] = name) + (IF name = NoName THEN 3 ELSE 5)
    BY <1>5 DEF Multiplicity, name
  <2>5. name = NoName => Count(KeyOf[l] = name) = 0
    BY <1>2 DEF Count
  <2>6. QED
    BY <1>4, <2>2, <2>3, <2>4, <2>5 DEF name
<1>6. CASE KeyOf[l] = "*"
  <2>1. Count(KeyOf[l] = "event") = 0 /\ Count(KeyOf[l] = "*") = 1
    BY <1>6 DEF Count
  <2>2. CallsIn("event", l) = 1 /\ CallsIn("*", l) = 2
    BY <2>1 DEF CallsIn
  <2>3. CallsIn(name, l) = Count(KeyOf[l] = name) + 1 /\ CallsIn(Prefixed, l) = 1
    BY <1>3, <1>4, <2>1 DEF CallsIn
  <2>4. Multiplicity(l, log[i]) = Count(KeyOf[l] = name) + (IF name = NoName THEN 3 ELSE 5)
    BY <1>6 DEF Multiplicity, name
  <2>5. name = NoName => Count(KeyOf[l] = name) = 0
    BY <1>2 DEF Count
  <2>6. QED
    BY <1>4, <2>2, <2>3, <2>4, <2>5 DEF name
<1>7. CASE KeyOf[l] \notin {"event", "*"}
  <2>1. Count(KeyOf[l] = "event") = 0 /\ Count(KeyOf[l] = "*") = 0
    BY <1>7 DEF Count
  <2>2. CallsIn("event", l) = 0 /\ CallsIn("*", l) = 0
    BY <2>1 DEF CallsIn
  <2>3. CallsIn(name, l) = Count(KeyOf[l] = name) /\ CallsIn(Prefixed, l) = 0
    BY <1>3, <1>4, <2>1 DEF CallsIn
  <2>4. Multiplicity(l, log[i]) = Count(KeyOf[l] = name)
    BY <1>4, <1>7 DEF Multiplicity, name
  <2>5. name = NoName => Count(KeyOf[l] = name) = 0
    BY <1>2 DEF Count
  <2>6. QED
    BY <1>4, <2>2, <2>3, <2>4, <2>5 DEF name
<1>8. QED
  BY <1>5, <1>6, <1>7

\* An event is passed so many times.
LEMMA MultiplicityIsNat ==
  ASSUME NEW l, NEW e
  PROVE  Multiplicity(l, e) \in Nat
<1>1. Count(KeyOf[l] = e.name) \in Nat
  BY DEF Count
<1>2. QED
  BY <1>1 DEF Multiplicity

\* When all its keys have been emitted, an event has been passed.
LEMMA KeysMakeTheEvent ==
  ASSUME NEW s, Ready(s), NEW t, NEW i \in 1..MaxEvents, NEW c, Emitting(s, t, i, c),
         \A l \in Listeners : c[l] = Multiplicity(l, log[i])
  PROVE  Ready(t) /\ Passed(s, t, {i})
<1>1. /\ s \in Parts /\ t \in Parts /\ s.listeners \subseteq Listeners
      /\ t.listeners \subseteq s.listeners
  BY DEF Emitting, Ready, Parts
<1>2. \A l \in Listeners, j \in 1..MaxEvents : t.calls[l][j] \in Nat
  BY <1>1 DEF Parts
<1>3. \A l \in t.listeners \cap OnceListeners, j \in 1..MaxEvents : t.calls[l][j] = 0
  <2> SUFFICES ASSUME NEW l \in t.listeners \cap OnceListeners, NEW j \in 1..MaxEvents
               PROVE  t.calls[l][j] = 0
    OBVIOUS
  <2>1. l \in s.listeners /\ l \in Listeners /\ s.calls[l][j] = 0
    BY <1>1 DEF Ready
  <2>2. c[l] = 0
    BY DEF Emitting
  <2>3. CASE j = i
    BY <1>2, <2>1, <2>2, <2>3 DEF Emitting
  <2>4. CASE j # i
    BY <2>1, <2>4 DEF Emitting
  <2>5. QED
    BY <2>3, <2>4
<1>4. Ready(t)
  BY <1>1, <1>3 DEF Ready, Emitting
<1>5. Passed(s, t, {i})
  BY <1>1 DEF Passed, Emitting
<1>6. QED
  BY <1>4, <1>5

\* poll() emits one event under all its keys.
LEMMA EventIsPassed ==
  ASSUME NEW s, Ready(s), NEW i \in 1..MaxEvents, log[i].name \in Names \cup {NoName}
  PROVE  Ready(DispatchEvent(s, i)) /\ Passed(s, DispatchEvent(s, i), {i})
<1> DEFINE none == [l \in Listeners |-> 0]
           c1 == [l \in Listeners |-> none[l] + CallsIn("event", l)]
           c2 == [l \in Listeners |-> c1[l] + CallsIn("*", l)]
           c3 == [l \in Listeners |-> c2[l] + CallsIn(log[i].name, l)]
           c4 == [l \in Listeners |-> c3[l] + CallsIn(Prefixed, l)]
           s1 == Emit(s, "event", i)
           s2 == Emit(s1, "*", i)
           s3 == Emit(s2, log[i].name, i)
           s4 == Emit(s3, Prefixed, i)
<1>1. Emitting(s, s, i, none)
  BY NoKey
<1>2. Emitting(s, s1, i, c1)
  BY <1>1, OneMoreKey
<1>3. Emitting(s, s2, i, c2)
  BY <1>2, OneMoreKey
<1>4. Emitting(s, s3, i, c3)
  BY <1>3, OneMoreKey
<1>5. Emitting(s, s4, i, c4)
  BY <1>4, OneMoreKey
<1>6. CASE ~Matches(log[i])
  <2>1. DispatchEvent(s, i) = s
    BY <1>6 DEF DispatchEvent
  <2>2. \A l \in Listeners : none[l] = Multiplicity(l, log[i])
    BY <1>6 DEF Multiplicity
  <2>3. QED
    BY <1>1, <2>1, <2>2, KeysMakeTheEvent
<1>7. CASE Matches(log[i]) /\ log[i].name = NoName
  <2>1. DispatchEvent(s, i) = s2
    BY <1>7 DEF DispatchEvent
  <2>2. \A l \in Listeners : c2[l] = Multiplicity(l, log[i])
    BY <1>7, KeysAddUp
  <2>3. QED
    BY <1>3, <2>1, <2>2, KeysMakeTheEvent
<1>8. CASE Matches(log[i]) /\ log[i].name # NoName
  <2>1. DispatchEvent(s, i) = s4
    BY <1>8 DEF DispatchEvent
  <2>2. \A l \in Listeners : c4[l] = Multiplicity(l, log[i])
    BY <1>8, KeysAddUp
  <2>3. QED
    BY <1>5, <2>1, <2>2, KeysMakeTheEvent
<1>9. QED
  BY <1>6, <1>7, <1>8

-----------------------------------------------------------------------------
(* The loop over a page. *)

\* The recursive function in Dispatch exists.
LEMMA LoopRuns ==
  ASSUME NEW s, NEW first \in Nat \ {0}, NEW last \in Nat
  PROVE  \E f : /\ f = [i \in 0..last |-> IF i < first THEN s ELSE DispatchEvent(f[i - 1], i)]
                /\ Dispatch(s, first, last) = f[last]
<1> DEFINE Runs(f, n) ==
             f = [i \in 0..n |-> IF i < first THEN s ELSE DispatchEvent(f[i - 1], i)]
           T == {n \in Nat : \E f : Runs(f, n)}
<1>1. 0 \in T
  <2> DEFINE f == [i \in 0..0 |-> s]
  <2>1. \A i \in 0..0 : i < first
    OBVIOUS
  <2>2. f = [i \in 0..0 |-> IF i < first THEN s ELSE DispatchEvent(f[i - 1], i)]
    BY <2>1
  <2>3. Runs(f, 0)
    BY <2>2
  <2>4. QED
    BY <2>3
<1>2. ASSUME NEW n \in Nat, n \in T
      PROVE  n + 1 \in T
  <2>1. PICK f : Runs(f, n)
    BY <1>2
  <2> DEFINE g == [i \in 0..(n + 1) |->
                    IF i < first THEN s ELSE DispatchEvent(f[i - 1], i)]
  <2>2. \A i \in 0..n : g[i] = f[i]
    BY <2>1
  <2>3. \A i \in 0..(n + 1) : i >= first => i - 1 \in 0..n
    OBVIOUS
  <2>4. \A i \in 0..(n + 1) : i >= first => g[i - 1] = f[i - 1]
    BY <2>2, <2>3
  <2>5. g = [i \in 0..(n + 1) |-> IF i < first THEN s ELSE DispatchEvent(g[i - 1], i)]
    <3> HIDE DEF Runs, T
    <3>1. \A i \in 0..(n + 1) :
            (IF i < first THEN s ELSE DispatchEvent(f[i - 1], i))
              = IF i < first THEN s ELSE DispatchEvent(g[i - 1], i)
      <4> SUFFICES ASSUME NEW i \in 0..(n + 1)
                   PROVE  (IF i < first THEN s ELSE DispatchEvent(f[i - 1], i))
                            = IF i < first THEN s ELSE DispatchEvent(g[i - 1], i)
        OBVIOUS
      <4> HIDE DEF g
      <4>1. CASE i >= first
        <5>1. g[i - 1] = f[i - 1]
          BY <2>4, <4>1
        <5>2. QED
          BY <5>1
      <4>2. CASE i < first
        BY <4>2
      <4>3. QED
        BY <4>1, <4>2
    <3>2. QED
      BY <3>1
  <2>6. Runs(g, n + 1)
    BY <2>5
  <2> HIDE DEF g, Runs
  <2>7. QED
    BY <2>6
<1>3. Nat \subseteq T
  <2> HIDE DEF T
  <2>1. QED
    BY <1>1, <1>2, SetInduction
<1>4. QED
  BY <1>3 DEF Dispatch

\* Before the first event.
LEMMA NothingPassed ==
  ASSUME NEW s, Ready(s)
  PROVE  Passed(s, s, {})
  BY DEF Passed

\* What was passed before one more event, and the event.
LEMMA OneMoreEvent ==
  ASSUME NEW s, Ready(s), NEW t, Ready(t), NEW u, Ready(u),
         NEW A \in SUBSET (1..MaxEvents), NEW n \in 1..MaxEvents, n \notin A,
         Passed(s, t, A), Passed(t, u, {n})
  PROVE  Passed(s, u, A \cup {n})
<1>1. /\ s.listeners \subseteq Listeners
      /\ \A l \in Listeners, j \in 1..MaxEvents :
           s.calls[l][j] \in Nat /\ t.calls[l][j] \in Nat /\ u.calls[l][j] \in Nat
  BY ReadyTyped
<1>2. /\ u.open => s.open
      /\ u.listeners \subseteq s.listeners
      /\ s.listeners \ OnceListeners \subseteq u.listeners
  BY DEF Passed
<1>3. \A l \in Listeners, j \in 1..MaxEvents :
        l \notin s.listeners \/ j \notin A \cup {n} => u.calls[l][j] = s.calls[l][j]
  BY DEF Passed
<1>4. \A l \in s.listeners \ OnceListeners, j \in A \cup {n} :
        u.calls[l][j] = s.calls[l][j] + Multiplicity(l, log[j])
  <2> SUFFICES ASSUME NEW l \in s.listeners \ OnceListeners, NEW j \in A \cup {n}
               PROVE  u.calls[l][j] = s.calls[l][j] + Multiplicity(l, log[j])
    OBVIOUS
  <2>1. l \in Listeners /\ l \in t.listeners \ OnceListeners /\ j \in 1..MaxEvents
    BY <1>1 DEF Passed
  <2>2. CASE j = n
    BY <2>1, <2>2 DEF Passed
  <2>3. CASE j \in A
    BY <2>1, <2>3 DEF Passed
  <2>4. QED
    BY <2>2, <2>3
<1>5. ASSUME NEW l \in s.listeners \cap OnceListeners, NEW j \in A \cup {n}
      PROVE  /\ u.calls[l][j] <= Multiplicity(l, log[j])
             /\ \A i \in A \cup {n} : u.calls[l][i] > 0 /\ u.calls[l][j] > 0 => i = j
  <2>1. l \in Listeners /\ Multiplicity(l, log[j]) \in Nat
    BY <1>1, MultiplicityIsNat
  \* Either it has fired before and hears no more, or it has not yet.
  <2>2. CASE l \in t.listeners
    <3>1. \A i \in 1..MaxEvents : t.calls[l][i] = 0
      BY <2>2 DEF Ready
    <3>2. \A i \in A : u.calls[l][i] = 0
      BY <2>1, <3>1 DEF Passed
    <3>3. u.calls[l][n] <= Multiplicity(l, log[n])
      BY <2>2 DEF Passed
    <3>4. QED
      BY <1>1, <2>1, <3>2, <3>3
  <2>3. CASE l \notin t.listeners
    <3>1. \A i \in 1..MaxEvents : u.calls[l][i] = t.calls[l][i]
      BY <2>1, <2>3 DEF Passed
    <3>2. t.calls[l][n] = 0
      BY <2>1 DEF Passed, Ready
    <3>3. /\ \A i \in A : t.calls[l][i] <= Multiplicity(l, log[i])
          /\ \A i, k \in A : t.calls[l][i] > 0 /\ t.calls[l][k] > 0 => i = k
      BY DEF Passed
    <3>4. \A i \in A \cup {n} : u.calls[l][i] > 0 => i \in A
      BY <3>1, <3>2
    <3>5. u.calls[l][j] <= Multiplicity(l, log[j])
      BY <2>1, <3>1, <3>2, <3>3
    <3>6. \A i \in A \cup {n} : u.calls[l][i] > 0 /\ u.calls[l][j] > 0 => i = j
      BY <3>1, <3>3, <3>4
    <3>7. QED
      BY <3>5, <3>6
  <2>4. QED
    BY <2>2, <2>3
<1>6. QED
  BY <1>2, <1>3, <1>4, <1>5 DEF Passed

\* poll() passes every event of the page to those who listened, and stays ready.
LEMMA PageIsPassed ==
  ASSUME NEW s, Ready(s), NEW first \in Nat \ {0}, NEW last \in 0..MaxEvents, first - 1 <= last,
         \A i \in first..last : log[i].name \in Names \cup {NoName}
  PROVE  /\ Ready(Dispatch(s, first, last))
         /\ Passed(s, Dispatch(s, first, last), first..last)
<1>1. MaxEvents \in Nat /\ last \in Nat
  BY KeysAssumption
<1>2. PICK f : /\ f = [i \in 0..last |-> IF i < first THEN s ELSE DispatchEvent(f[i - 1], i)]
               /\ Dispatch(s, first, last) = f[last]
  BY <1>1, LoopRuns
<1> DEFINE T == {n \in Nat : n <= last => Ready(f[n]) /\ Passed(s, f[n], first..n)}
<1>3. \A n \in 0..last : n < first => n \in T
  <2> SUFFICES ASSUME NEW n \in 0..last, n < first PROVE n \in T
    OBVIOUS
  <2>1. f[n] = s /\ first..n = {} /\ n \in Nat
    BY <1>2
  <2>2. QED
    BY <2>1, NothingPassed
<1>4. 0 \in T
  BY <1>1, <1>3
<1>5. ASSUME NEW n \in Nat, n \in T
      PROVE  n + 1 \in T
  <2>1. CASE n + 1 > last
    BY <2>1, <1>1
  <2>2. CASE n + 1 < first /\ n + 1 <= last
    BY <2>2, <1>1, <1>3
  <2>3. CASE first <= n + 1 /\ n + 1 <= last
    <3>1. n + 1 \in first..last /\ n + 1 \in 0..last /\ n + 1 \in 1..MaxEvents /\ n <= last
      BY <2>3, <1>1
    <3>2. (n + 1) - 1 = n /\ ~(n + 1 < first)
      BY <2>3
    <3>3. f[n + 1] = DispatchEvent(f[n], n + 1)
      BY <1>2, <3>1, <3>2
    <3>4. Ready(f[n]) /\ Passed(s, f[n], first..n)
      BY <1>5, <3>1
    <3>5. Ready(f[n + 1]) /\ Passed(f[n], f[n + 1], {n + 1})
      BY <3>1, <3>3, <3>4, EventIsPassed
    <3>6. /\ first..n \in SUBSET (1..MaxEvents) /\ n + 1 \notin first..n
          /\ (first..n) \cup {n + 1} = first..(n + 1)
      BY <2>3, <1>1
    <3>7. Passed(s, f[n + 1], first..(n + 1))
      BY <3>1, <3>4, <3>5, <3>6, OneMoreEvent
    <3>8. QED
      BY <3>5, <3>7
  <2>4. QED
    BY <1>1, <2>1, <2>2, <2>3
<1>6. last \in T
  <2> HIDE DEF T
  <2>1. QED
    BY <1>1, <1>4, <1>5, SetInduction
<1>7. QED
  BY <1>1, <1>2, <1>6

-----------------------------------------------------------------------------
(* The invariant. *)

\* The cursor is within the log, and nobody joined ahead of it.
CursorFits ==
  /\ Len(log) <= MaxEvents /\ lastCursor <= Len(log)
  /\ \A l \in Listeners : joined[l] <= lastCursor

\* isPolling lets one poll() through at a time, so what it waits for is still
\* what the cursor asks for.
OnePoll ==
  \A p \in Polls : polls[p] # Idle =>
    /\ isPolling
    /\ \A q \in Polls : polls[q] # Idle => q = p
    /\ polls[p].wait \in {"ledger", "start"} => lastCursor = Unset
    /\ polls[p].wait = "events" => lastCursor # Unset /\ polls[p].from = lastCursor

\* Nobody heard of an event behind the cursor.
NothingAhead ==
  \A l \in Listeners, i \in 1..MaxEvents : i > lastCursor => calls[l][i] = 0

\* NeverTwice, event by event.
AtMostItsShare ==
  \A l \in Listeners, i \in 1..MaxEvents :
    i <= lastCursor => calls[l][i] <= Multiplicity(l, log[i])

OnceForOne ==
  \A l \in OnceListeners :
    /\ \A i, j \in 1..MaxEvents : calls[l][i] > 0 /\ calls[l][j] > 0 => i = j
    /\ l \in listeners => \A i \in 1..MaxEvents : calls[l][i] = 0

IInv ==
  /\ TypeOK /\ CursorFits /\ OnePoll /\ NothingAhead
  /\ DeliveredExactly /\ AtMostItsShare /\ OnceForOne
  /\ ClosedLeaksNothing

\* What a sequence holds.
LEMMA ElementOf ==
  ASSUME NEW S, NEW q \in Seq(S), NEW i \in 1..Len(q)
  PROVE  q[i] \in S
  OBVIOUS

\* The types of what the actions read.
LEMMA Typed ==
  ASSUME TypeOK
  PROVE  /\ MaxEvents \in Nat /\ Len(log) \in Nat /\ OnceListeners \subseteq Listeners
         /\ \A i \in 1..Len(log) :
              log[i].ledger \in 1..MaxLedger /\ log[i].name \in Names \cup {NoName}
         /\ lastCursor \in Int /\ lastCursor >= -1 /\ (lastCursor # Unset => lastCursor \in Nat)
         /\ \A l \in Listeners, i \in 1..MaxEvents : calls[l][i] \in Nat
         /\ \A p \in Polls : polls[p] = [wait |-> polls[p].wait, from |-> polls[p].from]
<1>1. MaxEvents \in Nat /\ Len(log) \in Nat /\ OnceListeners \subseteq Listeners
  BY KeysAssumption DEF TypeOK
<1>2. \A i \in 1..Len(log) :
        log[i].ledger \in 1..MaxLedger /\ log[i].name \in Names \cup {NoName}
  <2>1. \A i \in 1..Len(log) : log[i] \in [ledger : 1..MaxLedger, name : Names \cup {NoName}]
    BY ElementOf DEF TypeOK
  <2>2. QED
    BY <2>1
<1>3. lastCursor \in Int /\ lastCursor >= -1 /\ (lastCursor # Unset => lastCursor \in Nat)
  BY <1>1 DEF TypeOK, Unset
<1>4. \A l \in Listeners, i \in 1..MaxEvents : calls[l][i] \in Nat
  BY DEF TypeOK
<1>5. \A p \in Polls : polls[p] = [wait |-> polls[p].wait, from |-> polls[p].from]
  <2>1. \A p \in Polls :
          polls[p] \in [wait : {"none", "ledger", "start", "events"}, from : Nat]
    BY DEF TypeOK
  <2>2. QED
    BY <2>1
<1>6. QED
  BY <1>1, <1>2, <1>3, <1>4, <1>5

\* The first event a poll asks for comes after the cursor.
LEMMA FirstFollowsCursor ==
  ASSUME IInv, NEW p \in Polls, polls[p].wait \in {"start", "events"}
  PROVE  /\ First(p) \in Nat \ {0} /\ lastCursor < First(p)
         /\ lastCursor # Unset => First(p) = lastCursor + 1
<1>1. polls[p] # Idle
  BY DEF Idle
<1>2. lastCursor \in Int /\ (lastCursor # Unset => lastCursor \in Nat)
  BY Typed DEF IInv
<1>3. CASE polls[p].wait = "events"
  <2>1. First(p) = lastCursor + 1 /\ lastCursor # Unset
    BY <1>1, <1>3 DEF First, IInv, OnePoll
  <2>2. QED
    BY <1>2, <2>1
<1>4. CASE polls[p].wait = "start"
  <2>1. lastCursor = Unset
    BY <1>1, <1>4 DEF IInv, OnePoll
  <2> DEFINE before == {i \in DOMAIN log : log[i].ledger < polls[p].from}
  <2>2. Len(log) \in Nat /\ DOMAIN log = 1..Len(log)
    BY DEF IInv, TypeOK
  <2>3. IsFiniteSet(1..Len(log))
    <3>1. 1 \in Int /\ Len(log) \in Int
      BY <2>2
    <3>2. QED
      BY <3>1, FS_Interval
  <2>4. IsFiniteSet(before)
    BY <2>2, <2>3, FS_Subset
  <2>5. Cardinality(before) \in Nat
    BY <2>4, FS_CardinalityType
  <2>6. First(p) = Cardinality(before) + 1
    BY <1>4 DEF First
  <2> HIDE DEF before
  <2>7. QED
    BY <2>1, <2>5, <2>6 DEF Unset
<1>5. QED
  BY <1>3, <1>4

\* What an answer passes on, and which events.
LEMMA AnswerIsPassed ==
  ASSUME IInv, NEW p \in Polls, NEW last \in (First(p) - 1)..Len(log), Events(p, last)
  PROVE  LET first == First(p)
             s == [listeners |-> listeners, open |-> ~isClosed, calls |-> calls]
             t == Dispatch(s, first, last)
         IN  /\ first \in Nat \ {0} /\ lastCursor < first
             /\ lastCursor # Unset => first = lastCursor + 1
             /\ last \in 0..MaxEvents /\ first - 1 <= last /\ last <= Len(log)
             /\ lastCursor <= last
             /\ first..last \subseteq 1..Len(log) /\ first..last \subseteq 1..MaxEvents
             /\ Ready(s) /\ Ready(t) /\ Passed(s, t, first..last)
<1> DEFINE first == First(p)
           page == first..last
           s == [listeners |-> listeners, open |-> ~isClosed, calls |-> calls]
           t == Dispatch(s, first, last)
<1>1. /\ MaxEvents \in Nat /\ Len(log) \in Nat /\ Len(log) <= MaxEvents
      /\ OnceListeners \subseteq Listeners
      /\ \A i \in 1..Len(log) :
           log[i].ledger \in 1..MaxLedger /\ log[i].name \in Names \cup {NoName}
      /\ lastCursor \in Int /\ lastCursor >= -1
      /\ \A l \in Listeners, i \in 1..MaxEvents : calls[l][i] \in Nat
  BY Typed DEF IInv, CursorFits
<1>2. /\ first \in Nat \ {0} /\ lastCursor < first
      /\ lastCursor # Unset => first = lastCursor + 1
  BY FirstFollowsCursor DEF Events
<1> HIDE DEF first
<1>3. /\ last \in 0..MaxEvents /\ first - 1 <= last /\ last <= Len(log) /\ lastCursor <= last
      /\ page \subseteq 1..Len(log) /\ page \subseteq 1..MaxEvents
  BY <1>1, <1>2 DEF first
<1>4. Ready(s)
  <2>1. s \in Parts /\ s.listeners = listeners /\ s.open = ~isClosed /\ s.calls = calls
    BY DEF IInv, TypeOK, Parts
  <2>2. QED
    BY <2>1 DEF Ready, IInv, OnceForOne, ClosedLeaksNothing
<1> HIDE DEF s
<1>5. Ready(t) /\ Passed(s, t, page)
  BY <1>1, <1>2, <1>3, <1>4, PageIsPassed
<1> HIDE DEF t
<1>6. QED
  BY <1>2, <1>3, <1>4, <1>5 DEF first, s, t

\* getEvents() answers.
LEMMA EventsKeep ==
  ASSUME IInv, NEW p \in Polls, NEW last \in (First(p) - 1)..Len(log), Events(p, last)
  PROVE  IInv'
<1> DEFINE first == First(p)
           page == first..last
           s == [listeners |-> listeners, open |-> ~isClosed, calls |-> calls]
           t == Dispatch(s, first, last)
<1>1. /\ MaxEvents \in Nat /\ Len(log) \in Nat /\ Len(log) <= MaxEvents
      /\ OnceListeners \subseteq Listeners
      /\ \A i \in 1..Len(log) :
           log[i].ledger \in 1..MaxLedger /\ log[i].name \in Names \cup {NoName}
      /\ lastCursor \in Int /\ lastCursor >= -1
      /\ \A l \in Listeners, i \in 1..MaxEvents : calls[l][i] \in Nat
  BY Typed DEF IInv, CursorFits
<1>2. /\ first \in Nat \ {0} /\ lastCursor < first
      /\ lastCursor # Unset => first = lastCursor + 1
      /\ last \in 0..MaxEvents /\ first - 1 <= last /\ last <= Len(log)
      /\ lastCursor <= last
      /\ page \subseteq 1..Len(log) /\ page \subseteq 1..MaxEvents
      /\ Ready(s) /\ Ready(t) /\ Passed(s, t, page)
  BY AnswerIsPassed
<1>3. s.listeners = listeners /\ s.calls = calls
  OBVIOUS
<1>4. Ready(t) /\ Passed(s, t, page)
  BY <1>2
<1>5. /\ lastCursor' = last /\ listeners' = t.listeners /\ calls' = t.calls
      /\ isClosed' = ~t.open /\ interval' = (interval /\ t.open)
      /\ registered' = (registered /\ t.open)
      /\ isPolling' = FALSE /\ polls' = [polls EXCEPT ![p] = Idle]
      /\ ledger' = ledger /\ log' = log /\ joined' = joined
      /\ lastLedger' \in {lastLedger, log[last].ledger}
      /\ page = {} => lastLedger' = lastLedger
  BY DEF Events, s, first, network
<1> HIDE DEF first, s, t
<1>6. TypeOK'
  <2>1. t \in Parts
    BY <1>4 DEF Ready
  <2>2. /\ t.listeners \subseteq Listeners /\ t.open \in BOOLEAN
        /\ t.calls \in [Listeners -> [1..MaxEvents -> Nat]]
    BY <2>1 DEF Parts
  <2>3. lastLedger' \in {Unset} \cup 1..MaxLedger
    <3>1. CASE page = {}
      BY <1>5, <3>1 DEF IInv, TypeOK
    <3>2. CASE page # {}
      <4>1. last \in 1..Len(log)
        BY <1>1, <1>2, <3>2
      <4>2. log[last].ledger \in 1..MaxLedger
        BY <1>1, <4>1
      <4>3. QED
        BY <1>5, <4>2 DEF IInv, TypeOK
    <3>3. QED
      BY <3>1, <3>2
  <2>4. Idle \in [wait : {"none", "ledger", "start", "events"}, from : Nat]
    BY DEF Idle
  <2>5. polls' \in [Polls -> [wait : {"none", "ledger", "start", "events"}, from : Nat]]
    BY <1>5, <2>4 DEF IInv, TypeOK
  <2>6. {interval', isPolling', isClosed', registered'} \subseteq BOOLEAN
    BY <1>5, <2>2 DEF IInv, TypeOK
  <2>7. lastCursor' \in {Unset} \cup 0..MaxEvents
    BY <1>2, <1>5
  <2>8. QED
    BY <1>5, <2>2, <2>3, <2>5, <2>6, <2>7 DEF IInv, TypeOK
<1>7. CursorFits'
  <2>1. \A l \in Listeners : joined[l] \in Int /\ joined[l] <= lastCursor
    BY DEF IInv, TypeOK, CursorFits, Unset
  <2>2. QED
    BY <1>1, <1>2, <1>5, <2>1 DEF CursorFits
<1>8. OnePoll'
  <2>1. \A q \in Polls : polls'[q] = Idle
    BY <1>5, Typed DEF IInv, OnePoll, TypeOK, Events, Idle
  <2>2. QED
    BY <2>1 DEF OnePoll
<1>9. \A l \in Listeners, i \in page : calls[l][i] = 0
  <2>1. \A i \in page : i \in 1..MaxEvents /\ i > lastCursor
    BY <1>1, <1>2
  <2>2. QED
    BY <2>1 DEF IInv, NothingAhead
<1>10. \A l \in Listeners, i \in 1..MaxEvents :
         l \notin listeners \/ i \notin page => calls'[l][i] = calls[l][i]
  BY <1>3, <1>4, <1>5 DEF Passed
<1>11. NothingAhead'
  <2>1. \A i \in 1..MaxEvents : i > last => i \notin page /\ i > lastCursor
    BY <1>1, <1>2
  <2>2. QED
    BY <1>5, <1>10, <2>1 DEF IInv, NothingAhead
<1>12. DeliveredExactly'
  <2> SUFFICES ASSUME NEW l \in t.listeners \ OnceListeners, joined[l] # Unset,
                      NEW i \in (joined[l] + 1)..last
               PROVE  t.calls[l][i] = Multiplicity(l, log[i])
    BY <1>5 DEF DeliveredExactly
  <2>1. l \in Listeners /\ l \in listeners \ OnceListeners
    BY <1>3, <1>4 DEF Passed, Ready, Parts
  <2>2. joined[l] \in Nat /\ joined[l] <= lastCursor /\ lastCursor # Unset
    BY <1>1, <2>1 DEF IInv, TypeOK, CursorFits, Unset
  <2>3. CASE i \in page
    <3>1. t.calls[l][i] = s.calls[l][i] + Multiplicity(l, log[i])
      BY <1>3, <1>4, <2>1, <2>3 DEF Passed
    <3>2. QED
      BY <1>3, <1>9, <2>1, <2>3, <3>1, MultiplicityIsNat
  <2>4. CASE i \notin page
    <3>1. i \in (joined[l] + 1)..lastCursor /\ i \in 1..MaxEvents
      BY <1>1, <1>2, <2>2, <2>4
    <3>2. calls[l][i] = Multiplicity(l, log[i])
      BY <2>1, <2>2, <3>1 DEF IInv, DeliveredExactly
    <3>3. QED
      BY <1>5, <1>10, <2>1, <2>4, <3>1, <3>2
  <2>5. QED
    BY <2>3, <2>4
<1>13. AtMostItsShare'
  <2> SUFFICES ASSUME NEW l \in Listeners, NEW i \in 1..MaxEvents, i <= last
               PROVE  t.calls[l][i] <= Multiplicity(l, log[i])
    BY <1>5 DEF AtMostItsShare
  <2>1. Multiplicity(l, log[i]) \in Nat
    BY MultiplicityIsNat
  <2>2. CASE i \in page /\ l \in listeners \ OnceListeners
    <3>1. t.calls[l][i] = s.calls[l][i] + Multiplicity(l, log[i])
      BY <1>3, <1>4, <2>2 DEF Passed
    <3>2. QED
      BY <1>3, <1>9, <2>1, <2>2, <3>1
  <2>3. CASE i \in page /\ l \in listeners \cap OnceListeners
    BY <1>3, <1>4, <2>3 DEF Passed
  <2>4. CASE i \in page /\ l \notin listeners
    BY <1>5, <1>9, <1>10, <2>1, <2>4
  <2>5. CASE i \notin page /\ i <= lastCursor
    BY <1>5, <1>10, <2>5 DEF IInv, AtMostItsShare
  <2>6. CASE i \notin page /\ i > lastCursor
    BY <1>5, <1>10, <2>1, <2>6 DEF IInv, NothingAhead
  <2>7. QED
    BY <1>1, <2>2, <2>3, <2>4, <2>5, <2>6
<1>14. OnceForOne'
  <2> SUFFICES ASSUME NEW l \in OnceListeners
               PROVE  /\ \A i, j \in 1..MaxEvents :
                           t.calls[l][i] > 0 /\ t.calls[l][j] > 0 => i = j
                      /\ l \in t.listeners => \A i \in 1..MaxEvents : t.calls[l][i] = 0
    BY <1>5 DEF OnceForOne
  <2>1. l \in Listeners
    BY <1>1
  <2>2. l \in t.listeners => \A i \in 1..MaxEvents : t.calls[l][i] = 0
    BY <1>4 DEF Ready
  <2>3. CASE l \notin listeners
    BY <1>5, <1>10, <2>1, <2>2, <2>3 DEF IInv, OnceForOne
  <2>4. CASE l \in listeners
    <3>1. \A i \in 1..MaxEvents : i \notin page => t.calls[l][i] = 0
      BY <1>5, <1>10, <2>1, <2>4 DEF IInv, OnceForOne
    <3>2. \A i, j \in page : t.calls[l][i] > 0 /\ t.calls[l][j] > 0 => i = j
      BY <1>3, <1>4, <2>4 DEF Passed
    <3>3. QED
      BY <2>2, <3>1, <3>2
  <2>5. QED
    BY <2>3, <2>4
<1>15. ClosedLeaksNothing'
  <2>1. ~t.open => t.listeners = {}
    BY <1>4 DEF Ready
  <2>2. QED
    BY <1>5, <2>1 DEF ClosedLeaksNothing
<1>16. QED
  BY <1>6, <1>7, <1>8, <1>11, <1>12, <1>13, <1>14, <1>15 DEF IInv

\* Of the listeners, what leaves the feed alone can only disturb these.
LEMMA InterfaceKeeps ==
  ASSUME IInv, network' = network, feed' = feed,
         \A l \in Listeners : joined'[l] <= lastCursor,
         \A l \in listeners' :
           \/ joined'[l] = joined[l] /\ l \in listeners
           \/ joined'[l] = lastCursor,
         \A l \in listeners' \cap OnceListeners :
           l \in listeners \/ \A i \in 1..MaxEvents : calls[l][i] = 0
  PROVE  /\ CursorFits' /\ OnePoll' /\ NothingAhead' /\ AtMostItsShare'
         /\ DeliveredExactly' /\ OnceForOne'
<1>1. /\ log' = log /\ ledger' = ledger /\ lastLedger' = lastLedger /\ lastCursor' = lastCursor
      /\ isPolling' = isPolling /\ polls' = polls /\ calls' = calls
  BY DEF network, feed
<1>2. CursorFits'
  BY <1>1 DEF IInv, CursorFits
<1>3. OnePoll' /\ NothingAhead' /\ AtMostItsShare'
  BY <1>1 DEF IInv, OnePoll, NothingAhead, AtMostItsShare
<1>4. DeliveredExactly'
  <2> SUFFICES ASSUME NEW l \in listeners' \ OnceListeners, joined'[l] # Unset,
                      NEW i \in (joined'[l] + 1)..lastCursor
               PROVE  calls[l][i] = Multiplicity(l, log[i])
    BY <1>1 DEF DeliveredExactly
  <2>1. CASE joined'[l] = lastCursor
    <3>1. lastCursor \in Int
      BY Typed DEF IInv
    <3>2. QED
      BY <2>1, <3>1
  <2>2. CASE joined'[l] = joined[l] /\ l \in listeners
    BY <2>2 DEF IInv, DeliveredExactly
  <2>3. QED
    BY <2>1, <2>2
<1>5. OnceForOne'
  BY <1>1 DEF IInv, OnceForOne
<1>6. QED
  BY <1>2, <1>3, <1>4, <1>5

\* The cursor, and where the listeners joined.
LEMMA JoinedFits ==
  ASSUME IInv
  PROVE  /\ lastCursor \in Int
         /\ \A l \in Listeners : joined[l] <= lastCursor
  BY Typed DEF IInv, CursorFits

\* on(), once().
LEMMA OnKeeps ==
  ASSUME IInv, NEW l \in Listeners, On(l)
  PROVE  IInv'
<1>1. /\ lastCursor \in Int /\ \A k \in Listeners : joined[k] <= lastCursor
      /\ joined \in [Listeners -> {Unset} \cup Nat] /\ lastCursor \in {Unset} \cup Nat
      /\ listeners \subseteq Listeners
  BY JoinedFits DEF IInv, TypeOK
<1>2. /\ \A k \in Listeners : joined'[k] = IF k = l THEN lastCursor ELSE joined[k]
      /\ joined' \in [Listeners -> {Unset} \cup Nat]
      /\ listeners' = listeners \cup {l} /\ interval' = TRUE
      /\ ~isClosed /\ isClosed' = isClosed /\ registered' = registered
      /\ network' = network /\ feed' = feed
  BY <1>1 DEF On
<1>3. TypeOK'
  BY <1>1, <1>2 DEF IInv, TypeOK, network, feed
<1>4. /\ CursorFits' /\ OnePoll' /\ NothingAhead' /\ AtMostItsShare'
      /\ DeliveredExactly' /\ OnceForOne'
  <2>1. \A k \in Listeners : joined'[k] <= lastCursor
    BY <1>1, <1>2
  <2>2. \A k \in listeners' :
          \/ joined'[k] = joined[k] /\ k \in listeners
          \/ joined'[k] = lastCursor
    BY <1>1, <1>2
  <2>3. \A k \in listeners' \cap OnceListeners :
          k \in listeners \/ \A i \in 1..MaxEvents : calls[k][i] = 0
    BY <1>2 DEF On
  <2>4. QED
    BY <1>2, <2>1, <2>2, <2>3, InterfaceKeeps
<1>5. ClosedLeaksNothing'
  BY <1>2 DEF ClosedLeaksNothing
<1>6. QED
  BY <1>3, <1>4, <1>5 DEF IInv

\* off(), removeAllListeners(), close(), start(), stop(): who listens after,
\* listened before.
LEMMA FewerKeep ==
  ASSUME IInv, network' = network, feed' = feed, joined' = joined,
         listeners' \subseteq listeners,
         {interval', isClosed', registered'} \subseteq BOOLEAN,
         ClosedLeaksNothing'
  PROVE  IInv'
<1>1. TypeOK'
  BY DEF IInv, TypeOK, network, feed
<1>2. listeners' \subseteq Listeners
  BY DEF IInv, TypeOK
<1>3. /\ CursorFits' /\ OnePoll' /\ NothingAhead' /\ AtMostItsShare'
      /\ DeliveredExactly' /\ OnceForOne'
  BY <1>2, JoinedFits, InterfaceKeeps
<1>4. QED
  BY <1>1, <1>3 DEF IInv

\* off(), removeAllListeners(), close(): the last one closes the emitter.
LEMMA OffKeeps ==
  ASSUME IInv, NEW ls, Off(ls)
  PROVE  IInv'
<1>1. {interval, isClosed, registered} \subseteq BOOLEAN
  BY DEF IInv, TypeOK
<1>2. ClosedLeaksNothing
  BY DEF IInv
<1>3. /\ network' = network /\ feed' = feed /\ joined' = joined
      /\ listeners' = listeners \ ls
  BY DEF Off
<1>4. CASE listeners \subseteq ls
  <2>1. isClosed' = TRUE /\ registered' = FALSE /\ interval' = FALSE /\ listeners' = {}
    BY <1>3, <1>4 DEF Off
  <2>2. ClosedLeaksNothing'
    BY <2>1 DEF ClosedLeaksNothing
  <2>3. QED
    BY <1>3, <2>1, <2>2, FewerKeep
<1>5. CASE ~(listeners \subseteq ls)
  <2>1. isClosed' = isClosed /\ registered' = registered /\ interval' = interval
    BY <1>5 DEF Off
  <2>2. ClosedLeaksNothing'
    BY <1>2, <1>3, <2>1 DEF ClosedLeaksNothing
  <2>3. QED
    BY <1>1, <1>3, <2>1, <2>2, FewerKeep
<1>6. QED
  BY <1>4, <1>5

\* start(), stop().
LEMMA StartStopKeep ==
  ASSUME IInv, Start \/ Stop
  PROVE  IInv'
<1>1. {interval, isClosed, registered} \subseteq BOOLEAN /\ ClosedLeaksNothing
  BY DEF IInv, TypeOK
<1>2. /\ network' = network /\ feed' = feed /\ joined' = joined
      /\ listeners' = listeners /\ isClosed' = isClosed /\ registered' = registered
      /\ interval' \in BOOLEAN /\ (isClosed => ~interval')
  BY DEF Start, Stop
<1>3. ClosedLeaksNothing'
  BY <1>1, <1>2 DEF ClosedLeaksNothing
<1>4. QED
  BY <1>1, <1>2, <1>3, FewerKeep

\* The steps of a poll that bring no events.
LEMMA PollKeeps ==
  ASSUME IInv, NEW p \in Polls, Poll(p) \/ LatestLedger(p) \/ PollFails(p)
  PROVE  IInv'
<1>1. /\ network' = network /\ listeners' = listeners /\ interval' = interval
      /\ lastCursor' = lastCursor /\ isClosed' = isClosed /\ registered' = registered
      /\ calls' = calls /\ joined' = joined
  BY DEF Poll, LatestLedger, PollFails
<1>2. ledger' = ledger /\ log' = log
  BY <1>1 DEF network
<1>3. lastCursor \in Int /\ (lastCursor # Unset => lastCursor \in Nat)
  BY Typed DEF IInv
<1> DEFINE PollType == [wait : {"none", "ledger", "start", "events"}, from : Nat]
<1>4. polls \in [Polls -> PollType] /\ ledger \in 1..MaxLedger
      /\ lastLedger \in {Unset} \cup 1..MaxLedger
  BY DEF IInv, TypeOK
<1>5. MaxLedger \in Nat /\ ledger \in Nat
  BY <1>4, KeysAssumption
<1>6. /\ CursorFits' /\ NothingAhead' /\ DeliveredExactly'
      /\ AtMostItsShare' /\ OnceForOne' /\ ClosedLeaksNothing'
  BY <1>1, <1>2 DEF IInv, CursorFits, NothingAhead, DeliveredExactly, AtMostItsShare,
     OnceForOne, ClosedLeaksNothing
<1>7. CASE Poll(p)
  <2>1. Request \in PollType /\ Request # Idle
    BY <1>3, <1>4, <1>5 DEF Request, Idle, Unset
  <2>2. isPolling' = TRUE /\ ~isPolling /\ lastLedger' = lastLedger
        /\ polls' = [polls EXCEPT ![p] = Request]
    BY <1>7 DEF Poll
  <2>3. TypeOK'
    BY <1>1, <1>2, <1>4, <2>1, <2>2 DEF IInv, TypeOK
  <2>4. \A q \in Polls : polls'[q] = IF q = p THEN Request ELSE Idle
    BY <1>4, <2>2 DEF IInv, OnePoll
  <2>5. /\ Request.wait \in {"ledger", "start"} => lastCursor = Unset
        /\ Request.wait = "events" => lastCursor # Unset /\ Request.from = lastCursor
    BY DEF Request
  <2>6. OnePoll'
    BY <1>1, <2>2, <2>4, <2>5 DEF OnePoll
  <2>7. QED
    BY <1>6, <2>3, <2>6 DEF IInv
<1>8. CASE LatestLedger(p)
  <2> DEFINE start == [wait |-> "start", from |-> ledger]
  <2>1. /\ start \in PollType /\ start # Idle /\ start.wait = "start"
        /\ lastLedger' = ledger /\ isPolling' = isPolling
        /\ polls[p].wait = "ledger" /\ polls[p] # Idle
        /\ polls' = [polls EXCEPT ![p] = start]
    BY <1>5, <1>8 DEF LatestLedger, Idle
  <2> HIDE DEF start
  <2>2. TypeOK'
    BY <1>1, <1>2, <1>4, <2>1 DEF IInv, TypeOK
  <2>3. \A q \in Polls : polls'[q] = IF q = p THEN start ELSE Idle
    BY <1>4, <2>1 DEF IInv, OnePoll
  <2>4. isPolling /\ lastCursor = Unset
    BY <2>1 DEF IInv, OnePoll
  <2>5. OnePoll'
    BY <1>1, <2>1, <2>3, <2>4 DEF OnePoll
  <2>6. QED
    BY <1>6, <2>2, <2>5 DEF IInv
<1>9. CASE PollFails(p)
  <2>1. /\ Idle \in PollType /\ isPolling' = FALSE /\ lastLedger' = lastLedger
        /\ polls[p] # Idle /\ polls' = [polls EXCEPT ![p] = Idle]
    BY <1>9 DEF PollFails, Idle
  <2>2. TypeOK'
    BY <1>1, <1>2, <1>4, <2>1 DEF IInv, TypeOK
  <2>3. \A q \in Polls : polls'[q] = Idle
    BY <1>4, <2>1 DEF IInv, OnePoll
  <2>4. OnePoll'
    BY <2>3 DEF OnePoll
  <2>5. QED
    BY <1>6, <2>2, <2>4 DEF IInv
<1>10. QED
  BY <1>7, <1>8, <1>9

\* The network goes on.
LEMMA NetworkKeeps ==
  ASSUME IInv, LedgerCloses \/ \E n \in Names \cup {NoName} : ContractEmits(n)
  PROVE  IInv'
<1>1. /\ listeners' = listeners /\ interval' = interval /\ feed' = feed
      /\ isClosed' = isClosed /\ registered' = registered /\ joined' = joined
  BY DEF LedgerCloses, ContractEmits
<1>2. /\ lastLedger' = lastLedger /\ lastCursor' = lastCursor /\ isPolling' = isPolling
      /\ polls' = polls /\ calls' = calls
  BY <1>1 DEF feed
<1>3. Len(log) \in Nat /\ MaxEvents \in Nat /\ Len(log) <= MaxEvents
      /\ lastCursor \in Int /\ lastCursor <= Len(log)
  BY Typed DEF IInv, CursorFits
<1>4. /\ ledger' \in 1..MaxLedger
      /\ log' \in Seq([ledger : 1..MaxLedger, name : Names \cup {NoName}])
      /\ Len(log') \in Nat /\ Len(log) <= Len(log') /\ Len(log') <= MaxEvents
      /\ \A i \in 1..Len(log) : log'[i] = log[i]
  <2>1. MaxLedger \in Nat /\ ledger \in 1..MaxLedger
        /\ log \in Seq([ledger : 1..MaxLedger, name : Names \cup {NoName}])
    BY KeysAssumption DEF IInv, TypeOK
  <2>2. CASE LedgerCloses
    BY <1>3, <2>1, <2>2 DEF LedgerCloses
  <2>3. CASE \E n \in Names \cup {NoName} : ContractEmits(n)
    <3>1. PICK n \in Names \cup {NoName} : ContractEmits(n)
      BY <2>3
    <3> DEFINE E == [ledger : 1..MaxLedger, name : Names \cup {NoName}]
               e == [ledger |-> ledger, name |-> n]
    <3>2. e \in E /\ log \in Seq(E)
      BY <2>1
    <3> HIDE DEF E, e
    <3>3. /\ Append(log, e) \in Seq(E) /\ Len(Append(log, e)) = Len(log) + 1
          /\ \A i \in 1..Len(log) : Append(log, e)[i] = log[i]
      BY <3>2
    <3>4. log' = Append(log, e) /\ ledger' = ledger /\ Len(log) < MaxEvents
      BY <3>1 DEF ContractEmits, e
    <3>5. QED
      BY <1>3, <2>1, <3>3, <3>4 DEF E
  <2>4. QED
    BY <2>2, <2>3
<1>5. TypeOK'
  BY <1>1, <1>2, <1>4 DEF IInv, TypeOK
<1>6. CursorFits'
  BY <1>1, <1>2, <1>3, <1>4 DEF IInv, CursorFits
<1>7. OnePoll' /\ NothingAhead' /\ OnceForOne' /\ ClosedLeaksNothing'
  BY <1>1, <1>2 DEF IInv, OnePoll, NothingAhead, OnceForOne, ClosedLeaksNothing
<1>8. \A i \in 1..MaxEvents : i <= lastCursor => log'[i] = log[i]
  BY <1>3, <1>4
<1>9. AtMostItsShare'
  BY <1>2, <1>8 DEF IInv, AtMostItsShare
<1>10. DeliveredExactly'
  <2> SUFFICES ASSUME NEW l \in listeners \ OnceListeners, joined[l] # Unset,
                      NEW i \in (joined[l] + 1)..lastCursor
               PROVE  calls[l][i] = Multiplicity(l, log'[i])
    BY <1>1, <1>2 DEF DeliveredExactly
  <2>1. joined[l] \in Nat
    BY DEF IInv, TypeOK, Unset
  <2>2. i \in 1..MaxEvents /\ i <= lastCursor
    BY <1>3, <2>1
  <2>3. calls[l][i] = Multiplicity(l, log[i])
    BY DEF IInv, DeliveredExactly
  <2>4. QED
    BY <1>8, <2>2, <2>3
<1>11. QED
  BY <1>5, <1>6, <1>7, <1>9, <1>10 DEF IInv

\* The constructor.
LEMMA InitHolds ==
  ASSUME Init
  PROVE  IInv
<1>1. /\ ledger = 1 /\ log = <<>> /\ listeners = {} /\ lastLedger = Unset /\ lastCursor = Unset
      /\ {interval, isPolling, isClosed, registered} \subseteq BOOLEAN /\ isClosed = FALSE
      /\ polls = [p \in Polls |-> Idle]
      /\ calls = [l \in Listeners |-> [i \in 1..MaxEvents |-> 0]]
      /\ joined = [l \in Listeners |-> Unset]
  BY DEF Init
<1>2. /\ MaxEvents \in Nat /\ 1 \in 1..MaxLedger /\ OnceListeners \subseteq Listeners
      /\ Len(log) = 0
  BY <1>1, KeysAssumption
<1>3. Idle \in [wait : {"none", "ledger", "start", "events"}, from : Nat]
  BY DEF Idle
<1>4. log \in Seq([ledger : 1..MaxLedger, name : Names \cup {NoName}])
  BY <1>1
<1>5. TypeOK
  BY <1>1, <1>2, <1>3, <1>4 DEF TypeOK
<1>6. CursorFits
  BY <1>1, <1>2 DEF CursorFits, Unset
<1>7. OnePoll /\ NothingAhead /\ ClosedLeaksNothing /\ DeliveredExactly
  BY <1>1 DEF OnePoll, NothingAhead, ClosedLeaksNothing, DeliveredExactly
<1>8. AtMostItsShare
  BY <1>1, MultiplicityIsNat DEF AtMostItsShare, Unset
<1>9. OnceForOne
  BY <1>1, <1>2 DEF OnceForOne
<1>10. QED
  BY <1>5, <1>6, <1>7, <1>8, <1>9 DEF IInv

\* One step of the emitter, its callers or the network.
LEMMA StepKeeps ==
  ASSUME IInv, [Next]_vars
  PROVE  IInv'
<1>1. ASSUME NEW l \in Listeners, On(l) PROVE IInv'
  BY <1>1, OnKeeps
<1>2. ASSUME NEW ls, Off(ls) PROVE IInv'
  BY <1>2, OffKeeps
<1>3. CASE Start \/ Stop
  BY <1>3, StartStopKeep
<1>4. ASSUME NEW p \in Polls, Poll(p) \/ LatestLedger(p) \/ PollFails(p) PROVE IInv'
  BY <1>4, PollKeeps
<1>5. ASSUME NEW p \in Polls, AnyPage(p) PROVE IInv'
  BY <1>5, EventsKeep DEF AnyPage
<1>6. CASE LedgerCloses \/ \E n \in Names \cup {NoName} : ContractEmits(n)
  BY <1>6, NetworkKeeps
<1>7. CASE UNCHANGED vars
  <2>1. /\ ledger' = ledger /\ log' = log /\ listeners' = listeners /\ interval' = interval
        /\ lastLedger' = lastLedger /\ lastCursor' = lastCursor /\ isPolling' = isPolling
        /\ isClosed' = isClosed /\ registered' = registered /\ polls' = polls
        /\ calls' = calls /\ joined' = joined
    BY <1>7 DEF vars
  <2>2. QED
    BY <2>1 DEF IInv, TypeOK, CursorFits, OnePoll, NothingAhead, DeliveredExactly,
       AtMostItsShare, OnceForOne, ClosedLeaksNothing
<1>8. QED
  BY <1>1, <1>2, <1>3, <1>4, <1>5, <1>6, <1>7 DEF Next, RemoveKey, CloseEmitter

(* The invariant holds in every reachable state. *)
THEOREM Invariance == Spec => []IInv
<1>1. Init => IInv
  BY InitHolds
<1>2. IInv /\ [Next]_vars => IInv'
  BY StepKeeps
<1>3. QED
  BY <1>1, <1>2, PTL DEF Spec

-----------------------------------------------------------------------------
(* Theorems. *)

(* The emitter's fields have their types, whatever it is called with and
   however many polls, listeners and events there are. *)
THEOREM TypeCorrect == Spec => []TypeOK
<1>1. IInv => TypeOK
  BY DEF IInv
<1>2. QED
  BY <1>1, Invariance, PTL

(* poll() loses and repeats nothing: a listener that stays has had every event
   between the cursor it joined at and the cursor now, as often as emit() is
   called for its key. *)
THEOREM DeliveryExact == Spec => []DeliveredExactly
<1>1. IInv => DeliveredExactly
  BY DEF IInv
<1>2. QED
  BY <1>1, Invariance, PTL

(* No event comes to a listener through two polls, and the wrapper of once()
   fires for one event only. *)
THEOREM NobodyHearsTwice == Spec => []NeverTwice
<1>1. ASSUME IInv PROVE NeverTwice
  <2>1. /\ MaxEvents \in Nat /\ Len(log) \in Nat /\ OnceListeners \subseteq Listeners
        /\ lastCursor \in Int /\ lastCursor <= Len(log)
        /\ \A l \in Listeners, i \in 1..MaxEvents : calls[l][i] \in Nat
    BY <1>1, Typed DEF IInv, CursorFits
  <2>2. ASSUME NEW l \in Listeners, NEW i \in 1..MaxEvents, calls[l][i] > 0
        PROVE  calls[l][i] <= (IF i <= Len(log) THEN Multiplicity(l, log[i]) ELSE 0)
    <3>1. calls[l][i] # 0
      BY <2>1, <2>2
    <3>2. i <= lastCursor
      BY <1>1, <2>1, <3>1 DEF IInv, NothingAhead
    <3>3. i <= Len(log)
      BY <2>1, <3>2
    <3>4. QED
      BY <1>1, <3>2, <3>3 DEF IInv, AtMostItsShare
  <2>3. ASSUME NEW l \in OnceListeners
        PROVE  Cardinality({i \in 1..MaxEvents : calls[l][i] > 0}) <= 1
    <3> DEFINE heard == {i \in 1..MaxEvents : calls[l][i] > 0}
    <3>1. \A i, j \in heard : i = j
      BY <1>1 DEF IInv, OnceForOne
    <3>2. heard = {} \/ \E i : heard = {i}
      BY <3>1
    <3> HIDE DEF heard
    <3>3. Cardinality(heard) <= 1
      <4>1. CASE heard = {}
        BY <4>1, FS_EmptySet
      <4>2. ASSUME NEW i, heard = {i} PROVE Cardinality(heard) <= 1
        BY <4>2, FS_Singleton
      <4>3. QED
        BY <3>2, <4>1, <4>2
    <3>4. QED
      BY <3>3 DEF heard
  <2>4. QED
    BY <1>1, <2>2, <2>3 DEF NeverTwice, IInv, OnceForOne
<1>2. QED
  BY <1>1, Invariance, PTL

(* However an emitter came to be closed - by close(), by off(), or by the last
   once() listener in the middle of a page - it holds no timer, no listener and
   no place in the client. *)
THEOREM ClosedHoldsNothing == Spec => []ClosedLeaksNothing
<1>1. IInv => ClosedLeaksNothing
  BY DEF IInv
<1>2. QED
  BY <1>1, Invariance, PTL

\* The answer to a poll of a closed emitter.
LEMMA ClosedPassesNothing ==
  ASSUME IInv, isClosed, NEW p \in Polls, NEW last \in (First(p) - 1)..Len(log), Events(p, last)
  PROVE  calls' = calls
<1> DEFINE s == [listeners |-> listeners, open |-> ~isClosed, calls |-> calls]
           t == Dispatch(s, First(p), last)
<1>1. listeners = {} /\ calls \in [Listeners -> [1..MaxEvents -> Nat]]
  BY DEF IInv, ClosedLeaksNothing, TypeOK
<1>2. Ready(t) /\ Passed(s, t, First(p)..last) /\ s.listeners = {} /\ s.calls = calls
  BY <1>1, AnswerIsPassed
<1>3. calls' = t.calls
  BY DEF Events
<1> HIDE DEF s, t
<1>4. t.calls \in [Listeners -> [1..MaxEvents -> Nat]]
  BY <1>2 DEF Ready, Parts
<1>5. \A l \in Listeners, i \in 1..MaxEvents : t.calls[l][i] = calls[l][i]
  BY <1>2 DEF Passed
<1>6. ASSUME NEW l \in Listeners PROVE t.calls[l] = calls[l]
  <2>1. t.calls[l] \in [1..MaxEvents -> Nat] /\ calls[l] \in [1..MaxEvents -> Nat]
    BY <1>1, <1>4
  <2>2. \A i \in 1..MaxEvents : t.calls[l][i] = calls[l][i]
    BY <1>5
  <2>3. t.calls[l] = [i \in 1..MaxEvents |-> t.calls[l][i]]
    BY <2>1
  <2>4. calls[l] = [i \in 1..MaxEvents |-> calls[l][i]]
    BY <2>1
  <2>5. [i \in 1..MaxEvents |-> t.calls[l][i]] = [i \in 1..MaxEvents |-> calls[l][i]]
    BY <2>2
  <2>6. QED
    BY <2>3, <2>4, <2>5
<1>7. t.calls = calls
  BY <1>1, <1>4, <1>6
<1>8. QED
  BY <1>3, <1>7

(* After close() the answer of a poll in flight is passed to nobody. *)
THEOREM ClosedCallsNobody == Spec => ClosedIsSilent
<1>1. ASSUME IInv, [Next]_vars, isClosed PROVE calls' = calls
  <2>1. CASE \E p \in Polls : AnyPage(p)
    BY <1>1, <2>1, ClosedPassesNothing DEF AnyPage
  <2>2. CASE ~\E p \in Polls : AnyPage(p)
    BY <1>1, <2>2 DEF Next, On, Off, RemoveKey, CloseEmitter, Stop, Start, Poll, LatestLedger,
       PollFails, ContractEmits, LedgerCloses, feed, vars
  <2>3. QED
    BY <2>1, <2>2
<1>2. IInv /\ [Next]_vars => [isClosed => calls' = calls]_vars
  BY <1>1
<1>3. QED
  BY <1>2, Invariance, PTL DEF Spec, ClosedIsSilent
=============================================================================
