--------------------------- MODULE ServicesProofs ---------------------------
(***************************************************************************)
(* Theorems about components that keep to themselves: SessionManager, for  *)
(* any ids, contracts and limit; RpcHealthMonitor, for any endpoints,      *)
(* latencies and threshold; the fees of ClientFees, for any amounts,       *)
(* multipliers and limits; MiddlewarePipeline and PluginManager, for any   *)
(* entries, clients and calls; Registries, for any adapters, searches and  *)
(* descriptors; Migrations, for any versions and steps; ContractMetadata,  *)
(* for any names, environments and heap; and TransactionLifecycle, for any *)
(* transactions, subscriptions and nesting.                                *)
(***************************************************************************)
EXTENDS SessionManager, RpcHealthMonitor, ClientFees, MiddlewarePipeline, PluginManager,
        Registries, Migrations, ContractMetadata, TransactionLifecycle,
        FiniteSetTheorems, SequenceTheorems, WellFoundedInduction, TLAPS

-----------------------------------------------------------------------------
(* SessionManager *)

ContractMaps == UNION {[S -> ContractAddresses] : S \in SUBSET ContractNames}

SessionType == [id : SessionIds, status : {"active", "suspended", "closed"},
                contracts : ContractMaps]

\* Beside the property: a session in the Map was made by the manager, the ids
\* generated so far are ids, and a closed session holds no contract.
SessionIInv ==
  /\ sessionsMade \in Seq(SessionType)
  /\ work \in Seq(Nat) /\ Len(work) = Len(sessionsMade)
  /\ sessionCounter \in Nat /\ 1..sessionCounter \subseteq SessionIds
  /\ sessionMap \subseteq Made /\ IsFiniteSet(sessionMap)
  /\ \A n \in Made : n \in sessionMap \/ ~Open(n)
  /\ \A n \in Made : ~Open(n) => sessionsMade[n].contracts = <<>>
  /\ Cardinality(sessionMap) <= maxSessions
  /\ \A m, n \in sessionMap : sessionsMade[m].id = sessionsMade[n].id => m = n

LEMMA NoContracts == <<>> \in ContractMaps /\ Range(<<>>) = {}
<1>1. <<>> \in [{} -> ContractAddresses]
  OBVIOUS
<1> QED
  BY <1>1 DEF ContractMaps, Range

LEMMA SessionInvInit == SessionInit => SessionIInv
<1> SUFFICES ASSUME SessionInit PROVE SessionIInv
  OBVIOUS
<1>1. IsFiniteSet(sessionMap) /\ Cardinality(sessionMap) = 0
  BY FS_EmptySet DEF SessionInit
<1> QED
  BY <1>1, SessionAssumption DEF SessionInit, SessionIInv, Made

\* Whatever closes sessions or changes their contents: none is opened or
\* renamed, and what leaves the Map is closed.
LEMMA SessionsChange ==
  ASSUME SessionIInv,
         sessionsMade' \in Seq(SessionType), Len(sessionsMade') = Len(sessionsMade),
         \A n \in Made : /\ sessionsMade'[n].id = sessionsMade[n].id
                         /\ Open(n)' => Open(n)
                         /\ ~Open(n)' => sessionsMade'[n].contracts = <<>>
                         /\ n \in sessionMap \ sessionMap' => ~Open(n)',
         sessionMap' \subseteq sessionMap, UNCHANGED sessionCounter,
         work' \in Seq(Nat), Len(work') = Len(work)
  PROVE  SessionIInv'
<1>1. Made' = Made
  BY LenProperties DEF Made, SessionIInv
<1>2. /\ IsFiniteSet(sessionMap') /\ Cardinality(sessionMap') <= Cardinality(sessionMap)
      /\ Cardinality(sessionMap') \in Nat /\ Cardinality(sessionMap) \in Nat
  BY FS_Subset, FS_CardinalityType DEF SessionIInv
<1>3. Cardinality(sessionMap') <= maxSessions
  BY <1>2, SessionAssumption DEF SessionIInv
<1> QED
  BY <1>1, <1>2, <1>3 DEF SessionIInv

LEMMA CreateInv ==
  ASSUME SessionIInv, NEW id \in SessionIds \cup {Generated}, CreateSession(id)
  PROVE  SessionIInv'
<1> DEFINE given == IF id = Generated THEN sessionCounter' ELSE id
           N == Len(sessionsMade) + 1
<1>0. N \in Nat /\ Made = 1..(N - 1)
  BY LenProperties DEF SessionIInv, Made
<1>1. /\ sessionCounter' \in Nat /\ 1..sessionCounter' \subseteq SessionIds
      /\ given \in SessionIds
  BY DEF CreateSession, SessionIInv, Generated
<1>2. CASE InMap(given) # {}
  BY <1>1, <1>2 DEF CreateSession, SessionIInv, Made, Open
<1>3. CASE InMap(given) = {}
  <2>1. /\ sessionsMade' = Append(sessionsMade, FreshSession(given))
        /\ sessionMap' = sessionMap \cup {N} /\ work' = Append(work, 0)
        /\ Cardinality(sessionMap) < maxSessions
    BY <1>3 DEF CreateSession
  <2>2. FreshSession(given) \in SessionType /\ FreshSession(given).id = given
        /\ FreshSession(given).status = "active"
    BY <1>1, NoContracts DEF FreshSession, SessionType
  <2> HIDE DEF given
  <2>3. /\ sessionsMade' \in Seq(SessionType) /\ Len(sessionsMade') = N
        /\ sessionsMade'[N] = FreshSession(given)
        /\ \A n \in Made : sessionsMade'[n] = sessionsMade[n]
        /\ work' \in Seq(Nat) /\ Len(work') = N
    BY <1>0, <2>1, <2>2, AppendProperties DEF SessionIInv
  <2>4. Made' = Made \cup {N} /\ N \notin Made
    BY <1>0, <2>3, LenProperties DEF Made
  <2>5. /\ IsFiniteSet(sessionMap') /\ Cardinality(sessionMap) \in Nat
        /\ Cardinality(sessionMap') = Cardinality(sessionMap) + 1
    BY <2>1, <2>4, FS_AddElement, FS_CardinalityType DEF SessionIInv
  <2>6. Cardinality(sessionMap') <= maxSessions
    BY <2>1, <2>5, SessionAssumption
  <2>7. \A n \in Made' : n \in sessionMap' \/ ~Open(n)'
    BY <2>1, <2>3, <2>4 DEF SessionIInv, Open
  <2>8. \A n \in Made' : ~Open(n)' => sessionsMade'[n].contracts = <<>>
    BY <2>2, <2>3, <2>4 DEF SessionIInv, Open
  <2>9. \A m, n \in sessionMap' : sessionsMade'[m].id = sessionsMade'[n].id => m = n
    <3>1. \A n \in sessionMap : sessionsMade[n].id # given
      BY <1>3 DEF InMap
    <3>2. \A n \in sessionMap : sessionsMade'[n] = sessionsMade[n]
      BY <2>3 DEF SessionIInv
    <3>3. sessionsMade'[N].id = given
      BY <2>2, <2>3
    <3>4. \A m, n \in sessionMap : sessionsMade[m].id = sessionsMade[n].id => m = n
      BY DEF SessionIInv
    <3> HIDE DEF N
    <3>5. sessionMap' = sessionMap \cup {N}
      BY <2>1 DEF N
    <3> QED
      BY <3>1, <3>2, <3>3, <3>4, <3>5
  <2>10. sessionMap' \subseteq Made'
    BY <2>1, <2>4 DEF SessionIInv
  <2> QED
    BY <1>1, <2>3, <2>5, <2>6, <2>7, <2>8, <2>9, <2>10 DEF SessionIInv
<1> QED
  BY <1>2, <1>3

\* A session changes its status or its contracts and stays open or closed.
LEMMA OneSessionInv ==
  ASSUME SessionIInv, NEW n \in Made, NEW s \in SessionType,
         s.id = sessionsMade[n].id, s.status # "closed" => Open(n),
         s.status = "closed" => s.contracts = <<>>,
         sessionsMade' = [sessionsMade EXCEPT ![n] = s],
         UNCHANGED <<sessionMap, sessionCounter, work>>
  PROVE  SessionIInv'
<1>0. n \in 1..Len(sessionsMade) /\ Made = 1..Len(sessionsMade)
  BY LenProperties DEF SessionIInv, Made
<1>1. /\ sessionsMade' \in Seq(SessionType) /\ Len(sessionsMade') = Len(sessionsMade)
      /\ \A k \in Made : sessionsMade'[k] = IF k = n THEN s ELSE sessionsMade[k]
  BY <1>0, ExceptSeq DEF SessionIInv
<1>2. \A k \in Made : /\ sessionsMade'[k].id = sessionsMade[k].id
                      /\ Open(k)' => Open(k)
                      /\ ~Open(k)' => sessionsMade'[k].contracts = <<>>
                      /\ k \in sessionMap \ sessionMap' => ~Open(k)'
  BY <1>1 DEF SessionIInv, Open
<1>3. work' \in Seq(Nat) /\ Len(work') = Len(work)
  BY DEF SessionIInv
<1> QED
  BY <1>1, <1>2, <1>3, SessionsChange

\* Sessions are closed; those that leave the Map are among them.
LEMMA ClosedInv ==
  ASSUME SessionIInv, NEW ns \in SUBSET Made, sessionsMade' = Closed(ns),
         sessionMap' \subseteq sessionMap, sessionMap \ sessionMap' \subseteq ns,
         UNCHANGED <<sessionCounter, work>>
  PROVE  SessionIInv'
<1>0. Made = 1..Len(sessionsMade) /\ Len(sessionsMade) \in Nat
  BY LenProperties DEF SessionIInv, Made
<1>1. \A k \in Made : sessionsMade[k] \in SessionType
  BY <1>0, ElementOfSeq DEF SessionIInv
<1>2. ASSUME NEW k \in Made
      PROVE  /\ sessionsMade'[k] \in SessionType
             /\ sessionsMade'[k].id = sessionsMade[k].id
             /\ k \in ns => sessionsMade'[k].status = "closed" /\ sessionsMade'[k].contracts = <<>>
             /\ k \notin ns => sessionsMade'[k] = sessionsMade[k]
  BY <1>1, NoContracts DEF Closed, SessionType
<1>3. sessionsMade' \in [1..Len(sessionsMade) -> SessionType]
  BY <1>0, <1>2 DEF Closed
<1>4. sessionsMade' \in Seq(SessionType) /\ Len(sessionsMade') = Len(sessionsMade)
  BY <1>0, <1>3
<1>5. \A k \in Made : /\ Open(k)' => Open(k)
                      /\ ~Open(k)' => sessionsMade'[k].contracts = <<>>
                      /\ k \in sessionMap \ sessionMap' => ~Open(k)'
  BY <1>2 DEF SessionIInv, Open
<1>6. work' \in Seq(Nat) /\ Len(work') = Len(work)
  BY DEF SessionIInv
<1> QED
  BY <1>2, <1>4, <1>5, <1>6, SessionsChange

\* The step of one session.
SessionOwn(n) ==
  \/ \E name \in ContractNames : \/ UnregisterContract(n, name)
                                 \/ \E a \in ContractAddresses : RegisterContract(n, name, a)
  \/ Suspend(n) \/ Resume(n) \/ CloseItself(n) \/ RunStarts(n) \/ RunEnds(n)

LEMMA SetStatusInv ==
  ASSUME SessionIInv, NEW n \in Made, NEW status \in {"active", "suspended"},
         Open(n), SetStatus(n, status)
  PROVE  SessionIInv'
<1> DEFINE s == [sessionsMade[n] EXCEPT !.status = status]
<1>0. Made = 1..Len(sessionsMade) /\ sessionsMade[n] \in SessionType
  BY LenProperties, ElementOfSeq DEF SessionIInv, Made
<1>1. s \in SessionType /\ s.id = sessionsMade[n].id /\ s.status = status
  BY <1>0 DEF SessionType
<1>2. /\ sessionsMade' = [sessionsMade EXCEPT ![n] = s]
      /\ UNCHANGED <<sessionMap, sessionCounter, work>>
  BY DEF SetStatus
<1> HIDE DEF s
<1> QED
  BY <1>1, <1>2, OneSessionInv

LEMMA ContractsInv ==
  ASSUME SessionIInv, NEW n \in Made, Open(n), NEW contracts \in ContractMaps,
         sessionsMade' = [sessionsMade EXCEPT ![n].contracts = contracts],
         UNCHANGED <<sessionMap, sessionCounter, work>>
  PROVE  SessionIInv'
<1> DEFINE s == [sessionsMade[n] EXCEPT !.contracts = contracts]
<1>0. Made = 1..Len(sessionsMade) /\ sessionsMade[n] \in SessionType
  BY LenProperties, ElementOfSeq DEF SessionIInv, Made
<1>1. s \in SessionType /\ s.id = sessionsMade[n].id /\ s.status = sessionsMade[n].status
  BY <1>0 DEF SessionType
<1>2. sessionsMade' = [sessionsMade EXCEPT ![n] = s]
  OBVIOUS
<1> HIDE DEF s
<1> QED
  BY <1>1, <1>2, OneSessionInv DEF Open

LEMMA SessionOwnInv ==
  ASSUME SessionIInv, NEW n \in Made, SessionOwn(n)
  PROVE  SessionIInv'
<1>a. Made = 1..Len(sessionsMade) /\ sessionsMade[n] \in SessionType
  BY LenProperties, ElementOfSeq DEF SessionIInv, Made
<1>0. PICK S \in SUBSET ContractNames : sessionsMade[n].contracts \in [S -> ContractAddresses]
  BY <1>a DEF SessionType, ContractMaps
<1>1. ASSUME NEW name \in ContractNames, UnregisterContract(n, name)
      PROVE  SessionIInv'
  <2> DEFINE old == sessionsMade[n].contracts
             new == [x \in DOMAIN old \ {name} |-> old[x]]
  <2>1. new \in ContractMaps
    <3>1. new \in [S \ {name} -> ContractAddresses]
      BY <1>0
    <3> QED
      BY <3>1 DEF ContractMaps
  <2>2. /\ sessionsMade' = [sessionsMade EXCEPT ![n].contracts = new]
        /\ Open(n) /\ UNCHANGED <<sessionMap, sessionCounter, work>>
    BY <1>1 DEF UnregisterContract
  <2> HIDE DEF new
  <2> QED
    BY <2>1, <2>2, ContractsInv
<1>2. ASSUME NEW name \in ContractNames, NEW a \in ContractAddresses, RegisterContract(n, name, a)
      PROVE  SessionIInv'
  <2> DEFINE old == sessionsMade[n].contracts
             new == [x \in DOMAIN old \cup {name} |-> IF x = name THEN a ELSE old[x]]
  <2>1. new \in ContractMaps
    <3>1. new \in [S \cup {name} -> ContractAddresses]
      BY <1>0
    <3> QED
      BY <3>1 DEF ContractMaps
  <2>2. /\ sessionsMade' = [sessionsMade EXCEPT ![n].contracts = new]
        /\ Open(n) /\ UNCHANGED <<sessionMap, sessionCounter, work>>
    BY <1>2 DEF RegisterContract
  <2> HIDE DEF new
  <2> QED
    BY <2>1, <2>2, ContractsInv
<1>3. CASE Suspend(n) \/ Resume(n)
  <2>1. Open(n) /\ \E status \in {"active", "suspended"} : SetStatus(n, status)
    BY <1>3 DEF Suspend, Resume, Open
  <2> QED
    BY <2>1, SetStatusInv
<1>4. CASE CloseItself(n)
  <2>1. /\ {n} \in SUBSET Made /\ sessionsMade' = Closed({n})
        /\ sessionMap' \subseteq sessionMap /\ sessionMap \ sessionMap' \subseteq {n}
        /\ UNCHANGED <<sessionCounter, work>>
    BY <1>4 DEF CloseItself
  <2> QED
    BY <2>1, ClosedInv
<1>5. CASE RunStarts(n) \/ RunEnds(n)
  <2>0. work \in Seq(Nat) /\ n \in 1..Len(work) /\ work[n] \in Nat
    BY <1>a, ElementOfSeq DEF SessionIInv
  <2>1. \E k \in Nat : work' = [work EXCEPT ![n] = k]
    BY <1>5, <2>0 DEF RunStarts, RunEnds
  <2>2. work' \in Seq(Nat) /\ Len(work') = Len(work)
    BY <2>0, <2>1, ExceptSeq
  <2>3. UNCHANGED <<sessionsMade, sessionMap, sessionCounter>>
    BY <1>5 DEF RunStarts, RunEnds
  <2> QED
    BY <2>2, <2>3 DEF SessionIInv, Made, Open
<1> QED
  BY <1>1, <1>2, <1>3, <1>4, <1>5 DEF SessionOwn

LEMMA SessionInvStep == SessionIInv /\ [SessionNext]_sessionVars => SessionIInv'
<1> SUFFICES ASSUME SessionIInv, [SessionNext]_sessionVars PROVE SessionIInv'
  OBVIOUS
<1>1. ASSUME NEW id \in SessionIds \cup {Generated}, CreateSession(id)
      PROVE  SessionIInv'
  BY <1>1, CreateInv
<1>2. ASSUME NEW n \in Made, SessionOwn(n)
      PROVE  SessionIInv'
  BY <1>2, SessionOwnInv
<1>3. ASSUME NEW id \in SessionIds, CloseSession(id)
      PROVE  SessionIInv'
  <2>1. /\ InMap(id) \in SUBSET Made /\ sessionsMade' = Closed(InMap(id))
        /\ sessionMap' = sessionMap \ InMap(id) /\ UNCHANGED <<sessionCounter, work>>
    BY <1>3 DEF CloseSession, InMap, SessionIInv
  <2> QED
    BY <2>1, ClosedInv
<1>4. CASE CloseAll
  <2>1. /\ sessionMap \in SUBSET Made /\ sessionsMade' = Closed(sessionMap)
        /\ sessionMap' = {} /\ UNCHANGED <<sessionCounter, work>>
    BY <1>4 DEF CloseAll, SessionIInv
  <2> QED
    BY <2>1, ClosedInv
<1>5. CASE UNCHANGED sessionVars
  BY <1>5 DEF sessionVars, SessionIInv, Made, Open
<1> QED
  BY <1>1, <1>2, <1>3, <1>4, <1>5 DEF SessionNext, SessionOwn

\* The manager of src/session knows every open session it has made, under an id
\* of its own, and never more than maxSessions of them, though sessions close
\* themselves behind its back; and findByContract() finds open ones only.
THEOREM SessionsCorrect == SessionSpec => []SessionLimitKept
<1>1. SessionIInv => SessionLimitKept
  <2> SUFFICES ASSUME SessionIInv PROVE SessionLimitKept
    OBVIOUS
  <2>1. ASSUME NEW a \in ContractAddresses, NEW n \in FindByContract(a)
        PROVE  Open(n)
    BY <2>1, NoContracts DEF FindByContract, SessionIInv
  <2>2. {n \in Made : Open(n)} \subseteq sessionMap
    BY DEF SessionIInv
  <2> QED
    BY <2>1, <2>2 DEF SessionLimitKept, SessionIInv
<1> QED
  BY <1>1, SessionInvInit, SessionInvStep, PTL DEF SessionSpec

LEMMA SessionInvTypes ==
  ASSUME IsFiniteSet(SessionIds)
  PROVE  SessionIInv => SessionTypeOK
<1> SUFFICES ASSUME SessionIInv PROVE SessionTypeOK
  OBVIOUS
<1>1. Made = 1..Len(sessionsMade) /\ DOMAIN work = Made
  BY LenProperties DEF SessionIInv, Made
<1>2. \A n \in Made : sessionsMade[n] \in SessionType
  BY <1>1, ElementOfSeq DEF SessionIInv
<1>3. sessionCounter \in 0..MaxMade + Cardinality(SessionIds)
  <2>1. /\ sessionCounter \in Nat /\ Cardinality(SessionIds) \in Nat
        /\ 1..sessionCounter \in SUBSET SessionIds
    BY FS_CardinalityType DEF SessionIInv
  <2>2. Cardinality(1..sessionCounter) <= Cardinality(SessionIds)
    BY <2>1, FS_Subset
  <2>3. Cardinality(1..sessionCounter) = sessionCounter
    BY <2>1, FS_Interval
  <2> QED
    BY <2>1, <2>2, <2>3, SessionAssumption
<1> QED
  BY <1>1, <1>2, <1>3 DEF SessionIInv, SessionTypeOK, SessionType

\* The fields of the manager of src/session keep their types; generateId()
\* counts no further than there are ids to ask for.
THEOREM SessionsTyped ==
  ASSUME IsFiniteSet(SessionIds)
  PROVE  SessionSpec => []SessionTypeOK
<1>1. SessionIInv => SessionTypeOK
  BY SessionInvTypes
<1> QED
  BY <1>1, SessionInvInit, SessionInvStep, PTL DEF SessionSpec

-----------------------------------------------------------------------------
(* RpcHealthMonitor *)

\* Counters modulo m.
LEMMA ModSmall ==
  ASSUME NEW m \in Nat \ {0}, NEW a \in 0..(m - 1)
  PROVE  a % m = a
OBVIOUS

LEMMA ModOnce ==
  ASSUME NEW m \in Nat \ {0}, NEW a \in m..(2 * m - 1)
  PROVE  a % m = a - m
OBVIOUS

LEMMA ModBelow ==
  ASSUME NEW m \in Nat \ {0}
  PROVE  (-1) % m = m - 1
OBVIOUS

LEMMA IncValue ==
  ASSUME NEW n \in 0..(Modulus - 1)
  PROVE  /\ Inc(n) = IF n = Modulus - 1 THEN 0 ELSE n + 1
         /\ Inc(n) \in 0..(Modulus - 1)
         /\ (n - 1) % Modulus = IF n = 0 THEN Modulus - 1 ELSE n - 1
<1>1. Modulus \in Nat \ {0} /\ Modulus > 1
  BY HealthAssumption
<1>2. CASE n = Modulus - 1
  <2>1. Inc(n) = Modulus % Modulus
    BY <1>1, <1>2 DEF Inc
  <2>2. Modulus % Modulus = 0
    BY <1>1, ModOnce
  <2>3. (n - 1) % Modulus = n - 1
    BY <1>1, <1>2, ModSmall
  <2> QED
    BY <1>1, <1>2, <2>1, <2>2, <2>3
<1>3. CASE n # Modulus - 1
  <2>1. (n + 1) % Modulus = n + 1
    BY <1>1, <1>3, ModSmall
  <2>2. CASE n = 0
    <3>1. n - 1 = -1
      BY <2>2
    <3>2. (n - 1) % Modulus = Modulus - 1
      BY <1>1, <3>1, ModBelow
    <3>3. Inc(n) = n + 1
      BY <2>1 DEF Inc
    <3> QED
      BY <1>1, <1>3, <2>2, <3>2, <3>3
  <2>3. CASE n # 0
    <3>1. (n - 1) % Modulus = n - 1
      BY <1>1, <2>3, ModSmall
    <3> QED
      BY <1>1, <1>3, <2>1, <2>3, <3>1 DEF Inc
  <2> QED
    BY <2>2, <2>3
<1> QED
  BY <1>2, <1>3

\* The number of checks stays the sum of those that succeeded and failed.
LEMMA SumCounts ==
  ASSUME NEW a \in 0..(Modulus - 1), NEW b \in 0..(Modulus - 1)
  PROVE  /\ Inc((a + b) % Modulus) = (Inc(a) + b) % Modulus
         /\ Inc((a + b) % Modulus) = (a + Inc(b)) % Modulus
<1> DEFINE M == Modulus
<1>1. M \in Nat \ {0} /\ M > 1
  BY HealthAssumption
<1>2. ASSUME NEW x \in 0..(M - 1), NEW y \in 0..(M - 1)
      PROVE  Inc((x + y) % M) = (Inc(x) + y) % M
  <2>1. Inc(x) = IF x = M - 1 THEN 0 ELSE x + 1
    BY IncValue
  <2>2. \A z \in 0..(M - 1) : z % M = z /\ Inc(z) = IF z = M - 1 THEN 0 ELSE z + 1
    BY <1>1, ModSmall, IncValue
  <2>3. \A z \in M..(2 * M - 1) : z % M = z - M
    BY <1>1, ModOnce
  <2> HIDE DEF M
  <2>4. CASE x + y < M
    <3>1. (x + y) % M = x + y
      BY <1>1, <2>2, <2>4
    <3>2. CASE x = M - 1
      <4>1. y = 0
        BY <1>1, <2>4, <3>2
      <4>2. Inc(x + y) = 0 /\ Inc(x) + y = 0 /\ 0 % M = 0
        BY <1>1, <2>1, <2>2, <3>2, <4>1
      <4> QED
        BY <3>1, <4>2
    <3>3. CASE x # M - 1 /\ x + y = M - 1
      <4>1. Inc(x + y) = 0 /\ Inc(x) + y = M /\ M % M = 0
        BY <1>1, <2>1, <2>2, <2>3, <3>3
      <4> QED
        BY <3>1, <4>1
    <3>4. CASE x # M - 1 /\ x + y # M - 1
      <4>1. Inc(x + y) = x + y + 1 /\ Inc(x) + y = x + y + 1 /\ x + y + 1 \in 0..(M - 1)
        BY <1>1, <2>1, <2>2, <2>4, <3>4
      <4> QED
        BY <2>2, <3>1, <4>1
    <3> QED
      BY <3>2, <3>3, <3>4
  <2>5. CASE x + y >= M
    <3>1. (x + y) % M = x + y - M /\ x + y - M \in 0..(M - 2)
      BY <1>1, <2>3, <2>5
    <3>2. Inc((x + y) % M) = x + y - M + 1
      BY <1>1, <2>2, <3>1
    <3>3. CASE x = M - 1
      <4>1. Inc(x) + y = y /\ y = x + y - M + 1
        BY <1>1, <2>1, <3>3
      <4> QED
        BY <2>2, <3>2, <4>1
    <3>4. CASE x # M - 1
      <4> DEFINE z == Inc(x) + y
      <4>1. z = x + y + 1 /\ z \in M..(2 * M - 1)
        BY <1>1, <2>1, <2>5, <3>4
      <4> HIDE DEF z
      <4>2. z % M = z - M
        BY <2>3, <4>1
      <4>3. Inc((x + y) % M) = z % M
        BY <1>1, <3>2, <4>1, <4>2
      <4> QED
        BY <4>3 DEF z
    <3> QED
      BY <3>3, <3>4
  <2> QED
    BY <1>1, <2>4, <2>5
<1>3. a + b = b + a /\ a + Inc(b) = Inc(b) + a
  BY <1>1, IncValue
<1> QED
  BY <1>2, <1>3

Counts == 0..(Modulus - 1)
Outcomes == {"well", "ill", "failed"}
StatusType == [state : {"unknown", "healthy", "degraded", "unhealthy"}, available : BOOLEAN,
               total : Counts, successful : Counts, failed : Counts,
               consecutive : 0..unhealthyAfterFailures]

\* Status s follows from the outcomes r, of which the latest is the first: the
\* consecutive failures are the failures r starts with.
StatusTells(s, r) ==
  /\ Len(r) <= unhealthyAfterFailures /\ s.consecutive <= Len(r)
  /\ \A i \in 1..s.consecutive : r[i] = "failed"
  /\ s.consecutive < Len(r) => r[s.consecutive + 1] # "failed"
  /\ s.total = (s.successful + s.failed) % Modulus
  /\ s.state = "unknown" <=> r = <<>>
  /\ s.state = "unhealthy" <=> \/ s.consecutive = unhealthyAfterFailures
                               \/ r # <<>> /\ r[1] = "ill"
  /\ s.available <=> r # <<>> /\ r[1] = "well"

HealthIInv ==
  /\ monitoring \in BOOLEAN /\ checkInProgress \in BOOLEAN /\ checking \subseteq Endpoints
  /\ checking # {} => checkInProgress
  /\ rounds \in Counts /\ late \in [Endpoints -> 0..MaxLate]
  /\ health \in [Endpoints -> StatusType] /\ recent \in [Endpoints -> Seq(Outcomes)]
  /\ \A e \in Endpoints :
       /\ StatusTells(health[e], recent[e])
       /\ health[e].total = (rounds - (IF e \in checking THEN 1 ELSE 0)) % Modulus

LEMMA HealthInvInit == HealthInit => HealthIInv
<1> SUFFICES ASSUME HealthInit PROVE HealthIInv
  OBVIOUS
<1>1. 0 % Modulus = 0 /\ 0 \in Counts /\ Modulus \in Nat \ {0}
  BY HealthAssumption, ModSmall DEF Counts
<1>2. /\ Unchecked \in StatusType /\ Unchecked.state = "unknown" /\ ~Unchecked.available
      /\ Unchecked.total = 0 /\ Unchecked.successful = 0 /\ Unchecked.failed = 0
      /\ Unchecked.consecutive = 0
  BY <1>1, HealthAssumption DEF Unchecked, StatusType
<1>3. <<>> \in Seq(Outcomes) /\ Len(<<>>) = 0
  BY EmptySeq
<1>4. StatusTells(Unchecked, <<>>)
  BY <1>1, <1>2, <1>3, HealthAssumption DEF StatusTells
<1>5. health \in [Endpoints -> StatusType] /\ recent \in [Endpoints -> Seq(Outcomes)]
  BY <1>2, <1>3 DEF HealthInit
<1>6. \A e \in Endpoints : StatusTells(health[e], recent[e])
  BY <1>4 DEF HealthInit
<1>7. \A e \in Endpoints :
        health[e].total = (rounds - (IF e \in checking THEN 1 ELSE 0)) % Modulus
  <2>1. 0 - 0 = 0
    OBVIOUS
  <2> QED
    BY <1>1, <1>2, <2>1 DEF HealthInit
<1>8. late \in [Endpoints -> 0..MaxLate]
  BY HealthAssumption DEF HealthInit
<1> QED
  BY <1>1, <1>5, <1>6, <1>7, <1>8 DEF HealthInit, HealthIInv

\* The outcomes after one more.
Latest(r, o) == SubSeq(<<o>> \o r, 1, Least(Len(r) + 1, unhealthyAfterFailures))

LEMMA LatestOutcomes ==
  ASSUME NEW r \in Seq(Outcomes), NEW o \in Outcomes, Len(r) <= unhealthyAfterFailures
  PROVE  /\ Latest(r, o) \in Seq(Outcomes)
         /\ Len(Latest(r, o)) = Least(Len(r) + 1, unhealthyAfterFailures)
         /\ Len(Latest(r, o)) > 0 /\ Latest(r, o) # <<>> /\ Latest(r, o)[1] = o
         /\ \A i \in 2..Len(Latest(r, o)) : Latest(r, o)[i] = r[i - 1]
<1> DEFINE n == Least(Len(r) + 1, unhealthyAfterFailures)
           c == <<o>> \o r
<1>1. /\ Len(r) \in Nat /\ n \in Nat /\ n > 0 /\ n <= Len(r) + 1
  BY LenProperties, HealthAssumption DEF Least
<1>2. <<o>> \in Seq(Outcomes) /\ Len(<<o>>) = 1 /\ <<o>>[1] = o
  OBVIOUS
<1>3. /\ c \in Seq(Outcomes) /\ Len(c) = Len(r) + 1
      /\ \A i \in 1..(Len(r) + 1) : c[i] = IF i <= 1 THEN o ELSE r[i - 1]
  BY <1>1, <1>2, ConcatProperties
<1> HIDE DEF n, c
<1>4. \A i \in 1..n : c[i] \in Outcomes
  BY <1>1, <1>3, ElementOfSeq
<1>5. /\ SubSeq(c, 1, n) \in Seq(Outcomes) /\ Len(SubSeq(c, 1, n)) = n
      /\ \A i \in 1..n : SubSeq(c, 1, n)[i] = c[i]
  BY <1>1, <1>4, SubSeqProperties
<1>6. Latest(r, o) = SubSeq(c, 1, n)
  BY DEF Latest, n, c
<1>7. \A q : Len(q) = n => q # <<>>
  <2>1. Len(<<>>) = 0
    BY EmptySeq
  <2> QED
    BY <1>1, <2>1
<1> QED
  BY <1>1, <1>3, <1>5, <1>6, <1>7 DEF n

\* A status after one more check.
WellStatus(s, x, available, c) ==
  [s EXCEPT !.state = x, !.available = available, !.total = Inc(@),
            !.successful = Inc(@), !.consecutive = c]
BadStatus(s, x, available, c) ==
  [s EXCEPT !.state = x, !.available = available, !.total = Inc(@),
            !.failed = Inc(@), !.consecutive = c]

LEMMA StatusUpdated ==
  ASSUME NEW s \in StatusType, NEW x \in {"unknown", "healthy", "degraded", "unhealthy"},
         NEW available \in BOOLEAN, NEW c \in 0..unhealthyAfterFailures, NEW t,
         t = WellStatus(s, x, available, c) \/ t = BadStatus(s, x, available, c)
  PROVE  /\ t \in StatusType /\ t.state = x /\ t.available = available
         /\ t.total = Inc(s.total) /\ t.consecutive = c
         /\ t = WellStatus(s, x, available, c) =>
              t.successful = Inc(s.successful) /\ t.failed = s.failed
         /\ t = BadStatus(s, x, available, c) =>
              t.successful = s.successful /\ t.failed = Inc(s.failed)
<1>1. /\ s.total \in Counts /\ s.successful \in Counts /\ s.failed \in Counts
  BY DEF StatusType
<1>2. Inc(s.total) \in Counts /\ Inc(s.successful) \in Counts /\ Inc(s.failed) \in Counts
  BY <1>1, IncValue DEF Counts
<1>3. CASE t = WellStatus(s, x, available, c)
  BY <1>2, <1>3 DEF StatusType, WellStatus, BadStatus
<1>4. CASE t = BadStatus(s, x, available, c)
  BY <1>2, <1>4 DEF StatusType, WellStatus, BadStatus
<1> QED
  BY <1>3, <1>4

\* recordSuccess() and recordFailure() keep the status true.
LEMMA SuccessTells ==
  ASSUME NEW s \in StatusType, NEW r \in Seq(Outcomes), StatusTells(s, r),
         NEW latency, NEW wellSaid \in BOOLEAN
  PROVE  LET t == RecordSuccess(s, latency, wellSaid)
             o == IF wellSaid THEN "well" ELSE "ill"
         IN  t \in StatusType /\ t.total = Inc(s.total) /\ StatusTells(t, Latest(r, o))
<1> DEFINE t == RecordSuccess(s, latency, wellSaid)
           o == IF wellSaid THEN "well" ELSE "ill"
           q == Latest(r, o)
           state == IF ~wellSaid THEN "unhealthy"
                    ELSE IF latency > degradedLatency THEN "degraded" ELSE "healthy"
<1>1. /\ s.total \in Counts /\ s.successful \in Counts /\ s.failed \in Counts
      /\ s.total = (s.successful + s.failed) % Modulus
  BY DEF StatusType, StatusTells
<1>2. /\ t = WellStatus(s, state, wellSaid, 0)
      /\ state \in {"unknown", "healthy", "degraded", "unhealthy"}
      /\ 0 \in 0..unhealthyAfterFailures
  BY HealthAssumption DEF RecordSuccess, WellStatus
<1> HIDE DEF t, state
<1>3. /\ t \in StatusType /\ t.state = state /\ t.available = wellSaid
      /\ t.total = Inc(s.total) /\ t.successful = Inc(s.successful) /\ t.failed = s.failed
      /\ t.consecutive = 0
  BY <1>2, StatusUpdated
<1>4. t.total = (t.successful + t.failed) % Modulus
  BY <1>1, <1>3, SumCounts DEF Counts
<1>5. o \in Outcomes /\ Len(r) <= unhealthyAfterFailures /\ Len(r) \in Nat
  BY LenProperties DEF Outcomes, StatusTells
<1>6. /\ Len(q) <= unhealthyAfterFailures /\ Len(q) \in Nat /\ Len(q) > 0
      /\ q # <<>> /\ q[1] = o
  BY <1>5, LatestOutcomes, HealthAssumption DEF Least
<1> HIDE DEF q
<1>7. StatusTells(t, q)
  BY <1>3, <1>4, <1>6, HealthAssumption DEF StatusTells, state
<1> QED
  BY <1>3, <1>7 DEF t, q

LEMMA FailureTells ==
  ASSUME NEW s \in StatusType, NEW r \in Seq(Outcomes), StatusTells(s, r)
  PROVE  LET t == RecordFailure(s)
         IN  t \in StatusType /\ t.total = Inc(s.total) /\ StatusTells(t, Latest(r, "failed"))
<1> DEFINE t == RecordFailure(s)
           q == Latest(r, "failed")
           U == unhealthyAfterFailures
           c == Least(s.consecutive + 1, U)
<1>1. /\ s.total \in Counts /\ s.successful \in Counts /\ s.failed \in Counts
      /\ s.total = (s.successful + s.failed) % Modulus /\ s.consecutive \in 0..U
  BY DEF StatusType, StatusTells
<1>2. c \in 1..U /\ c \in 0..U
  BY <1>1, HealthAssumption DEF Least
<1> HIDE DEF c
<1>a. t =
        [s EXCEPT !.state = IF c = U THEN "unhealthy" ELSE "degraded", !.available = FALSE,
                  !.total = Inc(@), !.failed = Inc(@), !.consecutive = c]
  BY DEF RecordFailure, c
<1>3. /\ t \in StatusType /\ t.state = (IF c = U THEN "unhealthy" ELSE "degraded")
      /\ ~t.available
      /\ t.total = Inc(s.total) /\ t.failed = Inc(s.failed) /\ t.successful = s.successful
      /\ t.consecutive = c
  <2> DEFINE x == IF c = U THEN "unhealthy" ELSE "degraded"
  <2>1. x \in {"unknown", "healthy", "degraded", "unhealthy"}
    OBVIOUS
  <2> HIDE DEF x, t
  <2> DEFINE no == FALSE
  <2>2. t = BadStatus(s, x, no, c) /\ no \in BOOLEAN
    BY <1>a DEF x, BadStatus
  <2> HIDE DEF no
  <2>3. /\ t \in StatusType /\ t.state = x /\ t.available = no
        /\ t.total = Inc(s.total) /\ t.failed = Inc(s.failed) /\ t.successful = s.successful
        /\ t.consecutive = c
    BY <1>2, <2>1, <2>2, StatusUpdated
  <2> QED
    BY <2>3 DEF x, no
<1>4. t.total = (t.successful + t.failed) % Modulus
  BY <1>1, <1>3, SumCounts DEF Counts
<1>5. Len(r) <= U /\ Len(r) \in Nat /\ s.consecutive <= Len(r)
  BY LenProperties DEF StatusTells
<1>6. /\ Len(q) = Least(Len(r) + 1, U) /\ q # <<>> /\ q[1] = "failed"
      /\ \A i \in 2..Len(q) : q[i] = r[i - 1]
  BY <1>5, LatestOutcomes DEF Outcomes
<1>7. Len(q) <= U /\ Len(q) \in Nat /\ c <= Len(q)
  BY <1>1, <1>5, <1>6, HealthAssumption DEF Least, c
<1> HIDE DEF t, q
<1>8. ASSUME NEW i \in 1..c
      PROVE  q[i] = "failed"
  <2>1. CASE i = 1
    BY <1>6, <2>1
  <2>2. CASE i # 1
    <3>1. i \in 2..Len(q) /\ i - 1 \in 1..s.consecutive
      BY <1>1, <1>2, <1>7, <2>2, HealthAssumption DEF Least, c
    <3> QED
      BY <1>6, <3>1 DEF StatusTells
  <2> QED
    BY <2>1, <2>2
<1>9. ASSUME c < Len(q)
      PROVE  q[c + 1] # "failed"
  <2>1. c = s.consecutive + 1 /\ s.consecutive < Len(r) /\ c + 1 \in 2..Len(q)
    BY <1>1, <1>2, <1>5, <1>6, <1>7, <1>9, HealthAssumption DEF Least, c
  <2>2. q[c + 1] = r[c]
    BY <1>2, <1>6, <2>1
  <2> QED
    BY <2>1, <2>2 DEF StatusTells
<1>10. StatusTells(t, q)
  BY <1>3, <1>4, <1>6, <1>7, <1>8, <1>9 DEF StatusTells
<1> QED
  BY <1>3, <1>10 DEF t, q

\* A round begins only when every check of the last one has ended.
LEMMA RoundInv ==
  ASSUME HealthIInv, RunHealthChecks, UNCHANGED <<health, late, recent>>, monitoring' \in BOOLEAN
  PROVE  HealthIInv'
<1>1. CASE checkInProgress
  BY <1>1 DEF RunHealthChecks, HealthIInv
<1>2. CASE ~checkInProgress
  <2>1. checking = {} /\ checkInProgress' = TRUE /\ checking' = Endpoints /\ rounds' = Inc(rounds)
    BY <1>2 DEF RunHealthChecks, HealthIInv
  <2>2. /\ rounds \in 0..(Modulus - 1) /\ rounds' \in 0..(Modulus - 1)
        /\ rounds' = (IF rounds = Modulus - 1 THEN 0 ELSE rounds + 1)
    BY <2>1, IncValue DEF HealthIInv, Counts
  <2>3. (rounds' - 1) % Modulus = IF rounds' = 0 THEN Modulus - 1 ELSE rounds' - 1
    BY <2>2, IncValue
  <2>4. (rounds' - 1) % Modulus = rounds
    BY <2>2, <2>3, HealthAssumption
  <2>5. rounds % Modulus = rounds /\ rounds - 0 = rounds
    BY <2>2, ModSmall, HealthAssumption
  <2>6. \A e \in Endpoints : health[e].total = rounds
    BY <2>1, <2>5 DEF HealthIInv
  <2>7. \A e \in Endpoints :
          health'[e].total = (rounds' - (IF e \in checking' THEN 1 ELSE 0)) % Modulus
    BY <2>1, <2>4, <2>6
  <2> QED
    BY <2>1, <2>2, <2>7 DEF HealthIInv, Counts
<1> QED
  BY <1>1, <1>2

\* A check is counted when it ends.
LEMMA CheckInv ==
  ASSUME HealthIInv, NEW e \in checking, NEW status \in StatusType, NEW outcome \in Outcomes,
         StatusTells(status, Latest(recent[e], outcome)),
         status.total = Inc(health[e].total), CheckEnds(e, status, outcome),
         UNCHANGED <<monitoring, rounds>>, late' \in [Endpoints -> 0..MaxLate]
  PROVE  HealthIInv'
<1>0. /\ e \in Endpoints /\ rounds \in 0..(Modulus - 1)
      /\ recent[e] \in Seq(Outcomes) /\ Len(recent[e]) <= unhealthyAfterFailures
  BY DEF HealthIInv, Counts, StatusTells
<1>1. /\ checking' = checking \ {e} /\ checkInProgress' = (checking' # {})
      /\ health' = [health EXCEPT ![e] = status]
      /\ recent' = [recent EXCEPT ![e] = Latest(recent[e], outcome)]
  BY DEF CheckEnds, Latest
<1>2. Latest(recent[e], outcome) \in Seq(Outcomes)
  BY <1>0, LatestOutcomes
<1>3. health' \in [Endpoints -> StatusType] /\ recent' \in [Endpoints -> Seq(Outcomes)]
  BY <1>1, <1>2 DEF HealthIInv
<1>4. health'[e].total = (rounds' - 0) % Modulus
  <2>1. health[e].total = (rounds - 1) % Modulus
    BY DEF HealthIInv
  <2>2. (rounds - 1) % Modulus = IF rounds = 0 THEN Modulus - 1 ELSE rounds - 1
    BY <1>0, IncValue
  <2>3. health[e].total \in 0..(Modulus - 1)
    BY <1>0, <2>1, <2>2, HealthAssumption
  <2>4. Inc(health[e].total) = IF health[e].total = Modulus - 1 THEN 0 ELSE health[e].total + 1
    BY <2>3, IncValue
  <2>5. status.total = rounds
    BY <1>0, <2>1, <2>2, <2>4, HealthAssumption
  <2>6. rounds % Modulus = rounds /\ rounds - 0 = rounds
    <3>1. rounds \in 0..(Modulus - 1) /\ Modulus \in Nat \ {0}
      BY <1>0, HealthAssumption
    <3>2. rounds % Modulus = rounds
      BY ONLY <3>1, ModSmall
    <3> QED
      BY <3>1, <3>2
  <2>7. health'[e] = status
    BY <1>0, <1>1 DEF HealthIInv
  <2> QED
    BY <2>5, <2>6, <2>7
<1>5. ASSUME NEW k \in Endpoints
      PROVE  /\ StatusTells(health'[k], recent'[k])
             /\ health'[k].total = (rounds' - (IF k \in checking' THEN 1 ELSE 0)) % Modulus
  <2>1. CASE k = e
    BY <1>0, <1>1, <1>4, <2>1 DEF HealthIInv
  <2>2. CASE k # e
    BY <1>1, <2>2 DEF HealthIInv
  <2> QED
    BY <2>1, <2>2
<1>6. \A k \in Endpoints : StatusTells(health[k], recent[k])'
  BY <1>5 DEF StatusTells
<1>7. /\ checkInProgress' \in BOOLEAN /\ checking' \subseteq Endpoints
      /\ checking' # {} => checkInProgress'
  BY <1>1 DEF HealthIInv
<1> QED
  BY <1>3, <1>5, <1>6, <1>7 DEF HealthIInv

LEMMA HealthInvStep == HealthIInv /\ [HealthNext]_healthVars => HealthIInv'
<1> SUFFICES ASSUME HealthIInv, [HealthNext]_healthVars PROVE HealthIInv'
  OBVIOUS
<1>1. CASE StartMonitor \/ HealthTick
  <2>1. RunHealthChecks /\ UNCHANGED <<health, late, recent>> /\ monitoring' \in BOOLEAN
    BY <1>1 DEF StartMonitor, HealthTick, HealthIInv
  <2> QED
    BY <2>1, RoundInv
<1>2. CASE StopMonitor
  BY <1>2 DEF StopMonitor, HealthIInv, StatusTells
<1>3. ASSUME NEW e \in Endpoints, NEW l \in Latencies, NEW wellSaid \in BOOLEAN,
             HealthAnswer(e, l, wellSaid)
      PROVE  HealthIInv'
  <2> DEFINE t == RecordSuccess(health[e], l, wellSaid)
             o == IF wellSaid THEN "well" ELSE "ill"
  <2>1. health[e] \in StatusType /\ recent[e] \in Seq(Outcomes) /\ StatusTells(health[e], recent[e])
    BY DEF HealthIInv
  <2>2. t \in StatusType /\ t.total = Inc(health[e].total) /\ StatusTells(t, Latest(recent[e], o))
    BY <2>1, SuccessTells
  <2>3. /\ e \in checking /\ CheckEnds(e, t, o) /\ UNCHANGED <<monitoring, rounds>>
        /\ late' \in [Endpoints -> 0..MaxLate] /\ o \in Outcomes
    BY <1>3 DEF HealthAnswer, HealthIInv, Outcomes
  <2> HIDE DEF t, o
  <2> QED
    BY <2>2, <2>3, CheckInv
<1>4. ASSUME NEW e \in Endpoints, HealthFails(e) \/ HealthTimeout(e)
      PROVE  HealthIInv'
  <2> DEFINE t == RecordFailure(health[e])
  <2>1. health[e] \in StatusType /\ recent[e] \in Seq(Outcomes) /\ StatusTells(health[e], recent[e])
    BY DEF HealthIInv
  <2>2. t \in StatusType /\ t.total = Inc(health[e].total)
        /\ StatusTells(t, Latest(recent[e], "failed"))
    BY <2>1, FailureTells
  <2>3. /\ e \in checking /\ CheckEnds(e, t, "failed") /\ UNCHANGED <<monitoring, rounds>>
        /\ late' = late \/ late' = [late EXCEPT ![e] = Least(@ + 1, MaxLate)]
    BY <1>4 DEF HealthFails, HealthTimeout
  <2>4. late' \in [Endpoints -> 0..MaxLate] /\ "failed" \in Outcomes
    <3>1. Least(late[e] + 1, MaxLate) \in 0..MaxLate /\ late \in [Endpoints -> 0..MaxLate]
      BY HealthAssumption DEF HealthIInv, Least
    <3> QED
      BY <2>3, <3>1 DEF Outcomes
  <2> HIDE DEF t
  <2> QED
    BY <2>2, <2>3, <2>4, CheckInv
<1>5. ASSUME NEW e \in Endpoints, LateAnswer(e)
      PROVE  HealthIInv'
  <2>1. late' \in [Endpoints -> 0..MaxLate]
    BY <1>5, HealthAssumption DEF LateAnswer, HealthIInv
  <2> QED
    BY <1>5, <2>1 DEF LateAnswer, HealthIInv, StatusTells
<1>6. CASE UNCHANGED healthVars
  BY <1>6 DEF healthVars, HealthIInv, StatusTells
<1> QED
  BY <1>1, <1>2, <1>3, <1>4, <1>5, <1>6 DEF HealthNext

LEMMA HealthInvariance == HealthSpec => []HealthIInv
<1> QED
  BY HealthInvInit, HealthInvStep, PTL DEF HealthSpec

LEMMA HealthInvTypes == HealthIInv => HealthTypeOK
<1> SUFFICES ASSUME HealthIInv PROVE HealthTypeOK
  OBVIOUS
<1>1. \A e \in Endpoints : health[e] \in StatusType
  BY DEF HealthIInv
<1> QED
  BY <1>1 DEF HealthIInv, HealthTypeOK, StatusType, Counts

\* The counters and states of RpcHealthMonitor keep their types, and a round
\* is never in progress twice.
THEOREM HealthTyped == HealthSpec => []HealthTypeOK
<1>1. HealthIInv => HealthTypeOK
  BY HealthInvTypes
<1> QED
  BY <1>1, HealthInvariance, PTL

\* Whatever overlaps, runHealthChecks() counts each round once for each
\* endpoint, and recordSuccess() and recordFailure() leave the state that the
\* latest checks call for: unhealthy exactly after unhealthyAfterFailures
\* failures in a row, or when the endpoint last said so.
THEOREM HealthIsTrue == HealthSpec => []HealthTellsTruth
<1>1. HealthIInv => HealthTellsTruth
  <2> SUFFICES ASSUME HealthIInv, NEW e \in Endpoints
               PROVE  LET s == health[e]
                          failing == /\ Len(recent[e]) = unhealthyAfterFailures
                                     /\ \A i \in DOMAIN recent[e] : recent[e][i] = "failed"
                      IN  /\ s.total = (rounds - (IF e \in checking THEN 1 ELSE 0)) % Modulus
                          /\ s.total = (s.successful + s.failed) % Modulus
                          /\ s.state = "unknown" <=> recent[e] = <<>>
                          /\ s.state = "unhealthy" <=>
                               failing \/ (recent[e] # <<>> /\ recent[e][1] = "ill")
                          /\ s.available <=> recent[e] # <<>> /\ recent[e][1] = "well"
    BY DEF HealthTellsTruth
  <2> DEFINE s == health[e]
             r == recent[e]
             failing == /\ Len(r) = unhealthyAfterFailures
                        /\ \A i \in DOMAIN r : r[i] = "failed"
  <2>1. /\ StatusTells(s, r) /\ r \in Seq(Outcomes)
        /\ s.consecutive \in 0..unhealthyAfterFailures
        /\ s.total = (rounds - (IF e \in checking THEN 1 ELSE 0)) % Modulus
    BY DEF HealthIInv, StatusType
  <2> HIDE DEF s, r
  <2>2. Len(r) \in Nat /\ DOMAIN r = 1..Len(r)
    BY <2>1, LenProperties
  <2>3. failing <=> s.consecutive = unhealthyAfterFailures
    <3>1. ASSUME s.consecutive = unhealthyAfterFailures
          PROVE  failing
      <4>1. /\ Len(r) <= unhealthyAfterFailures /\ s.consecutive <= Len(r)
            /\ \A i \in 1..s.consecutive : r[i] = "failed"
        BY <2>1 DEF StatusTells
      <4>2. Len(r) = unhealthyAfterFailures
        <5>1. /\ Len(r) \in Nat /\ unhealthyAfterFailures \in Nat
              /\ Len(r) <= unhealthyAfterFailures /\ unhealthyAfterFailures <= Len(r)
          BY <2>2, <3>1, <4>1, HealthAssumption
        <5> QED
          BY <5>1
      <4> QED
        BY <2>2, <3>1, <4>1, <4>2
    <3>2. ASSUME failing, s.consecutive # unhealthyAfterFailures
          PROVE  FALSE
      <4>1. s.consecutive + 1 \in 1..Len(r) /\ s.consecutive < Len(r)
        BY <2>1, <2>2, <3>2, HealthAssumption
      <4> QED
        BY <2>1, <2>2, <3>2, <4>1 DEF StatusTells
    <3> QED
      BY <3>1, <3>2
  <2>4. /\ s.total = (s.successful + s.failed) % Modulus
        /\ s.state = "unknown" <=> r = <<>>
        /\ s.state = "unhealthy" <=> failing \/ (r # <<>> /\ r[1] = "ill")
        /\ s.available <=> r # <<>> /\ r[1] = "well"
    BY <2>1, <2>3 DEF StatusTells
  <2> QED
    BY <2>1, <2>4 DEF s, r
<1> QED
  BY <1>1, HealthInvariance, PTL

-----------------------------------------------------------------------------
(* ClientFees *)

\* Division of a + m - 1 by m rounds a / m up.
LEMMA RoundedUp ==
  ASSUME NEW m \in Nat \ {0}, NEW a \in Nat
  PROVE  /\ (a + m - 1) \div m \in Nat
         /\ ((a + m - 1) \div m) * m >= a
         /\ (((a + m - 1) \div m) - 1) * m < a
<1> DEFINE n == a + m - 1
<1>0. n \in Nat
  OBVIOUS
<1> HIDE DEF n
<1> DEFINE x == n \div m
           r == n % m
<1>1. x \in Nat /\ n = m * x + r /\ r \in 0..(m - 1)
  BY <1>0
<1> HIDE DEF x, r
<1>2. m * x = x * m /\ (x - 1) * m = m * x - m
  BY <1>1
<1>3. x \in Nat /\ x * m >= a /\ (x - 1) * m < a
  BY <1>1, <1>2 DEF n
<1> QED
  BY <1>3 DEF n, x

\* multiplyAndCeil() returns the least integer that covers the buffer, which is
\* not below the value.
LEMMA CeilCorrect ==
  ASSUME NEW m \in Multipliers, NEW value \in Nat
  PROVE  /\ MultiplyAndCeil(value, m) \in Nat
         /\ LeastAbove(MultiplyAndCeil(value, m), value, m)
         /\ MultiplyAndCeil(value, m) >= value
<1> DEFINE p == 10 ^ m.places
           d == m.digits
           x == MultiplyAndCeil(value, m)
<1>1. p \in Nat \ {0} /\ d \in Nat /\ d >= p
  BY FeeAssumption
<1>2. x = (value * d + p - 1) \div p
  BY DEF MultiplyAndCeil
<1>3. LeastAbove(x, value, m) <=> x * p >= value * d /\ (x - 1) * p < value * d
  BY DEF LeastAbove
<1> HIDE DEF p, d, x
<1>4. value * d \in Nat
  BY <1>1
<1>5. x \in Nat /\ x * p >= value * d /\ (x - 1) * p < value * d
  BY <1>1, <1>2, <1>4, RoundedUp
<1>6. value * d >= value * p
  BY <1>1
<1>7. x * p >= value * p
  BY <1>1, <1>4, <1>5, <1>6
<1>8. x >= value
  BY <1>1, <1>5, <1>7
<1> QED
  BY <1>3, <1>5, <1>8 DEF x

\* The sum of two parts that are rounded up is at most one above the whole.
LEMMA SumOfCeils ==
  ASSUME NEW m \in Multipliers, NEW a \in Nat, NEW b \in Nat, NEW x \in Nat, NEW y \in Nat,
         LeastAbove(x, a, m), LeastAbove(y, b, m)
  PROVE  LeastAbove(x + y, a + b, m) \/ LeastAbove(x + y - 1, a + b, m)
<1> DEFINE p == 10 ^ m.places
           d == m.digits
<1>1. p \in Nat \ {0} /\ d \in Nat
  BY FeeAssumption
<1>2. \A z \in Int, v \in Nat : LeastAbove(z, v, m) <=> z * p >= v * d /\ (z - 1) * p < v * d
  BY DEF LeastAbove
<1> HIDE DEF p, d
<1>3. x * p >= a * d /\ (x - 1) * p < a * d /\ y * p >= b * d /\ (y - 1) * p < b * d
  BY <1>2
<1>4. /\ (x - 1) * p = x * p - p /\ (y - 1) * p = y * p - p
      /\ (x + y) * p = x * p + y * p /\ (x + y - 1) * p = x * p + y * p - p
      /\ (x + y - 1 - 1) * p = x * p + y * p - p - p
      /\ (a + b) * d = a * d + b * d
  BY <1>1
<1>5. x * p \in Nat /\ y * p \in Nat /\ a * d \in Nat /\ b * d \in Nat
  BY <1>1
<1>6. \/ (x + y) * p >= (a + b) * d /\ (x + y - 1) * p < (a + b) * d
      \/ (x + y - 1) * p >= (a + b) * d /\ (x + y - 1 - 1) * p < (a + b) * d
  BY <1>1, <1>3, <1>4, <1>5
<1>7. x + y \in Int /\ x + y - 1 \in Int /\ a + b \in Nat
  OBVIOUS
<1> QED
  BY <1>2, <1>6, <1>7

LEMMA FeeTypeStep == FeeTypeOK /\ [FeeNext]_feeCall => FeeTypeOK'
<1> SUFFICES ASSUME FeeTypeOK, [FeeNext]_feeCall PROVE FeeTypeOK'
  OBVIOUS
<1>1. ASSUME NEW total, NEW resource, NEW used, NEW m, NEW limit,
             PrepareTransaction(total, resource, used, m, limit)
      PROVE  FeeTypeOK'
  <2>1. feeCall'.call = "prepare" /\ feeCall'.thrown = BufferFee(total, resource, m, limit).thrown
    BY <1>1 DEF PrepareTransaction
  <2>2. BufferFee(total, resource, m, limit).thrown \in BOOLEAN
    BY DEF BufferFee
  <2>3. QED
    BY <2>1, <2>2 DEF FeeTypeOK
<1>2. ASSUME NEW fee, NEW minFee, NEW maxFee, NEW simulated,
             ValidateFee(fee, minFee, maxFee, simulated)
      PROVE  FeeTypeOK'
  <2>1. feeCall'.call = "validate" /\ feeCall'.thrown = (fee < minFee \/ fee > maxFee)
    BY <1>2 DEF ValidateFee
  <2>2. QED
    BY <2>1 DEF FeeTypeOK
<1>3. ASSUME NEW fee, NEW count, SimulateBatch(fee, count) PROVE FeeTypeOK'
  BY <1>3 DEF SimulateBatch, FeeTypeOK
<1>4. CASE UNCHANGED feeCall
  BY <1>4 DEF FeeTypeOK
<1>5. QED
  BY <1>1, <1>2, <1>3, <1>4 DEF FeeNext

LEMMA FeeInvStep == FeesAreCovered /\ [FeeNext]_feeCall => FeesAreCovered'
<1> SUFFICES ASSUME FeesAreCovered, [FeeNext]_feeCall PROVE FeesAreCovered'
  OBVIOUS
<1>1. ASSUME NEW total \in Amounts, NEW resource \in Amounts, NEW used \in Amounts,
             NEW m \in Multipliers, NEW limit \in FeeLimits,
             PrepareTransaction(total, resource, used, m, limit)
      PROVE  FeesAreCovered'
  <2> DEFINE base == IF total > resource THEN total - resource ELSE 0
             x == MultiplyAndCeil(base, m)
             y == MultiplyAndCeil(resource, m)
             z == MultiplyAndCeil(used, m)
             refused == BufferFee(total, resource, m, limit).thrown
  <2>1. total \in Nat /\ resource \in Nat /\ used \in Nat /\ limit \in Nat /\ base \in Nat
    BY FeeAssumption
  <2>2. feeCall' = [call |-> "prepare", thrown |-> refused, total |-> total,
                    resource |-> resource, used |-> used, multiplier |-> m, limit |-> limit,
                    fee |-> x + y, resourceFee |-> y, resources |-> z]
    BY <1>1 DEF PrepareTransaction, BufferFee, BuiltFee
  <2>3. ~refused /\ limit # NoLimit => ~(x + y > limit)
    BY <2>1 DEF BufferFee
  <2> HIDE DEF base, x, y, z, refused
  <2>4. /\ x \in Nat /\ y \in Nat /\ z \in Nat
        /\ LeastAbove(x, base, m) /\ LeastAbove(y, resource, m) /\ LeastAbove(z, used, m)
        /\ x >= base /\ y >= resource /\ z >= used
    BY <2>1, CeilCorrect DEF x, y, z
  <2>5. x + y >= total
    BY <2>1, <2>4 DEF base
  <2>6. total >= resource => \/ LeastAbove(x + y, total, m)
                             \/ LeastAbove(x + y - 1, total, m)
    <3>1. total >= resource => base + resource = total
      BY <2>1 DEF base
    <3> QED
      BY <2>1, <2>4, <3>1, SumOfCeils
  <2>7. ~refused /\ limit # NoLimit => x + y <= limit
    BY <2>1, <2>3, <2>4
  <2> QED
    BY <2>2, <2>4, <2>5, <2>6, <2>7 DEF FeesAreCovered, LeastAbove
<1>2. ASSUME NEW fee \in Amounts, NEW minFee \in Amounts, NEW maxFee \in Amounts,
             NEW simulated \in Amounts \cup {NoLimit},
             ValidateFee(fee, minFee, maxFee, simulated)
      PROVE  FeesAreCovered'
  <2> DEFINE refused == fee < minFee \/ fee > maxFee
             result == IF simulated # NoLimit /\ 5 * simulated > 6 * fee THEN simulated ELSE fee
  <2>1. fee \in Nat /\ minFee \in Nat /\ maxFee \in Nat /\ simulated \in Nat
    BY FeeAssumption DEF NoLimit
  <2>2. feeCall' = [call |-> "validate", thrown |-> refused, given |-> fee, minFee |-> minFee,
                    maxFee |-> maxFee, simulated |-> simulated, fee |-> result]
    BY <1>2 DEF ValidateFee
  <2>3. result >= fee /\ (~refused => fee \in minFee..maxFee)
    BY <2>1
  <2> HIDE DEF refused, result
  <2> QED
    BY <2>2, <2>3 DEF FeesAreCovered
<1>3. ASSUME NEW fee \in Amounts, NEW count \in OperationCounts, SimulateBatch(fee, count)
      PROVE  FeesAreCovered'
  BY <1>3 DEF SimulateBatch, FeesAreCovered
<1>4. CASE UNCHANGED feeCall
  BY <1>4 DEF FeesAreCovered
<1> QED
  BY <1>1, <1>2, <1>3, <1>4 DEF FeeNext

\* A transaction that applyFeeBuffer() returns covers what the simulation found,
\* in every part, stays below maxFeeLimit, and pays at most one stroop more than
\* the buffer calls for; validateFee() returns a fee that is not below the given
\* one, which is within its bounds.
THEOREM FeesCovered == FeeSpec => [](FeeTypeOK /\ FeesAreCovered)
<1>1. FeeInit => FeeTypeOK /\ FeesAreCovered
  BY DEF FeeInit, NoFeeCall, FeeTypeOK, FeesAreCovered
<1>2. FeeTypeOK /\ [FeeNext]_feeCall => FeeTypeOK'
  BY FeeTypeStep
<1>3. FeesAreCovered /\ [FeeNext]_feeCall => FeesAreCovered'
  BY FeeInvStep
<1> QED
  BY <1>1, <1>2, <1>3, PTL DEF FeeSpec

-----------------------------------------------------------------------------
(* Sequences that are put together. *)

\* An element of a sequence.
LEMMA ElementOf ==
  ASSUME NEW S, NEW q \in Seq(S), NEW i \in 1..Len(q)
  PROVE  q[i] \in S
OBVIOUS

\* What is in a sequence.
LEMMA InRange ==
  ASSUME NEW S, NEW q \in Seq(S), NEW x
  PROVE  x \in Range(q) <=> \E i \in 1..Len(q) : q[i] = x
BY DEF Range

\* One more element at place k.
LEMMA Inserted ==
  ASSUME NEW S, NEW q \in Seq(S), NEW e \in S, NEW k \in 1..(Len(q) + 1),
         NEW t, t = InsertAt(q, k, e)
  PROVE  /\ t \in Seq(S) /\ Len(t) = Len(q) + 1 /\ t[k] = e
         /\ \A j \in 1..Len(q) : j < k => t[j] = q[j]
         /\ \A j \in 1..Len(q) : j >= k => t[j + 1] = q[j]
<1> DEFINE u == SubSeq(q, 1, k - 1)
           v == SubSeq(q, k, Len(q))
           w == u \o <<e>>
<1>1. Len(q) \in Nat /\ k \in Nat /\ k >= 1 /\ k <= Len(q) + 1
  OBVIOUS
<1>2. u \in Seq(S) /\ Len(u) = k - 1 /\ \A j \in 1..(k - 1) : u[j] = q[j]
  BY <1>1
<1>3. /\ v \in Seq(S) /\ Len(v) = (Len(q) - k) + 1
      /\ \A j \in 1..((Len(q) - k) + 1) : v[j] = q[(k + j) - 1]
  BY <1>1
<1>4. <<e>> \in Seq(S) /\ Len(<<e>>) = 1 /\ <<e>>[1] = e
  OBVIOUS
<1>5. t = w \o v
  BY DEF InsertAt
<1> HIDE DEF u, v
<1>6. /\ w \in Seq(S) /\ Len(w) = k /\ w[k] = e
      /\ \A j \in 1..(k - 1) : w[j] = q[j]
  BY <1>1, <1>2, <1>4
<1> HIDE DEF w
<1>7. /\ t \in Seq(S) /\ Len(t) = Len(q) + 1
      /\ \A j \in 1..k : t[j] = w[j]
      /\ \A j \in (k + 1)..(Len(q) + 1) : t[j] = v[j - k]
  BY <1>1, <1>3, <1>5, <1>6
<1>8. \A j \in 1..Len(q) : j >= k => t[j + 1] = q[j]
  <2> SUFFICES ASSUME NEW j \in 1..Len(q), j >= k PROVE t[j + 1] = q[j]
    OBVIOUS
  <2>1. t[j + 1] = v[(j + 1) - k]
    BY <1>1, <1>7
  <2>2. v[(j + 1) - k] = q[(k + ((j + 1) - k)) - 1]
    BY <1>1, <1>3
  <2>3. (k + ((j + 1) - k)) - 1 = j
    BY <1>1
  <2>4. QED
    BY <2>1, <2>2, <2>3
<1>9. QED
  BY <1>1, <1>6, <1>7, <1>8

\* The element at place k less.
LEMMA Removed ==
  ASSUME NEW S, NEW q \in Seq(S), NEW k \in 1..Len(q), NEW t, t = RemoveAt(q, k)
  PROVE  /\ t \in Seq(S) /\ Len(t) = Len(q) - 1
         /\ \A j \in 1..Len(t) : t[j] = IF j < k THEN q[j] ELSE q[j + 1]
<1> DEFINE u == SubSeq(q, 1, k - 1)
           v == SubSeq(q, k + 1, Len(q))
<1>1. Len(q) \in Nat /\ k \in Nat /\ k >= 1 /\ k <= Len(q)
  OBVIOUS
<1>2. u \in Seq(S) /\ Len(u) = k - 1 /\ \A j \in 1..(k - 1) : u[j] = q[j]
  BY <1>1
<1>3. /\ v \in Seq(S) /\ Len(v) = Len(q) - k
      /\ \A j \in 1..(Len(q) - k) : v[j] = q[k + j]
  BY <1>1
<1>4. t = u \o v
  BY DEF RemoveAt
<1> HIDE DEF u, v
<1>5. /\ t \in Seq(S) /\ Len(t) = Len(q) - 1
      /\ \A j \in 1..(k - 1) : t[j] = u[j]
      /\ \A j \in k..(Len(q) - 1) : t[j] = v[(j - k) + 1]
  <2>1. t \in Seq(S) /\ Len(t) = Len(u) + Len(v)
    <3>1. u \in Seq(S) /\ v \in Seq(S)
      BY <1>2, <1>3
    <3>2. u \o v \in Seq(S) /\ Len(u \o v) = Len(u) + Len(v)
      BY <3>1, ConcatProperties
    <3>3. QED
      BY <1>4, <3>2
  <2>2. Len(t) = Len(q) - 1
    BY <1>1, <1>2, <1>3, <2>1
  <2>3. \A j \in 1..Len(t) : t[j] = IF j <= Len(u) THEN u[j] ELSE v[j - Len(u)]
    BY <1>2, <1>3, <1>4, <2>1
  <2>4. \A j \in 1..(k - 1) : t[j] = u[j]
    BY <1>1, <1>2, <2>2, <2>3
  <2>5. ASSUME NEW j \in k..(Len(q) - 1) PROVE t[j] = v[(j - k) + 1]
    <3>1. j \in 1..Len(t) /\ ~(j <= Len(u)) /\ j - Len(u) = (j - k) + 1
      BY <1>1, <1>2, <2>2
    <3>2. QED
      BY <2>3, <3>1
  <2>6. QED
    BY <2>1, <2>2, <2>4, <2>5
<1>6. ASSUME NEW j \in 1..Len(t) PROVE t[j] = IF j < k THEN q[j] ELSE q[j + 1]
  <2>1. CASE j < k
    BY <1>1, <1>2, <1>5, <2>1
  <2>2. CASE ~(j < k)
    <3>1. t[j] = v[(j - k) + 1]
      BY <1>1, <1>5, <2>2
    <3>2. v[(j - k) + 1] = q[k + ((j - k) + 1)]
      BY <1>1, <1>3, <1>5, <2>2
    <3>3. k + ((j - k) + 1) = j + 1
      BY <1>1, <1>5
    <3>4. QED
      BY <2>2, <3>1, <3>2, <3>3
  <2>3. QED
    BY <2>1, <2>2
<1>7. QED
  BY <1>5, <1>6

\* The other way round.
LEMMA Reversed ==
  ASSUME NEW S, NEW q \in Seq(S)
  PROVE  /\ Reverse(q) \in Seq(S) /\ Len(Reverse(q)) = Len(q)
         /\ Range(Reverse(q)) = Range(q) /\ Reverse(Reverse(q)) = q
<1>1. Len(q) \in Nat /\ \A j \in 1..Len(q) : q[j] \in S
  OBVIOUS
<1>2. \A j \in 1..Len(q) : (Len(q) - j) + 1 \in 1..Len(q)
  BY <1>1
<1>3. Reverse(q) = [j \in 1..Len(q) |-> q[(Len(q) - j) + 1]]
  BY DEF Reverse
<1>4. Reverse(q) \in Seq(S) /\ Len(Reverse(q)) = Len(q)
  BY <1>1, <1>2, <1>3
<1>5. \A j \in 1..Len(q) : Reverse(q)[j] = q[(Len(q) - j) + 1]
  BY <1>3
<1>6. \A x : x \in Range(Reverse(q)) <=> x \in Range(q)
  <2>1. ASSUME NEW j \in 1..Len(q) PROVE Reverse(q)[(Len(q) - j) + 1] = q[j]
    <3>1. Reverse(q)[(Len(q) - j) + 1] = q[(Len(q) - ((Len(q) - j) + 1)) + 1]
      BY <1>2, <1>5
    <3>2. (Len(q) - ((Len(q) - j) + 1)) + 1 = j
      BY <1>1
    <3>3. QED
      BY <3>1, <3>2
  <2>2. \A x : x \in Range(q) <=> \E j \in 1..Len(q) : q[j] = x
    BY InRange
  <2>3. \A x : x \in Range(Reverse(q)) <=> \E j \in 1..Len(q) : Reverse(q)[j] = x
    BY <1>4, InRange
  <2>4. QED
    BY <1>2, <1>5, <2>1, <2>2, <2>3
<1>7. Reverse(Reverse(q)) = q
  <2>1. Reverse(Reverse(q)) = [j \in 1..Len(q) |-> Reverse(q)[(Len(q) - j) + 1]]
    BY <1>4 DEF Reverse
  <2>2. ASSUME NEW j \in 1..Len(q) PROVE Reverse(q)[(Len(q) - j) + 1] = q[j]
    <3>1. Reverse(q)[(Len(q) - j) + 1] = q[(Len(q) - ((Len(q) - j) + 1)) + 1]
      BY <1>2, <1>5
    <3>2. (Len(q) - ((Len(q) - j) + 1)) + 1 = j
      BY <1>1
    <3>3. QED
      BY <3>1, <3>2
  <2>3. Reverse(Reverse(q)) = [j \in 1..Len(q) |-> q[j]]
    BY <2>1, <2>2
  <2>4. q = [j \in 1..Len(q) |-> q[j]]
    OBVIOUS
  <2>5. QED
    BY <2>3, <2>4
<1>8. QED
  BY <1>4, <1>6, <1>7

\* Two sequences in a row.
LEMMA Joined ==
  ASSUME NEW S, NEW a \in Seq(S), NEW b \in Seq(S), NEW c, c = a \o b
  PROVE  /\ c \in Seq(S) /\ Len(c) = Len(a) + Len(b)
         /\ \A j \in 1..Len(a) : c[j] = a[j]
         /\ \A j \in (Len(a) + 1)..(Len(a) + Len(b)) : c[j] = b[j - Len(a)]
OBVIOUS

\* Taking the head of the second part to the end of the first changes nothing.
LEMMA Passing ==
  ASSUME NEW S, NEW p \in Seq(S), NEW q \in Seq(S), q # <<>>
  PROVE  /\ Append(p, Head(q)) \in Seq(S) /\ Tail(q) \in Seq(S)
         /\ Append(p, Head(q)) \o Tail(q) = p \o q
<1>1. Len(p) \in Nat /\ Len(q) \in Nat /\ Len(q) > 0 /\ Head(q) = q[1] /\ q[1] \in S
  OBVIOUS
<1> DEFINE a == Append(p, Head(q))
           b == Tail(q)
<1>2. /\ a \in Seq(S) /\ Len(a) = Len(p) + 1 /\ a[Len(p) + 1] = q[1]
      /\ \A j \in 1..Len(p) : a[j] = p[j]
  BY <1>1
<1>3. b \in Seq(S) /\ Len(b) = Len(q) - 1 /\ \A j \in 1..(Len(q) - 1) : b[j] = q[j + 1]
  BY <1>1
<1> HIDE DEF a, b
<1> DEFINE c == a \o b
           d == p \o q
<1>4. /\ c \in Seq(S) /\ Len(c) = Len(p) + Len(q)
      /\ \A j \in 1..(Len(p) + 1) : c[j] = a[j]
      /\ \A j \in (Len(p) + 2)..(Len(p) + Len(q)) : c[j] = b[j - (Len(p) + 1)]
  <2>1. c = a \o b /\ a \in Seq(S) /\ b \in Seq(S)
    BY <1>2, <1>3
  <2> HIDE DEF c
  <2>2. /\ c \in Seq(S) /\ Len(c) = Len(a) + Len(b)
        /\ \A j \in 1..Len(a) : c[j] = a[j]
        /\ \A j \in (Len(a) + 1)..(Len(a) + Len(b)) : c[j] = b[j - Len(a)]
    BY <2>1, Joined
  <2>3. Len(a) + Len(b) = Len(p) + Len(q) /\ Len(a) + 1 = Len(p) + 2
    BY <1>1, <1>2, <1>3
  <2>4. QED
    BY <1>2, <2>2, <2>3
<1>5. /\ d \in Seq(S) /\ Len(d) = Len(p) + Len(q)
      /\ \A j \in 1..Len(p) : d[j] = p[j]
      /\ \A j \in (Len(p) + 1)..(Len(p) + Len(q)) : d[j] = q[j - Len(p)]
  BY <1>1
<1> HIDE DEF c, d
<1>6. ASSUME NEW j \in 1..(Len(p) + Len(q)) PROVE c[j] = d[j]
  <2>1. CASE j \in 1..Len(p)
    BY <1>1, <1>2, <1>4, <1>5, <2>1
  <2>2. CASE j = Len(p) + 1
    <3>1. j - Len(p) = 1 /\ j \in 1..(Len(p) + 1)
      BY <1>1, <2>2
    <3>2. QED
      BY <1>1, <1>2, <1>4, <1>5, <2>2, <3>1
  <2>3. CASE j > Len(p) + 1
    <3>1. j - (Len(p) + 1) \in 1..(Len(q) - 1) /\ j \in (Len(p) + 2)..(Len(p) + Len(q))
      BY <1>1, <2>3
    <3>2. (j - (Len(p) + 1)) + 1 = j - Len(p)
      BY <1>1
    <3>3. c[j] = q[j - Len(p)]
      BY <1>3, <1>4, <3>1, <3>2
    <3>4. j \in (Len(p) + 1)..(Len(p) + Len(q))
      BY <1>1, <2>3
    <3>5. d[j] = q[j - Len(p)]
      BY <1>5, <3>4
    <3>6. QED
      BY <3>3, <3>5
  <2>4. QED
    BY <1>1, <2>1, <2>2, <2>3
<1>7. c = d
  <2>1. c = [j \in 1..Len(c) |-> c[j]] /\ d = [j \in 1..Len(d) |-> d[j]]
    BY <1>4, <1>5
  <2>2. [j \in 1..Len(c) |-> c[j]] = [j \in 1..Len(d) |-> d[j]]
    BY <1>4, <1>5, <1>6
  <2>3. QED
    BY <2>1, <2>2
<1>8. QED
  BY <1>2, <1>3, <1>7 DEF a, b, c, d

-----------------------------------------------------------------------------
(* MiddlewarePipeline: a request meets the middlewares of its start. *)

MiddlewareEntry == [name : MiddlewareNames, order : Orders, seq : 0..(MaxUses - 1)]
RequestType ==
  [phase : {"none", "pre", "next", "post", "error"}, at : Nat,
   first : SUBSET MiddlewareEntry, pre : SUBSET MiddlewareEntry,
   todo : Seq(MiddlewareEntry), back : Seq(MiddlewareEntry), cut : BOOLEAN]

PipelineTyped ==
  /\ middleware \in Seq(MiddlewareEntry)
  /\ nextSequence \in 0..MaxUses
  /\ \A k \in 1..Len(middleware) : middleware[k].seq < nextSequence
  /\ request \in RequestType

\* Who was there when request r began is still among the entries, has been
\* called or is before it, and is in the array gone through afterwards.
MetSoFar(entries, r) ==
  /\ r.phase # "none" => r.first \subseteq Range(entries)
  /\ r.phase = "pre" =>
       \A e \in r.first : e \in r.pre \/ \E k \in 1..Len(entries) : k > r.at /\ entries[k] = e
  /\ r.phase \in {"next", "post"} => r.first \subseteq r.pre
  /\ r.phase \in {"post", "error"} => r.first \subseteq Range(r.back \o r.todo)

GoesDown(r) == r.phase \in {"post", "error"} => Ascending(Reverse(r.back \o r.todo))

PipelineIInv ==
  /\ PipelineTyped /\ Ascending(middleware) /\ GoesDown(request)
  /\ ~request.cut => MetSoFar(middleware, request)

\* The hook at the next place is called, or the operation.
LEMMA PreHookCalled ==
  ASSUME NEW entries \in Seq(MiddlewareEntry), NEW r \in RequestType, NEW at \in Nat, at > 0,
         ~r.cut => r.first \subseteq Range(entries),
         ~r.cut => \A e \in r.first :
            e \in r.pre \/ \E k \in 1..Len(entries) : k >= at /\ entries[k] = e,
         middleware = entries
  PROVE  /\ CallPreHook(r, at) \in RequestType /\ CallPreHook(r, at).phase \in {"pre", "next"}
         /\ CallPreHook(r, at).cut = r.cut
         /\ ~r.cut => MetSoFar(entries, CallPreHook(r, at))
<1> DEFINE s == CallPreHook(r, at)
<1>1. Len(entries) \in Nat
  OBVIOUS
<1>2. CASE at <= Len(entries)
  <2>1. at \in 1..Len(entries)
    BY <1>1, <1>2
  <2>2. entries[at] \in MiddlewareEntry
    BY <2>1, ElementOf
  <2>3. s = [r EXCEPT !.phase = "pre", !.at = at, !.pre = r.pre \cup {entries[at]}]
    BY <1>2 DEF CallPreHook
  <2> HIDE DEF s
  <2>4. s \in RequestType
    BY <2>2, <2>3 DEF RequestType
  <2>5. /\ s.phase = "pre" /\ s.at = at /\ s.pre = r.pre \cup {entries[at]}
        /\ s.first = r.first /\ s.cut = r.cut
    BY <2>3 DEF RequestType
  <2>6. ASSUME ~r.cut, NEW e \in r.first
        PROVE  e \in s.pre \/ \E k \in 1..Len(entries) : k > at /\ entries[k] = e
    <3>1. CASE e \in r.pre
      BY <2>5, <3>1
    <3>2. CASE \E k \in 1..Len(entries) : k >= at /\ entries[k] = e
      <4>1. PICK k \in 1..Len(entries) : k >= at /\ entries[k] = e
        BY <3>2
      <4>2. k = at \/ k > at
        BY <1>1, <4>1
      <4>3. QED
        BY <2>5, <4>1, <4>2
    <3>3. QED
      BY <2>6, <3>1, <3>2
  <2>7. ~r.cut => MetSoFar(entries, s)
    BY <2>5, <2>6 DEF MetSoFar
  <2>8. QED
    BY <2>4, <2>5, <2>7 DEF s
<1>3. CASE ~(at <= Len(entries))
  <2>1. s = [r EXCEPT !.phase = "next"]
    BY <1>3 DEF CallPreHook
  <2> HIDE DEF s
  <2>2. s \in RequestType
    BY <2>1 DEF RequestType
  <2>3. s.phase = "next" /\ s.pre = r.pre /\ s.first = r.first /\ s.cut = r.cut
    BY <2>1 DEF RequestType
  <2>4. \A k \in 1..Len(entries) : ~(k >= at)
    BY <1>1, <1>3
  <2>5. ~r.cut => MetSoFar(entries, s)
    BY <2>3, <2>4 DEF MetSoFar
  <2>6. QED
    BY <2>2, <2>3, <2>5 DEF s
<1>4. QED
  BY <1>2, <1>3

\* The array is turned round.
LEMMA TurnedRound ==
  ASSUME PipelineIInv, NEW phase \in {"post", "error"}, request.phase \in {"pre", "next", "post"},
         phase = "post" => request.phase = "next"
  PROVE  /\ Back(phase) \in RequestType /\ Back(phase).cut = request.cut
         /\ GoesDown(Back(phase))
         /\ ~request.cut => MetSoFar(middleware, Back(phase))
<1> DEFINE s == Back(phase)
<1>1. middleware \in Seq(MiddlewareEntry) /\ request \in RequestType /\ Ascending(middleware)
  BY DEF PipelineIInv, PipelineTyped
<1>2. /\ Reverse(middleware) \in Seq(MiddlewareEntry)
      /\ Range(Reverse(middleware)) = Range(middleware)
      /\ Reverse(Reverse(middleware)) = middleware
  BY <1>1, Reversed
<1>3. s = [request EXCEPT !.phase = phase, !.todo = Reverse(middleware), !.back = <<>>]
  BY DEF Back
<1> HIDE DEF s
<1>4. s \in RequestType
  <2>1. <<>> \in Seq(MiddlewareEntry)
    OBVIOUS
  <2>2. phase \in {"none", "pre", "next", "post", "error"}
    OBVIOUS
  <2>3. QED
    BY <1>1, <1>2, <1>3, <2>1, <2>2 DEF RequestType
<1>5. /\ s.phase = phase /\ s.todo = Reverse(middleware) /\ s.back = <<>>
      /\ s.first = request.first /\ s.pre = request.pre /\ s.cut = request.cut
  BY <1>1, <1>3 DEF RequestType
<1>6. s.back \o s.todo = Reverse(middleware)
  <2>1. <<>> \o Reverse(middleware) = Reverse(middleware)
    BY <1>2
  <2>2. QED
    BY <1>5, <2>1
<1>7. GoesDown(s)
  BY <1>1, <1>2, <1>6 DEF GoesDown
<1>8. ~request.cut => MetSoFar(middleware, s)
  BY <1>2, <1>5, <1>6 DEF PipelineIInv, MetSoFar
<1>9. QED
  BY <1>4, <1>5, <1>7, <1>8 DEF s

\* use() keeps the entries in order and pushes none of them in front of the hook.
LEMMA UseKeeps ==
  ASSUME PipelineIInv, NEW name \in MiddlewareNames, NEW order \in Orders,
         UseMiddleware(name, order)
  PROVE  PipelineIInv'
<1> DEFINE e == [name |-> name, order |-> order, seq |-> nextSequence]
           n == Len(middleware)
<1>1. /\ middleware \in Seq(MiddlewareEntry) /\ request \in RequestType
      /\ Ascending(middleware) /\ GoesDown(request)
      /\ nextSequence \in Nat /\ nextSequence < MaxUses /\ MaxUses \in Nat
      /\ \A j \in 1..n : middleware[j].seq < nextSequence
      /\ nextSequence' = nextSequence + 1 /\ request' = request
  BY PipelineAssumption DEF PipelineIInv, PipelineTyped, UseMiddleware, PipelineAssumption
<1>2. PICK k \in 1..(n + 1) :
        /\ \A j \in DOMAIN middleware : middleware[j].order <= order <=> j < k
        /\ middleware' = InsertAt(middleware, k, e)
  BY DEF UseMiddleware
<1>3. e \in MiddlewareEntry /\ e.order = order /\ e.seq = nextSequence
  BY <1>1 DEF MiddlewareEntry
<1> HIDE DEF e
<1>4. /\ middleware' \in Seq(MiddlewareEntry) /\ Len(middleware') = n + 1 /\ middleware'[k] = e
      /\ \A j \in 1..n : j < k => middleware'[j] = middleware[j]
      /\ \A j \in 1..n : j >= k => middleware'[j + 1] = middleware[j]
  <2>1. PICK t : t = middleware'
    OBVIOUS
  <2>2. middleware \in Seq(MiddlewareEntry) /\ k \in 1..(Len(middleware) + 1)
    BY <1>1, <1>2
  <2>3. t = InsertAt(middleware, k, e)
    BY <1>2, <2>1
  <2>4. /\ t \in Seq(MiddlewareEntry) /\ Len(t) = n + 1 /\ t[k] = e
        /\ \A j \in 1..n : j < k => t[j] = middleware[j]
        /\ \A j \in 1..n : j >= k => t[j + 1] = middleware[j]
    <3>1. e \in MiddlewareEntry /\ middleware \in Seq(MiddlewareEntry)
      BY <1>3, <2>2
    <3>2. k \in 1..(Len(middleware) + 1)
      BY <2>2
    <3>3. QED
      BY <3>1, <3>2, <2>3, Inserted
  <2>5. QED
    BY <2>1, <2>4
<1>5. n \in Nat /\ DOMAIN middleware = 1..n /\ DOMAIN middleware' = 1..(n + 1)
  BY <1>1, <1>4
<1> HIDE DEF n
<1>6. ASSUME NEW j \in 1..(n + 1)
      PROVE  \/ j < k /\ j \in 1..n /\ middleware'[j] = middleware[j]
             \/ j = k /\ middleware'[j] = e
             \/ j > k /\ j - 1 \in 1..n /\ j - 1 >= k /\ middleware'[j] = middleware[j - 1]
  <2>1. CASE j < k
    BY <1>4, <1>5, <2>1
  <2>2. CASE j = k
    BY <1>4, <2>2
  <2>3. CASE j > k
    <3>1. j - 1 \in 1..n /\ j - 1 >= k /\ (j - 1) + 1 = j
      BY <1>5, <2>3
    <3>2. QED
      BY <1>4, <2>3, <3>1
  <2>4. QED
    BY <1>5, <2>1, <2>2, <2>3
<1>7. \A j \in 1..n : /\ middleware[j].order \in Int /\ middleware[j].seq \in Nat
                      /\ middleware[j].order <= order <=> j < k
  <2>1. \A j \in 1..n : middleware[j] \in MiddlewareEntry
    BY <1>1, <1>5, ElementOf DEF n
  <2>2. \A j \in 1..n : middleware[j].order \in Int
    BY <2>1, PipelineAssumption DEF MiddlewareEntry, PipelineAssumption
  <2>3. \A j \in 1..n : middleware[j].seq \in Nat
    BY <1>1, <2>1 DEF MiddlewareEntry
  <2>4. QED
    BY <1>2, <1>5, <2>2, <2>3
<1>8. ASSUME NEW i \in 1..(n + 1), NEW j \in 1..(n + 1), i < j
      PROVE  \/ middleware'[i].order < middleware'[j].order
             \/ /\ middleware'[i].order = middleware'[j].order
                /\ middleware'[i].seq < middleware'[j].seq
  <2>1. order \in Int
    BY PipelineAssumption DEF PipelineAssumption
  <2>2. \A a, b \in 1..n : a < b =>
          \/ middleware[a].order < middleware[b].order
          \/ middleware[a].order = middleware[b].order /\ middleware[a].seq < middleware[b].seq
    BY <1>1, <1>5 DEF Ascending
  <2>3. CASE i = k
    <3>1. j - 1 \in 1..n /\ j - 1 >= k /\ middleware'[j] = middleware[j - 1]
      BY <1>5, <1>6, <1>8, <2>3
    <3>2. ~(middleware[j - 1].order <= order)
      BY <1>5, <1>7, <3>1
    <3>3. order < middleware[j - 1].order
      BY <1>7, <2>1, <3>1, <3>2
    <3>4. QED
      BY <1>3, <1>4, <2>3, <3>1, <3>3
  <2>4. CASE j = k
    <3>1. i < k /\ i \in 1..n /\ middleware'[i] = middleware[i]
      BY <1>5, <1>6, <1>8, <2>4
    <3>2. middleware[i].order <= order /\ middleware[i].seq < nextSequence
      BY <1>1, <1>7, <3>1 DEF n
    <3>3. middleware[i].order < order \/ middleware[i].order = order
      BY <1>7, <2>1, <3>1, <3>2
    <3>4. QED
      BY <1>3, <1>4, <2>4, <3>1, <3>2, <3>3
  <2>5. CASE i # k /\ j # k
    <3>1. PICK a \in 1..n : /\ middleware'[i] = middleware[a]
                            /\ (a = i /\ i < k) \/ (a = i - 1 /\ i > k)
      <4>1. CASE i < k
        BY <1>6, <2>5, <4>1
      <4>2. CASE i > k
        BY <1>6, <2>5, <4>2
      <4>3. QED
        BY <1>5, <2>5, <4>1, <4>2
    <3>2. PICK b \in 1..n : /\ middleware'[j] = middleware[b]
                            /\ (b = j /\ j < k) \/ (b = j - 1 /\ j > k)
      <4>1. CASE j < k
        BY <1>6, <2>5, <4>1
      <4>2. CASE j > k
        BY <1>6, <2>5, <4>2
      <4>3. QED
        BY <1>5, <2>5, <4>1, <4>2
    <3>3. a < b
      BY <1>5, <1>8, <3>1, <3>2
    <3>4. \/ middleware[a].order < middleware[b].order
          \/ middleware[a].order = middleware[b].order /\ middleware[a].seq < middleware[b].seq
      BY <2>2, <3>3
    <3>5. middleware'[i] = middleware[a] /\ middleware'[j] = middleware[b]
      BY <3>1, <3>2
    <3>6. QED
      BY <3>4, <3>5
  <2>6. QED
    BY <2>3, <2>4, <2>5
<1>9. Ascending(middleware)'
  BY <1>5, <1>8 DEF Ascending
<1>10. PipelineTyped'
  <2>1. \A j \in 1..(n + 1) : middleware'[j].seq < nextSequence + 1
    <3>1. \A a \in 1..n : middleware[a].seq < nextSequence + 1
      BY <1>1, <1>7 DEF n
    <3>2. e.seq < nextSequence + 1
      BY <1>1, <1>3
    <3>3. QED
      BY <1>6, <3>1, <3>2
  <2>2. nextSequence' \in 0..MaxUses
    BY <1>1
  <2>3. QED
    BY <1>1, <1>4, <2>1, <2>2 DEF PipelineTyped
<1>11. ASSUME ~request.cut PROVE MetSoFar(middleware', request)
  <2>1. MetSoFar(middleware, request)
    BY <1>11 DEF PipelineIInv
  <2>2. \A a \in 1..n : \E j \in 1..(n + 1) : middleware'[j] = middleware[a] /\ j >= a
    <3> SUFFICES ASSUME NEW a \in 1..n
                 PROVE  \E j \in 1..(n + 1) : middleware'[j] = middleware[a] /\ j >= a
      OBVIOUS
    <3>1. a \in 1..(n + 1) /\ a + 1 \in 1..(n + 1) /\ a + 1 >= a
      BY <1>5
    <3>2. a < k \/ a >= k
      BY <1>5
    <3>3. QED
      BY <1>4, <1>5, <3>1, <3>2 DEF n
  <2>3. Range(middleware) \subseteq Range(middleware')
    BY <1>5, <2>2 DEF Range
  <2>4. ASSUME request.phase = "pre", NEW f \in request.first, f \notin request.pre
        PROVE  \E j \in 1..(n + 1) : j > request.at /\ middleware'[j] = f
    <3>1. PICK a \in 1..n : a > request.at /\ middleware[a] = f
      BY <2>1, <2>4 DEF MetSoFar, n
    <3>2. PICK j \in 1..(n + 1) : middleware'[j] = middleware[a] /\ j >= a
      BY <2>2
    <3>3. request.at \in Nat
      BY <1>1 DEF RequestType
    <3>4. j > request.at
      BY <1>5, <3>1, <3>2, <3>3
    <3>5. QED
      BY <3>1, <3>2, <3>4
  <2>5. QED
    BY <1>4, <2>1, <2>3, <2>4 DEF MetSoFar
<1>12. QED
  BY <1>1, <1>9, <1>10, <1>11 DEF PipelineIInv

\* remove() and clear() cut a request that is under way.
LEMMA CutKeeps ==
  ASSUME PipelineIInv, PipelineTyped', Ascending(middleware)',
         request' = [request EXCEPT !.cut = request.phase # "none"]
  PROVE  PipelineIInv'
<1>1. request \in RequestType /\ GoesDown(request)
  BY DEF PipelineIInv, PipelineTyped
<1>2. /\ request'.phase = request.phase /\ request'.back = request.back
      /\ request'.todo = request.todo /\ request'.cut = (request.phase # "none")
  BY <1>1 DEF RequestType
<1>3. GoesDown(request)'
  BY <1>1, <1>2 DEF GoesDown
<1>4. ~request'.cut => MetSoFar(middleware', request')
  BY <1>2 DEF MetSoFar
<1>5. QED
  BY <1>3, <1>4 DEF PipelineIInv

LEMMA RequestCut ==
  ASSUME PipelineIInv, NEW cut \in BOOLEAN
  PROVE  [request EXCEPT !.cut = cut] \in RequestType
BY DEF PipelineIInv, PipelineTyped, RequestType

LEMMA RemoveKeeps ==
  ASSUME PipelineIInv, NEW name \in MiddlewareNames, RemoveMiddleware(name)
  PROVE  PipelineIInv'
<1> DEFINE n == Len(middleware)
<1>1. /\ middleware \in Seq(MiddlewareEntry) /\ Ascending(middleware)
      /\ \A j \in 1..n : middleware[j].seq < nextSequence
      /\ nextSequence \in 0..MaxUses /\ nextSequence' = nextSequence
      /\ request' = [request EXCEPT !.cut = request.phase # "none"]
  BY DEF PipelineIInv, PipelineTyped, RemoveMiddleware
<1>2. n \in Nat /\ DOMAIN middleware = 1..n
  BY <1>1
<1>3. PICK k \in 1..n : middleware' = RemoveAt(middleware, k)
  BY <1>2 DEF RemoveMiddleware
<1>4. /\ middleware' \in Seq(MiddlewareEntry) /\ Len(middleware') = n - 1
      /\ \A j \in 1..Len(middleware') :
           middleware'[j] = IF j < k THEN middleware[j] ELSE middleware[j + 1]
  BY <1>1, <1>3, Removed
<1>5. DOMAIN middleware' = 1..(n - 1)
  BY <1>4
<1> HIDE DEF n
<1>6. ASSUME NEW j \in 1..(n - 1)
      PROVE  /\ j < k => j \in 1..n /\ middleware'[j] = middleware[j]
             /\ ~(j < k) => j + 1 \in 1..n /\ middleware'[j] = middleware[j + 1]
  <2>1. j \in 1..n /\ j + 1 \in 1..n
    BY <1>2
  <2>2. QED
    BY <1>4, <2>1
<1>7. ASSUME NEW i \in 1..(n - 1), NEW j \in 1..(n - 1), i < j
      PROVE  \/ middleware'[i].order < middleware'[j].order
             \/ /\ middleware'[i].order = middleware'[j].order
                /\ middleware'[i].seq < middleware'[j].seq
  <2>1. \A a, b \in 1..n : a < b =>
          \/ middleware[a].order < middleware[b].order
          \/ middleware[a].order = middleware[b].order /\ middleware[a].seq < middleware[b].seq
    BY <1>1, <1>2 DEF Ascending
  <2>2. PICK a \in 1..n : middleware'[i] = middleware[a] /\ a = IF i < k THEN i ELSE i + 1
    BY <1>6
  <2>3. PICK b \in 1..n : middleware'[j] = middleware[b] /\ b = IF j < k THEN j ELSE j + 1
    BY <1>6
  <2>4. a < b
    BY <1>2, <1>7, <2>2, <2>3
  <2>5. \/ middleware[a].order < middleware[b].order
        \/ middleware[a].order = middleware[b].order /\ middleware[a].seq < middleware[b].seq
    BY <2>1, <2>4
  <2>6. middleware'[i] = middleware[a] /\ middleware'[j] = middleware[b]
    BY <2>2, <2>3
  <2>7. QED
    BY <2>5, <2>6
<1>8. Ascending(middleware)'
  BY <1>5, <1>7 DEF Ascending
<1>9. PipelineTyped'
  <2>1. \A j \in 1..(n - 1) : middleware'[j].seq < nextSequence
    BY <1>1, <1>6 DEF n
  <2>2. request' \in RequestType
    BY <1>1, RequestCut
  <2>3. QED
    BY <1>1, <1>4, <2>1, <2>2 DEF PipelineTyped
<1>10. QED
  BY <1>1, <1>8, <1>9, CutKeeps

LEMMA ClearKeeps ==
  ASSUME PipelineIInv, ClearMiddleware
  PROVE  PipelineIInv'
<1>1. /\ middleware' = <<>> /\ nextSequence' = nextSequence
      /\ request' = [request EXCEPT !.cut = request.phase # "none"]
  BY DEF ClearMiddleware
<1>2. request' \in RequestType
  BY <1>1, RequestCut
<1>3. Len(<<>>) = 0 /\ 1..0 = {} /\ DOMAIN <<>> = {} /\ <<>> \in Seq(MiddlewareEntry)
  OBVIOUS
<1>4. PipelineTyped'
  BY <1>1, <1>2, <1>3 DEF PipelineIInv, PipelineTyped
<1>5. Ascending(middleware)'
  BY <1>1, <1>3 DEF Ascending
<1>6. QED
  BY <1>1, <1>4, <1>5, CutKeeps

\* The steps of execute().
LEMMA ExecuteKeeps ==
  ASSUME PipelineIInv,
         ExecuteStarts \/ PreHookReturns \/ OperationReturns \/ BackHookReturns
           \/ RequestThrows \/ ExecuteEnds
  PROVE  PipelineIInv'
<1>1. /\ middleware \in Seq(MiddlewareEntry) /\ Ascending(middleware)
      /\ request \in RequestType /\ GoesDown(request)
      /\ ~request.cut => MetSoFar(middleware, request)
  BY DEF PipelineIInv, PipelineTyped
<1>2. middleware' = middleware /\ nextSequence' = nextSequence
  BY DEF ExecuteStarts, PreHookReturns, OperationReturns, BackHookReturns, RequestThrows,
         ExecuteEnds
<1>3. \A x : x \in Range(middleware) <=> \E k \in 1..Len(middleware) : middleware[k] = x
  BY <1>1, InRange
<1>4. SUFFICES /\ request' \in RequestType /\ GoesDown(request')
               /\ ~request'.cut => MetSoFar(middleware, request')
  BY <1>2 DEF PipelineIInv, PipelineTyped, Ascending
<1>5. Len(middleware) \in Nat /\ Range(middleware) \subseteq MiddlewareEntry
  BY <1>1, <1>3, ElementOf
<1>6. NoRequest \in RequestType /\ NoRequest.phase = "none" /\ ~NoRequest.cut
  BY DEF NoRequest, RequestType
<1>7. CASE ExecuteStarts
  <2> DEFINE r == [NoRequest EXCEPT !.first = Range(middleware)]
  <2>1. request' = CallPreHook(r, 1)
    BY <1>7 DEF ExecuteStarts
  <2>2. r \in RequestType /\ r.first = Range(middleware)
    BY <1>5, <1>6 DEF RequestType
  <2> HIDE DEF r
  <2>3. \A e \in r.first : e \in r.pre \/ \E k \in 1..Len(middleware) : k >= 1 /\ middleware[k] = e
    BY <1>3, <1>5, <2>2
  <2>4. /\ request' \in RequestType /\ request'.phase \in {"pre", "next"}
        /\ request'.cut = r.cut
        /\ ~r.cut => MetSoFar(middleware, request')
    BY <1>1, <2>1, <2>2, <2>3, PreHookCalled
  <2>5. QED
    BY <2>4 DEF GoesDown
<1>8. CASE PreHookReturns
  <2>1. request' = CallPreHook(request, request.at + 1) /\ request.phase = "pre"
    BY <1>8 DEF PreHookReturns
  <2>2. request.at \in Nat /\ request.at + 1 \in Nat /\ request.at + 1 > 0
    BY <1>1 DEF RequestType
  <2>3. ~request.cut => request.first \subseteq Range(middleware)
    BY <1>1, <2>1 DEF MetSoFar
  <2>4. ~request.cut => \A e \in request.first :
          e \in request.pre \/ \E k \in 1..Len(middleware) :
            k >= request.at + 1 /\ middleware[k] = e
    BY <1>1, <1>5, <2>1, <2>2 DEF MetSoFar
  <2>5. /\ request' \in RequestType /\ request'.phase \in {"pre", "next"}
        /\ request'.cut = request.cut
        /\ ~request.cut => MetSoFar(middleware, request')
    BY <1>1, <2>1, <2>2, <2>3, <2>4, PreHookCalled
  <2>6. QED
    BY <2>5 DEF GoesDown
<1>9. CASE OperationReturns
  <2>1. request' = Back("post") /\ request.phase = "next"
    BY <1>9 DEF OperationReturns
  <2>2. QED
    BY <2>1, TurnedRound
<1>10. CASE RequestThrows
  <2>1. request' = Back("error") /\ request.phase \in {"pre", "next", "post"}
    BY <1>10 DEF RequestThrows
  <2>2. QED
    BY <2>1, TurnedRound
<1>11. CASE BackHookReturns
  <2>1. /\ request.phase \in {"post", "error"} /\ request.todo # <<>>
        /\ request' = [request EXCEPT !.todo = Tail(request.todo),
                                      !.back = Append(request.back, Head(request.todo))]
    BY <1>11 DEF BackHookReturns
  <2>2. request.back \in Seq(MiddlewareEntry) /\ request.todo \in Seq(MiddlewareEntry)
    BY <1>1 DEF RequestType
  <2>3. /\ Append(request.back, Head(request.todo)) \in Seq(MiddlewareEntry)
        /\ Tail(request.todo) \in Seq(MiddlewareEntry)
        /\ Append(request.back, Head(request.todo)) \o Tail(request.todo)
             = request.back \o request.todo
    <3>1. request.todo # <<>>
      BY <2>1
    <3>2. QED
      BY <2>2, <3>1, Passing
  <2>4. /\ request'.todo = Tail(request.todo) /\ request'.phase = request.phase
        /\ request'.back = Append(request.back, Head(request.todo))
        /\ request'.first = request.first /\ request'.pre = request.pre
        /\ request'.cut = request.cut
    BY <1>1, <2>1 DEF RequestType
  <2>5. request' \in RequestType
    BY <1>1, <2>1, <2>3 DEF RequestType
  <2>6. request'.back \o request'.todo = request.back \o request.todo
    BY <2>3, <2>4
  <2>7. GoesDown(request')
    BY <1>1, <2>4, <2>6 DEF GoesDown
  <2>8. ~request'.cut => MetSoFar(middleware, request')
    BY <1>1, <2>1, <2>4, <2>6 DEF MetSoFar
  <2>9. QED
    BY <2>5, <2>7, <2>8
<1>12. CASE ExecuteEnds
  <2>1. request' = NoRequest
    BY <1>12 DEF ExecuteEnds
  <2>2. QED
    BY <1>6, <2>1 DEF GoesDown, MetSoFar
<1>13. QED
  BY <1>7, <1>8, <1>9, <1>10, <1>11, <1>12

\* At first nobody is in the pipeline and no request is under way.
LEMMA PipelineInvInit == PipelineInit => PipelineIInv
<1> SUFFICES ASSUME PipelineInit PROVE PipelineIInv
  OBVIOUS
<1>1. middleware = <<>> /\ nextSequence = 0 /\ request = NoRequest
  BY DEF PipelineInit
<1>2. Len(<<>>) = 0 /\ 1..0 = {} /\ DOMAIN <<>> = {} /\ \A S : <<>> \in Seq(S)
  OBVIOUS
<1>3. /\ NoRequest \in RequestType /\ NoRequest.phase = "none" /\ ~NoRequest.cut
  BY <1>2 DEF NoRequest, RequestType
<1>4. MaxUses \in Nat
  BY PipelineAssumption DEF PipelineAssumption
<1>5. PipelineTyped
  BY <1>1, <1>2, <1>3, <1>4 DEF PipelineTyped
<1>6. Ascending(middleware)
  BY <1>1, <1>2 DEF Ascending
<1>7. GoesDown(request) /\ MetSoFar(middleware, request)
  BY <1>1, <1>3 DEF GoesDown, MetSoFar
<1>8. QED
  BY <1>5, <1>6, <1>7 DEF PipelineIInv

\* Every call of the pipeline keeps the invariant.
LEMMA PipelineInvStep == PipelineIInv /\ [PipelineNext]_pipelineVars => PipelineIInv'
<1> SUFFICES ASSUME PipelineIInv, [PipelineNext]_pipelineVars PROVE PipelineIInv'
  OBVIOUS
<1>1. CASE \E name \in MiddlewareNames : RemoveMiddleware(name)
  BY <1>1, RemoveKeeps
<1>2. CASE \E name \in MiddlewareNames, order \in Orders : UseMiddleware(name, order)
  BY <1>2, UseKeeps
<1>3. CASE ClearMiddleware
  BY <1>3, ClearKeeps
<1>4. CASE ExecuteStarts \/ PreHookReturns \/ OperationReturns \/ BackHookReturns
             \/ RequestThrows \/ ExecuteEnds
  BY <1>4, ExecuteKeeps
<1>5. CASE UNCHANGED pipelineVars
  <2>1. middleware' = middleware /\ nextSequence' = nextSequence /\ request' = request
    BY <1>5 DEF pipelineVars
  <2>2. QED
    BY <2>1 DEF PipelineIInv, PipelineTyped, Ascending, GoesDown, MetSoFar
<1>6. QED
  BY <1>1, <1>2, <1>3, <1>4, <1>5 DEF PipelineNext

\* The invariant says what a request meets.
LEMMA PipelineInvSays == PipelineIInv => PipelineTypeOK /\ RequestMeetsAll
<1> SUFFICES ASSUME PipelineIInv PROVE PipelineTypeOK /\ RequestMeetsAll
  OBVIOUS
<1>1. request.phase \in {"none", "pre", "next", "post", "error"}
  BY DEF PipelineIInv, PipelineTyped, RequestType
<1>2. PipelineTypeOK
  BY <1>1 DEF PipelineIInv, PipelineTyped, PipelineTypeOK, MiddlewareEntry
<1>3. RequestMeetsAll
  BY DEF PipelineIInv, MetSoFar, GoesDown, RequestMeetsAll
<1>4. QED
  BY <1>2, <1>3

\* A request meets every middleware that was there when it began, before the
\* operation and behind it, in the order of the entries (src/middleware/pipeline.ts:58).
THEOREM RequestsMeetAll == PipelineSpec => [](PipelineTypeOK /\ RequestMeetsAll)
<1>1. PipelineInit => PipelineIInv
  BY PipelineInvInit
<1>2. PipelineIInv /\ [PipelineNext]_pipelineVars => PipelineIInv'
  BY PipelineInvStep
<1>3. PipelineIInv => PipelineTypeOK /\ RequestMeetsAll
  BY PipelineInvSays
<1>4. QED
  BY <1>1, <1>2, <1>3, PTL DEF PipelineSpec

-----------------------------------------------------------------------------
(* PluginManager: an installed plugin is in each client, or on its way. *)

PluginTaskType ==
  [kind : {"none", "install", "clients", "uninstall", "apply"}, i : Nat, todo : SUBSET Nat,
   at : Nat]
Instances == 1..Len(pluginOf)

\* A task serves instances there are, and is at a client there is.
TaskInPlace(task) ==
  /\ task.kind \in {"install", "clients"} => task.i \in Instances
  /\ task.kind = "apply" => task.todo \subseteq Instances
  /\ task.kind \in {"clients", "apply"} => task.at \in 1..Len(clients)

\* The manager's clients are those given to applyToClient(), each once.
ClientsOnce ==
  /\ clients \in Seq(Clients)
  /\ \A j, k \in 1..Len(clients) : clients[j] = clients[k] => j = k
  /\ \A c \in Clients : applied[c] = "applied" <=> \E k \in 1..Len(clients) : clients[k] = c

\* Instance i has still to be given to client c in a task.
OnItsWay(task, i, c) ==
  \/ /\ task.kind = "clients" /\ task.i = i
     /\ \E k \in 1..Len(clients) : k >= task.at /\ clients[k] = c
  \/ task.kind = "apply" /\ i \in task.todo /\ clients[task.at] = c

PluginTyped ==
  /\ pluginOf \in Seq(Plugins) /\ registered \subseteq Instances /\ installed \subseteq Instances
  /\ applied \in [Clients -> {"none", "waiting", "applied"}]
  /\ served \in [Clients -> SUBSET Instances]
  /\ pluginTasks \in [PluginTasks -> PluginTaskType]
  /\ \A t \in PluginTasks : TaskInPlace(pluginTasks[t])

PluginIInv ==
  /\ PluginTyped /\ ClientsOnce
  /\ \A i \in registered \cap installed, c \in Clients :
       applied[c] = "applied" =>
         \/ i \in served[c] \/ <<i, c>> \in excused
         \/ \E t \in PluginTasks : OnItsWay(pluginTasks[t], i, c)

LEMMA NoTaskTyped == NoTask \in PluginTaskType /\ NoTask.kind = "none"
BY DEF NoTask, PluginTaskType

\* A step of task t that leaves instances and clients alone.
LEMMA TaskStep ==
  ASSUME PluginIInv, NEW t \in PluginTasks, NEW task \in PluginTaskType,
         pluginTasks' = [pluginTasks EXCEPT ![t] = task], TaskInPlace(task),
         pluginOf' = pluginOf, registered' \subseteq registered, installed' \subseteq Instances,
         clients' = clients, applied' = applied,
         served' \in [Clients -> SUBSET Instances],
         \A c \in Clients : served[c] \subseteq served'[c],
         excused \subseteq excused',
         \A i \in registered' \cap installed', c \in Clients :
           /\ applied[c] = "applied"
           /\ i \notin installed \/ OnItsWay(pluginTasks[t], i, c)
           => \/ i \in served'[c] \/ <<i, c>> \in excused' \/ OnItsWay(task, i, c)
  PROVE  PluginIInv'
<1>1. pluginTasks' \in [PluginTasks -> PluginTaskType] /\ pluginTasks'[t] = task
      /\ \A u \in PluginTasks : u # t => pluginTasks'[u] = pluginTasks[u]
  BY DEF PluginIInv, PluginTyped
<1>2. Len(clients') = Len(clients) /\ Instances' = Instances
  BY DEF Instances
<1>3. PluginTyped'
  <2>1. \A u \in PluginTasks : TaskInPlace(pluginTasks'[u])
    BY <1>1 DEF PluginIInv, PluginTyped
  <2>2. \A u \in PluginTasks : TaskInPlace(pluginTasks[u])'
    BY <1>2, <2>1 DEF TaskInPlace
  <2>3. QED
    BY <1>1, <1>2, <2>2 DEF PluginIInv, PluginTyped
<1>4. ClientsOnce'
  BY DEF PluginIInv, ClientsOnce
<1>5. ASSUME NEW i \in registered' \cap installed', NEW c \in Clients, applied[c] = "applied"
      PROVE  \/ i \in served'[c] \/ <<i, c>> \in excused'
             \/ \E u \in PluginTasks : OnItsWay(pluginTasks'[u], i, c)
  <2>1. CASE i \notin installed \/ OnItsWay(pluginTasks[t], i, c)
    BY <1>1, <1>5, <2>1
  <2>2. CASE i \in installed /\ ~OnItsWay(pluginTasks[t], i, c)
    <3>1. \/ i \in served[c] \/ <<i, c>> \in excused
          \/ \E u \in PluginTasks : OnItsWay(pluginTasks[u], i, c)
      BY <1>5, <2>2 DEF PluginIInv
    <3>2. QED
      BY <1>1, <2>2, <3>1
  <2>3. QED
    BY <2>1, <2>2
<1>6. \A u \in PluginTasks, i \in registered' \cap installed', c \in Clients :
        OnItsWay(pluginTasks'[u], i, c) => OnItsWay(pluginTasks[u], i, c)'
  BY DEF OnItsWay
<1>7. QED
  BY <1>3, <1>4, <1>5, <1>6 DEF PluginIInv

LEMMA RegisterKeeps ==
  ASSUME PluginIInv, NEW p \in Plugins, Register(p)
  PROVE  PluginIInv'
<1>1. /\ pluginOf \in Seq(Plugins) /\ pluginOf' = Append(pluginOf, p)
      /\ registered' = registered \cup {Len(pluginOf) + 1}
      /\ installed' = installed /\ clients' = clients /\ applied' = applied /\ served' = served
      /\ pluginTasks' = pluginTasks /\ excused' = excused
  BY DEF PluginIInv, PluginTyped, Register, fleet
<1>2. /\ pluginOf' \in Seq(Plugins) /\ Len(pluginOf') = Len(pluginOf) + 1 /\ Len(pluginOf) \in Nat
  BY <1>1
<1>3. Instances' = Instances \cup {Len(pluginOf) + 1} /\ Len(pluginOf) + 1 \notin Instances
  BY <1>2 DEF Instances
<1>4. PluginTyped'
  <2>1. \A t \in PluginTasks : TaskInPlace(pluginTasks[t])'
    BY <1>1, <1>3 DEF PluginIInv, PluginTyped, TaskInPlace
  <2>2. served' \in [Clients -> SUBSET Instances']
    BY <1>1, <1>3 DEF PluginIInv, PluginTyped
  <2>3. QED
    BY <1>1, <1>2, <1>3, <2>1, <2>2 DEF PluginIInv, PluginTyped
<1>5. registered' \cap installed' = registered \cap installed
  BY <1>1, <1>3 DEF PluginIInv, PluginTyped
<1>6. QED
  BY <1>1, <1>4, <1>5 DEF PluginIInv, ClientsOnce, OnItsWay

LEMMA UnregisterOnlyKeeps ==
  ASSUME PluginIInv, NEW p \in Plugins, UnregisterOnly(p)
  PROVE  PluginIInv'
<1>1. /\ registered' \subseteq registered /\ pluginOf' = pluginOf
      /\ installed' = installed /\ clients' = clients /\ applied' = applied /\ served' = served
      /\ pluginTasks' = pluginTasks /\ excused' = excused
  BY DEF UnregisterOnly, fleet
<1>2. QED
  BY <1>1 DEF PluginIInv, PluginTyped, Instances, TaskInPlace, ClientsOnce, OnItsWay

\* install() and uninstall() begin with a task that is free.
LEMMA InstallKeeps ==
  ASSUME PluginIInv, NEW t \in PluginTasks, NEW p \in Plugins, NEW u \in BOOLEAN,
         Install(t, p) \/ Uninstall(t, p, u)
  PROVE  PluginIInv'
<1>1. /\ Free(t) /\ registered' \subseteq registered /\ pluginOf' = pluginOf
      /\ installed' = installed /\ clients' = clients /\ applied' = applied /\ served' = served
      /\ excused' = excused
  BY DEF Install, Uninstall, registry, fleet
<1>2. PICK i \in registered, kind \in {"install", "uninstall"} :
        pluginTasks' = [pluginTasks EXCEPT ![t] = [NoTask EXCEPT !.kind = kind, !.i = i]]
  BY DEF Install, Uninstall, Current
<1> DEFINE task == [NoTask EXCEPT !.kind = kind, !.i = i]
<1>3. i \in Nat /\ i \in Instances
  BY DEF PluginIInv, PluginTyped, Instances
<1>4. task \in PluginTaskType /\ task.kind = kind /\ task.i = i
  BY <1>3 DEF NoTask, PluginTaskType
<1>5. pluginTasks' = [pluginTasks EXCEPT ![t] = task]
  BY <1>2
<1> HIDE DEF task
<1>6. TaskInPlace(task)
  BY <1>3, <1>4 DEF TaskInPlace
<1>7. \A j, c : ~OnItsWay(pluginTasks[t], j, c)
  BY <1>1 DEF OnItsWay, Free
<1>8. installed' \subseteq Instances /\ served' \in [Clients -> SUBSET Instances]
  BY <1>1 DEF PluginIInv, PluginTyped
<1>9. QED
  BY <1>1, <1>4, <1>5, <1>6, <1>7, <1>8, TaskStep

\* The hooks of an installation return: the task is at the next client.
LEMMA NextClientTask ==
  ASSUME PluginIInv, NEW t \in PluginTasks, NEW at \in Nat, at > 0,
         pluginTasks[t].kind \in {"install", "clients"}, NextClient(t, at)
  PROVE  \E task \in PluginTaskType :
           /\ pluginTasks' = [pluginTasks EXCEPT ![t] = task] /\ TaskInPlace(task)
           /\ \A k \in 1..Len(clients) :
                k >= at => OnItsWay(task, pluginTasks[t].i, clients[k])
<1>1. /\ pluginTasks[t] \in PluginTaskType /\ TaskInPlace(pluginTasks[t])
      /\ clients \in Seq(Clients) /\ Len(clients) \in Nat
      /\ t \in DOMAIN pluginTasks
  BY DEF PluginIInv, PluginTyped, ClientsOnce
<1>2. pluginTasks[t].i \in Instances
  BY <1>1 DEF TaskInPlace
<1>3. CASE at <= Len(clients)
  <2> DEFINE task == [pluginTasks[t] EXCEPT !.kind = "clients", !.at = at]
  <2>1. pluginTasks' = [pluginTasks EXCEPT ![t] = task]
    BY <1>1, <1>3 DEF NextClient
  <2>2. /\ task \in PluginTaskType /\ task.kind = "clients" /\ task.at = at
        /\ task.i = pluginTasks[t].i
    BY <1>1 DEF PluginTaskType
  <2> HIDE DEF task
  <2>3. at \in 1..Len(clients)
    BY <1>1, <1>3
  <2>4. TaskInPlace(task)
    BY <1>2, <2>2, <2>3 DEF TaskInPlace
  <2>5. \A k \in 1..Len(clients) :
          k >= at => OnItsWay(task, pluginTasks[t].i, clients[k])
    BY <2>2 DEF OnItsWay
  <2>6. QED
    BY <2>1, <2>2, <2>4, <2>5
<1>4. CASE ~(at <= Len(clients))
  <2>1. pluginTasks' = [pluginTasks EXCEPT ![t] = NoTask]
    BY <1>1, <1>4 DEF NextClient
  <2>2. TaskInPlace(NoTask)
    BY NoTaskTyped DEF TaskInPlace
  <2>3. \A k \in 1..Len(clients) : ~(k >= at)
    BY <1>1, <1>4
  <2>4. QED
    BY <2>1, <2>2, <2>3, NoTaskTyped
<1>5. QED
  BY <1>3, <1>4

LEMMA InstalledKeeps ==
  ASSUME PluginIInv, NEW t \in PluginTasks, Installed(t)
  PROVE  PluginIInv'
<1>1. /\ pluginTasks[t].kind = "install" /\ NextClient(t, 1)
      /\ installed' = installed \cup {pluginTasks[t].i}
      /\ pluginOf' = pluginOf /\ registered' = registered /\ clients' = clients
      /\ applied' = applied /\ served' = served /\ excused' = excused
  BY DEF Installed, fleet
<1>2. PICK task \in PluginTaskType :
        /\ pluginTasks' = [pluginTasks EXCEPT ![t] = task] /\ TaskInPlace(task)
        /\ \A k \in 1..Len(clients) : k >= 1 => OnItsWay(task, pluginTasks[t].i, clients[k])
  BY <1>1, NextClientTask
<1>3. /\ installed' \subseteq Instances /\ served' \in [Clients -> SUBSET Instances]
      /\ TaskInPlace(pluginTasks[t])
  BY <1>1 DEF PluginIInv, PluginTyped, TaskInPlace
<1>4. ASSUME NEW i \in registered' \cap installed', NEW c \in Clients, applied[c] = "applied",
             i \notin installed \/ OnItsWay(pluginTasks[t], i, c)
      PROVE  OnItsWay(task, i, c)
  <2>1. i = pluginTasks[t].i
    BY <1>1, <1>4 DEF OnItsWay
  <2>2. PICK k \in 1..Len(clients) : clients[k] = c
    BY <1>4 DEF PluginIInv, ClientsOnce
  <2>3. k >= 1
    BY <2>2
  <2>4. QED
    BY <1>2, <2>1, <2>2, <2>3
<1>5. QED
  BY <1>1, <1>2, <1>3, <1>4, TaskStep

\* Another instance is in a client.
LEMMA OneMoreServed ==
  ASSUME PluginIInv, NEW c \in Clients, NEW i \in Instances,
         served' = [served EXCEPT ![c] = served[c] \cup {i}]
  PROVE  /\ served' \in [Clients -> SUBSET Instances] /\ i \in served'[c]
         /\ \A d \in Clients : served[d] \subseteq served'[d]
<1>1. served \in [Clients -> SUBSET Instances]
  BY DEF PluginIInv, PluginTyped
<1>2. QED
  BY <1>1

LEMMA ClientServedKeeps ==
  ASSUME PluginIInv, NEW t \in PluginTasks, ClientServed(t)
  PROVE  PluginIInv'
<1> DEFINE at == pluginTasks[t].at
           i == pluginTasks[t].i
<1>1. /\ pluginTasks[t].kind = "clients" /\ NextClient(t, at + 1)
      /\ served' = [served EXCEPT ![clients[at]] = served[clients[at]] \cup {i}]
      /\ pluginOf' = pluginOf /\ registered' = registered /\ installed' = installed
      /\ clients' = clients /\ applied' = applied /\ excused' = excused
  <2>1. served \in [Clients -> SUBSET Instances]
    BY DEF PluginIInv, PluginTyped
  <2>2. QED
    BY <2>1 DEF ClientServed, registry, fleet
<1>2. /\ i \in Instances /\ at \in 1..Len(clients) /\ Len(clients) \in Nat
      /\ clients[at] \in Clients
      /\ \A j, k \in 1..Len(clients) : clients[j] = clients[k] => j = k
  <2>1. TaskInPlace(pluginTasks[t]) /\ clients \in Seq(Clients)
    BY DEF PluginIInv, PluginTyped, ClientsOnce
  <2>2. i \in Instances /\ at \in 1..Len(clients)
    BY <1>1, <2>1 DEF TaskInPlace
  <2>3. clients[at] \in Clients
    BY <2>1, <2>2
  <2>4. QED
    BY <2>1, <2>2, <2>3 DEF PluginIInv, ClientsOnce
<1>3. /\ served' \in [Clients -> SUBSET Instances] /\ i \in served'[clients[at]]
      /\ \A d \in Clients : served[d] \subseteq served'[d]
  BY <1>1, <1>2, OneMoreServed
<1>4. PICK task \in PluginTaskType :
        /\ pluginTasks' = [pluginTasks EXCEPT ![t] = task] /\ TaskInPlace(task)
        /\ \A k \in 1..Len(clients) : k >= at + 1 => OnItsWay(task, i, clients[k])
  <2>1. at + 1 \in Nat /\ at + 1 > 0
    BY <1>2
  <2>2. QED
    BY <1>1, <2>1, NextClientTask
<1>5. ASSUME NEW j \in registered' \cap installed', NEW c \in Clients,
             j \notin installed \/ OnItsWay(pluginTasks[t], j, c)
      PROVE  j \in served'[c] \/ OnItsWay(task, j, c)
  <2>1. j = i
    BY <1>1, <1>5 DEF OnItsWay
  <2>2. PICK k \in 1..Len(clients) : k >= at /\ clients[k] = c
    BY <1>1, <1>5 DEF OnItsWay
  <2>3. k = at \/ k >= at + 1
    BY <1>2, <2>2
  <2>4. QED
    BY <1>3, <1>4, <2>1, <2>2, <2>3
<1>6. installed' \subseteq Instances
  BY <1>1 DEF PluginIInv, PluginTyped
<1>7. QED
  BY <1>1, <1>3, <1>4, <1>5, <1>6, TaskStep

LEMMA UninstalledKeeps ==
  ASSUME PluginIInv, NEW t \in PluginTasks, Uninstalled(t)
  PROVE  PluginIInv'
<1>1. /\ pluginTasks[t].kind = "uninstall" /\ installed' \subseteq installed
      /\ pluginTasks' = [pluginTasks EXCEPT ![t] = NoTask]
      /\ pluginOf' = pluginOf /\ registered' = registered
      /\ clients' = clients /\ applied' = applied /\ served' = served /\ excused' = excused
  BY DEF Uninstalled, fleet
<1>2. /\ installed' \subseteq Instances /\ served' \in [Clients -> SUBSET Instances]
      /\ TaskInPlace(NoTask)
  BY <1>1, NoTaskTyped DEF PluginIInv, PluginTyped, TaskInPlace
<1>3. \A i, c : ~OnItsWay(pluginTasks[t], i, c)
  BY <1>1 DEF OnItsWay
<1>4. QED
  BY <1>1, <1>2, <1>3, NoTaskTyped, TaskStep

LEMMA PluginAppliedKeeps ==
  ASSUME PluginIInv, NEW t \in PluginTasks, PluginApplied(t)
  PROVE  PluginIInv'
<1> DEFINE at == pluginTasks[t].at
           todo == pluginTasks[t].todo
<1>1. /\ pluginTasks[t].kind = "apply" /\ pluginTasks[t] \in PluginTaskType
      /\ TaskInPlace(pluginTasks[t]) /\ served \in [Clients -> SUBSET Instances]
      /\ t \in DOMAIN pluginTasks
      /\ pluginOf' = pluginOf /\ registered' = registered /\ installed' = installed
      /\ clients' = clients /\ applied' = applied /\ excused' = excused
  BY DEF PluginApplied, registry, fleet, PluginIInv, PluginTyped
<1>2. PICK i \in todo :
        /\ served' = [served EXCEPT ![clients[at]] = served[clients[at]] \cup {i}]
        /\ todo = {i} => pluginTasks' = [pluginTasks EXCEPT ![t] = NoTask]
        /\ todo # {i} => pluginTasks' = [pluginTasks EXCEPT ![t] =
                                          [pluginTasks[t] EXCEPT !.todo = todo \ {i}]]
  <2>1. PICK i \in todo :
          /\ served' = [served EXCEPT ![clients[at]] = @ \cup {i}]
          /\ pluginTasks' = [pluginTasks EXCEPT ![t] =
               IF @.todo = {i} THEN NoTask
               ELSE [@ EXCEPT !.todo = pluginTasks[t].todo \ {i}]]
    BY DEF PluginApplied
  <2>2. served' = [served EXCEPT ![clients[at]] = served[clients[at]] \cup {i}]
    BY <2>1
  <2>3. ASSUME todo = {i} PROVE pluginTasks' = [pluginTasks EXCEPT ![t] = NoTask]
    BY <2>1, <2>3
  <2>4. ASSUME todo # {i}
        PROVE  pluginTasks' = [pluginTasks EXCEPT ![t] =
                                 [pluginTasks[t] EXCEPT !.todo = todo \ {i}]]
    BY <2>1, <2>4
  <2>5. QED
    BY <2>2, <2>3, <2>4
<1>3. at \in 1..Len(clients) /\ clients[at] \in Clients /\ todo \subseteq Instances
  <2>1. clients \in Seq(Clients)
    BY DEF PluginIInv, ClientsOnce
  <2>2. at \in 1..Len(clients) /\ todo \subseteq Instances
    BY <1>1 DEF TaskInPlace
  <2>3. QED
    BY <2>1, <2>2
<1>4. /\ served' \in [Clients -> SUBSET Instances] /\ i \in served'[clients[at]]
      /\ \A d \in Clients : served[d] \subseteq served'[d]
  BY <1>2, <1>3, OneMoreServed
<1>5. PICK task \in PluginTaskType :
        /\ pluginTasks' = [pluginTasks EXCEPT ![t] = task] /\ TaskInPlace(task)
        /\ \A j \in todo \ {i} : OnItsWay(task, j, clients[at])
  <2>1. CASE todo = {i}
    <3>1. TaskInPlace(NoTask)
      BY NoTaskTyped DEF TaskInPlace
    <3>2. QED
      BY <1>2, <2>1, <3>1, NoTaskTyped
  <2>2. CASE todo # {i}
    <3> DEFINE rest == [pluginTasks[t] EXCEPT !.todo = todo \ {i}]
    <3>1. /\ rest \in PluginTaskType /\ rest.kind = "apply" /\ rest.todo = todo \ {i}
          /\ rest.at = at
      BY <1>1 DEF PluginTaskType
    <3>2. pluginTasks' = [pluginTasks EXCEPT ![t] = rest]
      BY <1>2, <2>2
    <3> HIDE DEF rest
    <3>3. TaskInPlace(rest)
      BY <1>3, <3>1 DEF TaskInPlace
    <3>4. \A j \in todo \ {i} : OnItsWay(rest, j, clients[at])
      BY <3>1 DEF OnItsWay
    <3>5. QED
      BY <3>1, <3>2, <3>3, <3>4
  <2>3. QED
    BY <2>1, <2>2
<1>6. ASSUME NEW j \in registered' \cap installed', NEW c \in Clients,
             j \notin installed \/ OnItsWay(pluginTasks[t], j, c)
      PROVE  j \in served'[c] \/ OnItsWay(task, j, c)
  <2>1. j \in todo /\ c = clients[at]
    BY <1>1, <1>6 DEF OnItsWay
  <2>2. QED
    BY <1>4, <1>5, <2>1
<1>7. installed' \subseteq Instances
  BY <1>1 DEF PluginIInv, PluginTyped
<1>8. QED
  BY <1>1, <1>4, <1>5, <1>6, <1>7, TaskStep

LEMMA HookFailsKeeps ==
  ASSUME PluginIInv, NEW t \in PluginTasks, HookFails(t)
  PROVE  PluginIInv'
<1>1. /\ pluginTasks' = [pluginTasks EXCEPT ![t] = NoTask]
      /\ pluginOf' = pluginOf /\ registered' = registered /\ installed' = installed
      /\ clients' = clients /\ applied' = applied /\ served' = served
  BY DEF HookFails, registry, fleet
<1>2. /\ installed' \subseteq Instances /\ served' \in [Clients -> SUBSET Instances]
      /\ TaskInPlace(NoTask) /\ TaskInPlace(pluginTasks[t]) /\ clients \in Seq(Clients)
  BY <1>1, NoTaskTyped DEF PluginIInv, PluginTyped, TaskInPlace, ClientsOnce
<1>3. excused \subseteq excused'
  BY DEF HookFails
<1>4. ASSUME NEW i, NEW c, OnItsWay(pluginTasks[t], i, c)
      PROVE  <<i, c>> \in excused'
  <2>1. CASE pluginTasks[t].kind = "clients"
    <3>1. PICK k \in 1..Len(clients) :
            k >= pluginTasks[t].at /\ clients[k] = c /\ pluginTasks[t].i = i
      BY <1>4, <2>1 DEF OnItsWay
    <3>2. pluginTasks[t].at \in 1..Len(clients)
      BY <1>2, <2>1 DEF TaskInPlace
    <3>3. k \in pluginTasks[t].at..Len(clients)
      BY <1>2, <3>1, <3>2
    <3>4. excused' = excused \cup
            {<<pluginTasks[t].i, clients[n]>> : n \in pluginTasks[t].at..Len(clients)}
      BY <2>1 DEF HookFails
    <3>5. QED
      BY <3>1, <3>3, <3>4
  <2>2. CASE pluginTasks[t].kind = "apply"
    <3>1. i \in pluginTasks[t].todo /\ clients[pluginTasks[t].at] = c
      BY <1>4, <2>2 DEF OnItsWay
    <3>2. excused' = excused \cup
            {<<j, clients[pluginTasks[t].at]>> : j \in pluginTasks[t].todo}
      BY <2>2 DEF HookFails
    <3>3. QED
      BY <3>1, <3>2
  <2>3. QED
    BY <1>4, <2>1, <2>2 DEF OnItsWay
<1>5. QED
  BY <1>1, <1>2, <1>3, <1>4, NoTaskTyped, TaskStep

LEMMA ConstructKeeps ==
  ASSUME PluginIInv, NEW c \in Clients, NEW u \in BOOLEAN, ConstructClient(c, u)
  PROVE  PluginIInv'
<1>1. /\ applied[c] = "none" /\ applied' = [applied EXCEPT ![c] = "waiting"]
      /\ served' = [served EXCEPT ![c] = IF u THEN GetInstalled ELSE {}]
      /\ pluginOf' = pluginOf /\ registered' = registered /\ installed' = installed
      /\ clients' = clients /\ pluginTasks' = pluginTasks /\ excused' = excused
  BY DEF ConstructClient, registry
<1>2. /\ applied \in [Clients -> {"none", "waiting", "applied"}]
      /\ served \in [Clients -> SUBSET Instances] /\ installed \subseteq Instances
  BY DEF PluginIInv, PluginTyped
<1>3. /\ applied' \in [Clients -> {"none", "waiting", "applied"}]
      /\ served' \in [Clients -> SUBSET Instances]
      /\ \A d \in Clients : applied'[d] = "applied" <=> applied[d] = "applied"
      /\ \A d \in Clients : applied[d] = "applied" => served'[d] = served[d]
  BY <1>1, <1>2 DEF GetInstalled
<1>4. Instances' = Instances
  BY <1>1 DEF Instances
<1>5. PluginTyped'
  BY <1>1, <1>3, <1>4 DEF PluginIInv, PluginTyped, TaskInPlace
<1>6. ClientsOnce'
  BY <1>1, <1>3 DEF PluginIInv, ClientsOnce
<1>7. QED
  BY <1>1, <1>3, <1>5, <1>6 DEF PluginIInv, OnItsWay

LEMMA ApplyKeeps ==
  ASSUME PluginIInv, NEW t \in PluginTasks, NEW c \in Clients, ApplyToClient(t, c)
  PROVE  PluginIInv'
<1> DEFINE n == Len(clients)
           todo == registered \cap installed
           task == IF todo = {} THEN NoTask
                   ELSE [kind |-> "apply", i |-> 0, todo |-> todo, at |-> n + 1]
<1>1. /\ applied[c] = "waiting" /\ Free(t) /\ applied' = [applied EXCEPT ![c] = "applied"]
      /\ clients' = Append(clients, c) /\ pluginTasks' = [pluginTasks EXCEPT ![t] = task]
      /\ pluginOf' = pluginOf /\ registered' = registered /\ installed' = installed
      /\ served' = served /\ excused' = excused
  BY DEF ApplyToClient, registry, GetInstalled
<1>2. /\ clients \in Seq(Clients) /\ todo \subseteq Instances /\ Instances \subseteq Nat
      /\ applied \in [Clients -> {"none", "waiting", "applied"}]
      /\ pluginTasks \in [PluginTasks -> PluginTaskType]
      /\ \A j, k \in 1..n : clients[j] = clients[k] => j = k
      /\ \A d \in Clients : applied[d] = "applied" <=> \E k \in 1..n : clients[k] = d
  BY DEF PluginIInv, PluginTyped, ClientsOnce, Instances
<1>3. /\ n \in Nat /\ clients' \in Seq(Clients) /\ Len(clients') = n + 1
      /\ clients'[n + 1] = c /\ \A k \in 1..n : clients'[k] = clients[k]
  BY <1>1, <1>2
<1>4. /\ task \in PluginTaskType
      /\ todo # {} => task.kind = "apply" /\ task.todo = todo /\ task.at = n + 1
      /\ todo = {} => task.kind = "none"
  <2>1. CASE todo = {}
    BY <2>1, NoTaskTyped
  <2>2. CASE todo # {}
    <3>1. task = [kind |-> "apply", i |-> 0, todo |-> todo, at |-> n + 1]
      BY <2>2
    <3>2. todo \subseteq Nat
      BY <1>2
    <3>3. n + 1 \in Nat
      BY <1>3
    <3>4. QED
      BY <2>2, <3>1, <3>2, <3>3 DEF PluginTaskType
  <2>3. QED
    BY <2>1, <2>2
<1> HIDE DEF task, n
<1>5. /\ pluginTasks' \in [PluginTasks -> PluginTaskType] /\ pluginTasks'[t] = task
      /\ \A u \in PluginTasks : u # t => pluginTasks'[u] = pluginTasks[u]
  BY <1>1, <1>2, <1>4
<1>6. /\ applied' \in [Clients -> {"none", "waiting", "applied"}] /\ applied'[c] = "applied"
      /\ \A d \in Clients : d # c => applied'[d] = applied[d]
  BY <1>1, <1>2
<1>7. Instances' = Instances /\ 1..(n + 1) = (1..n) \cup {n + 1} /\ n + 1 \notin 1..n
  BY <1>1, <1>3 DEF Instances
<1>8. PluginTyped'
  <2>1. ASSUME NEW u \in PluginTasks PROVE TaskInPlace(pluginTasks[u])'
    <3>1. CASE u = t
      BY <1>2, <1>3, <1>4, <1>5, <1>7, <3>1 DEF TaskInPlace
    <3>2. CASE u # t
      <4>1. TaskInPlace(pluginTasks[u])
        BY DEF PluginIInv, PluginTyped
      <4>2. QED
        BY <1>3, <1>5, <1>7, <3>2, <4>1 DEF TaskInPlace, n
    <3>3. QED
      BY <3>1, <3>2
  <2>2. QED
    BY <1>1, <1>5, <1>6, <1>7, <2>1 DEF PluginIInv, PluginTyped
<1>9. ClientsOnce'
  <2>1. \A k \in 1..n : clients[k] # c
    BY <1>1, <1>2
  <2>2. \A j, k \in 1..(n + 1) : clients'[j] = clients'[k] => j = k
    BY <1>2, <1>3, <1>7, <2>1
  <2>3. \A d \in Clients : applied'[d] = "applied" <=> \E k \in 1..(n + 1) : clients'[k] = d
    <3>1. ASSUME NEW d \in Clients, d = c
          PROVE  applied'[d] = "applied" <=> \E k \in 1..(n + 1) : clients'[k] = d
      <4>1. applied'[d] = "applied"
        BY <1>6, <3>1
      <4>2. n + 1 \in 1..(n + 1) /\ clients'[n + 1] = d
        BY <1>3, <3>1
      <4>3. QED
        BY <4>1, <4>2
    <3>2. ASSUME NEW d \in Clients, d # c
          PROVE  applied'[d] = "applied" <=> \E k \in 1..(n + 1) : clients'[k] = d
      <4>1. applied'[d] = applied[d]
        BY <1>6, <3>2
      <4>2. ASSUME NEW k \in 1..(n + 1), clients'[k] = d PROVE \E j \in 1..n : clients[j] = d
        <5>1. k # n + 1
          BY <1>3, <3>2, <4>2
        <5>2. k \in 1..n
          BY <1>3, <5>1
        <5>3. QED
          BY <1>3, <4>2, <5>2
      <4>3. ASSUME NEW k \in 1..n, clients[k] = d PROVE \E j \in 1..(n + 1) : clients'[j] = d
        <5>1. k \in 1..(n + 1) /\ clients'[k] = d
          BY <1>3, <1>7, <4>3
        <5>2. QED
          BY <5>1
      <4>4. applied[d] = "applied" <=> \E k \in 1..n : clients[k] = d
        BY <1>2
      <4>5. QED
        BY <4>1, <4>2, <4>3, <4>4
    <3>3. QED
      BY <3>1, <3>2
  <2>4. QED
    BY <1>3, <2>2, <2>3 DEF ClientsOnce
<1>10. ASSUME NEW i \in registered' \cap installed', NEW d \in Clients, applied'[d] = "applied"
       PROVE  \/ i \in served'[d] \/ <<i, d>> \in excused'
              \/ \E u \in PluginTasks : OnItsWay(pluginTasks[u], i, d)'
  <2>1. CASE d = c
    <3>1. i \in todo
      BY <1>1
    <3>2. OnItsWay(pluginTasks[t], i, c)'
      BY <1>3, <1>4, <1>5, <3>1 DEF OnItsWay
    <3>3. QED
      BY <2>1, <3>2
  <2>2. CASE d # c
    <3>1. \/ i \in served[d] \/ <<i, d>> \in excused
          \/ \E u \in PluginTasks : OnItsWay(pluginTasks[u], i, d)
      BY <1>1, <1>6, <1>10, <2>2 DEF PluginIInv
    <3>2. ASSUME NEW u \in PluginTasks, OnItsWay(pluginTasks[u], i, d)
          PROVE  OnItsWay(pluginTasks[u], i, d)'
      <4>1. u # t
        BY <1>1, <3>2 DEF OnItsWay, Free
      <4>2. TaskInPlace(pluginTasks[u])
        BY DEF PluginIInv, PluginTyped
      <4>3. QED
        BY <1>3, <1>5, <1>7, <3>2, <4>1, <4>2 DEF OnItsWay, TaskInPlace, n
    <3>3. QED
      BY <1>1, <3>1, <3>2
  <2>3. QED
    BY <2>1, <2>2
<1>11. QED
  BY <1>8, <1>9, <1>10 DEF PluginIInv

\* At first nothing is installed and there is no client.
LEMMA PluginInvInit == PluginInit => PluginIInv
<1> SUFFICES ASSUME PluginInit PROVE PluginIInv
  OBVIOUS
<1>1. /\ pluginOf = <<>> /\ registered = {} /\ installed = {} /\ clients = <<>>
      /\ applied = [c \in Clients |-> "none"] /\ served = [c \in Clients |-> {}]
      /\ pluginTasks = [t \in PluginTasks |-> NoTask]
  BY DEF PluginInit
<1>2. Len(<<>>) = 0 /\ 1..0 = {} /\ \A S : <<>> \in Seq(S)
  OBVIOUS
<1>3. \A t \in PluginTasks : TaskInPlace(pluginTasks[t])
  BY <1>1, NoTaskTyped DEF TaskInPlace
<1>4. PluginTyped
  BY <1>1, <1>2, <1>3, NoTaskTyped DEF PluginTyped
<1>5. ClientsOnce
  BY <1>1, <1>2 DEF ClientsOnce
<1>6. QED
  BY <1>1, <1>4, <1>5 DEF PluginIInv

\* Every step of the plugin manager keeps the invariant.
LEMMA PluginInvStep == PluginIInv /\ [PluginNext]_pluginVars => PluginIInv'
<1> SUFFICES ASSUME PluginIInv, [PluginNext]_pluginVars PROVE PluginIInv'
  OBVIOUS
<1>1. CASE \E p \in Plugins : Register(p) \/ UnregisterOnly(p)
  BY <1>1, RegisterKeeps, UnregisterOnlyKeeps
<1>2. CASE \E t \in PluginTasks, p \in Plugins :
             Install(t, p) \/ \E u \in BOOLEAN : Uninstall(t, p, u)
  BY <1>2, InstallKeeps
<1>3. CASE \E t \in PluginTasks, c \in Clients : ApplyToClient(t, c)
  BY <1>3, ApplyKeeps
<1>4. CASE \E t \in PluginTasks : \/ Installed(t) \/ ClientServed(t) \/ Uninstalled(t)
                                  \/ PluginApplied(t) \/ HookFails(t)
  BY <1>4, InstalledKeeps, ClientServedKeeps, UninstalledKeeps, PluginAppliedKeeps,
     HookFailsKeeps
<1>5. CASE \E c \in Clients, u \in BOOLEAN : ConstructClient(c, u)
  BY <1>5, ConstructKeeps
<1>6. CASE UNCHANGED pluginVars
  <2>1. /\ pluginOf' = pluginOf /\ registered' = registered /\ installed' = installed
        /\ clients' = clients /\ applied' = applied /\ served' = served
        /\ pluginTasks' = pluginTasks /\ excused' = excused
    BY <1>6 DEF pluginVars
  <2>2. PluginTyped'
    BY <2>1 DEF PluginIInv, PluginTyped, Instances, TaskInPlace
  <2>3. ClientsOnce'
    BY <2>1 DEF PluginIInv, ClientsOnce
  <2>4. QED
    BY <2>1, <2>2, <2>3 DEF PluginIInv, OnItsWay
<1>7. QED
  BY <1>1, <1>2, <1>3, <1>4, <1>5, <1>6 DEF PluginNext

\* The invariant says which clients a plugin has reached.
LEMMA PluginInvSays == PluginIInv => PluginTypeOK /\ PluginsReachClients
<1> SUFFICES ASSUME PluginIInv PROVE PluginTypeOK /\ PluginsReachClients
  OBVIOUS
<1>1. DOMAIN pluginOf = Instances /\ DOMAIN clients = 1..Len(clients)
  BY DEF PluginIInv, PluginTyped, ClientsOnce, Instances
<1>2. IsInjective(clients)
  BY <1>1 DEF PluginIInv, ClientsOnce, IsInjective
<1>3. \A t \in PluginTasks :
        pluginTasks[t].kind \in {"none", "install", "clients", "uninstall", "apply"}
  BY DEF PluginIInv, PluginTyped, PluginTaskType
<1>4. PluginTypeOK
  BY <1>1, <1>2, <1>3 DEF PluginIInv, PluginTyped, ClientsOnce, PluginTypeOK
<1>5. PluginsReachClients
  BY DEF PluginIInv, PluginsReachClients, OnItsWay, Free
<1>6. QED
  BY <1>4, <1>5

\* However installations, removals and the construction of clients overlap, an
\* installed plugin comes to each client of the manager unless a hook failed
\* before it got there (src/plugin/pluginManager.ts:60).
THEOREM PluginsAreServed == PluginSpec => [](PluginTypeOK /\ PluginsReachClients)
<1>1. PluginInit => PluginIInv
  BY PluginInvInit
<1>2. PluginIInv /\ [PluginNext]_pluginVars => PluginIInv'
  BY PluginInvStep
<1>3. PluginIInv => PluginTypeOK /\ PluginsReachClients
  BY PluginInvSays
<1>4. QED
  BY <1>1, <1>2, <1>3, PTL DEF PluginSpec

-----------------------------------------------------------------------------
(* Registries: searches, the default, and descriptors. *)

\* A set of numbers has a smallest one.
LEMMA Smallest ==
  ASSUME NEW T \in SUBSET Nat, T # {}
  PROVE  \E n \in T : \A m \in T : n <= m
<1> DEFINE R == OpToRel(<, Nat)
<1>1. IsWellFoundedOn(R, Nat)
  BY NatLessThanWellFounded
<1>2. \A m, n \in Nat : <<m, n>> \in R <=> m < n
  BY DEF OpToRel
<1> HIDE DEF R
<1>3. PICK n \in T : \A m \in T : ~(<<m, n>> \in R)
  BY <1>1, WFMin
<1>4. \A m \in T : ~(m < n)
  BY <1>2, <1>3
<1>5. \A m \in T : n <= m
  BY <1>4
<1>6. QED
  BY <1>5

AdapterEntry == [name : AdapterNames, place : Nat, number : Nat, supports : BOOLEAN]

AdaptersTyped ==
  /\ IsFiniteSet(adapters) /\ adapters \subseteq AdapterEntry
  /\ \A entry \in adapters :
       entry.place > 0 /\ entry.place <= entry.number /\ entry.number <= registeredAdapters
  /\ defaultName \in AdapterNames \cup {NoAdapter}
  /\ registeredAdapters \in 0..MaxAdapters /\ unregistered \in 0..MaxUnregistered

\* No two entries have one place.
PlacesDiffer == \A a, b \in adapters : a.place = b.place => a = b

SearchType ==
  [stage : {"none", "asking", "over"}, asked : Nat, answers : BOOLEAN,
   throughout : SUBSET AdapterEntry, found : Nat]

\* The search has asked those in front of the entry it is at, and none of them
\* supports the contract; the answer it waits for is that of the entry it is at.
SearchSound(s) ==
  /\ s.stage = "asking" =>
       /\ s.found # 0
       /\ \A e \in s.throughout : e.place < s.asked => ~e.supports
       /\ \A e \in s.throughout : e.place = s.asked => e.supports = s.answers
  /\ s.stage = "over" =>
       /\ s.found # 0 => s.answers
       /\ \A e \in s.throughout : e.supports => s.found # 0 /\ e.place >= s.asked

\* Of the descriptors stored so far, the last under a key.
Stored(key) == {n \in DOMAIN described : key \in {described[n].type, described[n].id}}
LookupSound ==
  /\ \E n \in Nat : DOMAIN described = 1..n
  /\ \A n \in DOMAIN described : /\ described[n].type \in ContractTypes
                                 /\ described[n].id \in DescriptorIds \cup {NoAdapter}
  /\ descriptors = [key \in DOMAIN descriptors |-> descriptors[key]]
  /\ \A key \in DescriptorIds \cup ContractTypes :
       /\ key \in DOMAIN descriptors <=> Stored(key) # {}
       /\ key \in DOMAIN descriptors =>
            descriptors[key] \in Stored(key) /\ \A n \in Stored(key) : n <= descriptors[key]

RegistryIInv ==
  /\ AdaptersTyped /\ PlacesDiffer
  /\ search \in SearchType /\ search.throughout \subseteq adapters /\ SearchSound(search)
  /\ DefaultIsRegistered /\ LookupSound

\* An adapter leaves what the search has seen all along when it is replaced or
\* unregistered; the search stays sound.
LEMMA StillSound ==
  ASSUME RegistryIInv, search' = [search EXCEPT !.throughout = search.throughout \cap adapters']
  PROVE  /\ search' \in SearchType /\ search'.throughout \subseteq adapters'
         /\ SearchSound(search')
<1>1. search \in SearchType /\ SearchSound(search)
  BY DEF RegistryIInv
<1>2. /\ search' \in SearchType
      /\ search'.throughout = search.throughout \cap adapters' /\ search'.stage = search.stage
      /\ search'.asked = search.asked /\ search'.answers = search.answers
      /\ search'.found = search.found
  BY <1>1 DEF SearchType
<1>3. QED
  BY <1>1, <1>2 DEF SearchSound

\* The next entry of the Map is asked.
LEMMA NextAsked ==
  ASSUME RegistryIInv, NEW s \in SearchType, s.throughout \subseteq adapters,
         \A e \in s.throughout : e.place <= s.asked => ~e.supports
  PROVE  /\ AskNext(s, adapters) \in SearchType
         /\ AskNext(s, adapters).throughout = s.throughout
         /\ SearchSound(AskNext(s, adapters))
<1> DEFINE behind == After(adapters, s.asked)
           t == AskNext(s, adapters)
<1>1. /\ adapters \subseteq AdapterEntry /\ s.asked \in Nat
      /\ \A e \in adapters : e.place \in Nat /\ e.number \in Nat /\ e.supports \in BOOLEAN
      /\ \A e \in adapters : e.number # 0
  <2>1. adapters \subseteq AdapterEntry /\ s.asked \in Nat
    BY DEF RegistryIInv, AdaptersTyped, SearchType
  <2>2. \A e \in adapters : e.place \in Nat /\ e.number \in Nat /\ e.supports \in BOOLEAN
    BY <2>1 DEF AdapterEntry
  <2>3. \A e \in adapters : e.number # 0
    BY <2>2 DEF RegistryIInv, AdaptersTyped
  <2>4. QED
    BY <2>1, <2>2, <2>3
<1>2. behind \subseteq adapters /\ \A e \in adapters : e \in behind <=> e.place > s.asked
  BY DEF After
<1>3. CASE behind = {}
  <2>1. t = [s EXCEPT !.stage = "over", !.found = 0]
    BY <1>3 DEF AskNext
  <2> HIDE DEF t
  <2>2. /\ t \in SearchType /\ t.throughout = s.throughout /\ t.stage = "over" /\ t.found = 0
    BY <2>1 DEF SearchType
  <2>3. \A e \in t.throughout : ~e.supports
    BY <1>1, <1>2, <1>3, <2>2
  <2>4. SearchSound(t)
    BY <2>2, <2>3 DEF SearchSound
  <2>5. QED
    BY <2>2, <2>4 DEF t
<1>4. CASE behind # {}
  <2>1. \E next \in behind : \A other \in behind : next.place <= other.place
    <3> DEFINE T == {e.place : e \in behind}
    <3>1. T \in SUBSET Nat /\ T # {}
      BY <1>1, <1>2, <1>4
    <3> HIDE DEF T
    <3>2. PICK n \in T : \A m \in T : n <= m
      BY <3>1, Smallest
    <3>3. QED
      BY <3>2 DEF T
  <2> DEFINE next == CHOOSE entry \in behind : \A other \in behind : entry.place <= other.place
  <2>2. next \in behind /\ \A other \in behind : next.place <= other.place
    BY <2>1
  <2>3. t = [s EXCEPT !.stage = "asking", !.asked = next.place, !.answers = next.supports,
                      !.found = next.number]
    BY <1>4 DEF AskNext
  <2> HIDE DEF next, t, behind
  <2>4. /\ next \in adapters /\ next.place \in Nat /\ next.number \in Nat
        /\ next.supports \in BOOLEAN /\ next.number # 0
    BY <1>1, <1>2, <2>2
  <2>5. t \in SearchType
    BY <2>3, <2>4 DEF SearchType
  <2>6. /\ t.stage = "asking" /\ t.asked = next.place /\ t.answers = next.supports
        /\ t.found = next.number /\ t.throughout = s.throughout
    BY <2>3 DEF SearchType
  <2>7. ASSUME NEW e \in s.throughout, e.place < next.place PROVE ~e.supports
    <3>1. e \in adapters /\ ~(next.place <= e.place)
      BY <1>1, <2>4, <2>7
    <3>2. e \notin behind
      BY <2>2, <3>1
    <3>3. e.place <= s.asked
      BY <1>1, <1>2, <3>1, <3>2
    <3>4. QED
      BY <3>3
  <2>8. ASSUME NEW e \in s.throughout, e.place = next.place PROVE e.supports = next.supports
    BY <2>4, <2>8 DEF RegistryIInv, PlacesDiffer
  <2>9. SearchSound(t)
    BY <2>4, <2>6, <2>7, <2>8 DEF SearchSound
  <2>10. QED
    BY <2>5, <2>6, <2>9 DEF t
<1>5. QED
  BY <1>3, <1>4

LEMMA RegisterAdapterKeeps ==
  ASSUME RegistryIInv, NEW name \in AdapterNames, NEW supports \in BOOLEAN,
         RegisterAdapter(name, supports)
  PROVE  RegistryIInv'
<1> DEFINE before == {entry \in adapters : entry.name = name}
           place == IF before = {} THEN registeredAdapters + 1
                    ELSE (CHOOSE entry \in before : TRUE).place
           new == [name |-> name, place |-> place, number |-> registeredAdapters + 1,
                   supports |-> supports]
<1>1. /\ registeredAdapters < MaxAdapters /\ registeredAdapters' = registeredAdapters + 1
      /\ adapters' = (adapters \ before) \cup {new}
      /\ search' = [search EXCEPT !.throughout = search.throughout \cap adapters']
      /\ defaultName' = IF defaultName = NoAdapter THEN name ELSE defaultName
      /\ unregistered' = unregistered /\ descriptors' = descriptors /\ described' = described
  BY DEF RegisterAdapter, Still, descriptorVars
<1>2. /\ IsFiniteSet(adapters) /\ adapters \subseteq AdapterEntry
      /\ registeredAdapters \in Nat /\ MaxAdapters \in Nat
      /\ \A e \in adapters : /\ e.place \in Nat /\ e.number \in Nat /\ e.place > 0
                             /\ e.place <= e.number /\ e.number <= registeredAdapters
      /\ \A e \in adapters : e.name \in AdapterNames
  <2>1. /\ IsFiniteSet(adapters) /\ adapters \subseteq AdapterEntry
        /\ registeredAdapters \in Nat /\ MaxAdapters \in Nat
    BY RegistryAssumption DEF RegistryIInv, AdaptersTyped, RegistryAssumption
  <2>2. \A e \in adapters : e.place \in Nat /\ e.number \in Nat /\ e.name \in AdapterNames
    BY <2>1 DEF AdapterEntry
  <2>3. QED
    BY <2>1, <2>2 DEF RegistryIInv, AdaptersTyped
<1>3. \/ before = {} /\ place = registeredAdapters + 1
      \/ \E old \in before : place = old.place
  <2>1. CASE before = {}
    BY <2>1
  <2>2. CASE before # {}
    BY <2>2
  <2>3. QED
    BY <2>1, <2>2
<1>4. \A e \in before : e \in adapters
  OBVIOUS
<1> HIDE DEF before, place
<1>5. place \in Nat /\ place > 0 /\ place <= registeredAdapters + 1
  BY <1>2, <1>3, <1>4
<1>6. /\ new \in AdapterEntry /\ new.place = place /\ new.number = registeredAdapters + 1
      /\ new.name = name
  BY <1>2, <1>5 DEF AdapterEntry
<1> HIDE DEF new
<1>7. \A e \in adapters \ before : e.place # place
  <2>1. CASE place = registeredAdapters + 1
    BY <1>2, <2>1
  <2>2. CASE \E old \in before : place = old.place
    BY <1>4, <2>2 DEF RegistryIInv, PlacesDiffer
  <2>3. QED
    BY <1>3, <2>1, <2>2
<1>8. AdaptersTyped'
  <2>1. IsFiniteSet(adapters')
    <3>1. IsFiniteSet(adapters \ before)
      BY <1>2, FS_Difference
    <3>2. QED
      BY <1>1, <3>1, FS_AddElement
  <2>2. \A e \in adapters' :
          e.place > 0 /\ e.place <= e.number /\ e.number <= registeredAdapters + 1
    BY <1>1, <1>2, <1>5, <1>6
  <2>3. defaultName' \in AdapterNames \cup {NoAdapter}
    BY <1>1 DEF RegistryIInv, AdaptersTyped
  <2>4. registeredAdapters' \in 0..MaxAdapters
    BY <1>1, <1>2
  <2>5. QED
    BY <1>1, <1>2, <1>6, <2>1, <2>2, <2>3, <2>4 DEF RegistryIInv, AdaptersTyped
<1>9. PlacesDiffer'
  BY <1>1, <1>6, <1>7 DEF RegistryIInv, PlacesDiffer
<1>10. DefaultIsRegistered'
  <2>1. Names' = Names \cup {name}
    <3>1. \A e \in before : e.name = name
      BY DEF before
    <3>2. QED
      BY <1>1, <1>4, <1>6, <3>1 DEF Names
  <2>2. name # NoAdapter
    BY RegistryAssumption DEF RegistryAssumption
  <2>3. QED
    BY <1>1, <2>1, <2>2 DEF RegistryIInv, DefaultIsRegistered
<1>11. LookupSound'
  BY <1>1 DEF RegistryIInv, LookupSound, Stored
<1>12. QED
  BY <1>1, <1>8, <1>9, <1>10, <1>11, StillSound DEF RegistryIInv

LEMMA UnregisterAdapterKeeps ==
  ASSUME RegistryIInv, NEW name \in AdapterNames, UnregisterAdapter(name)
  PROVE  RegistryIInv'
<1>1. /\ unregistered < MaxUnregistered /\ unregistered' = unregistered + 1
      /\ adapters' = {entry \in adapters : entry.name # name}
      /\ search' = [search EXCEPT !.throughout = search.throughout \cap adapters']
      /\ defaultName' = IF defaultName = name THEN NoAdapter ELSE defaultName
      /\ registeredAdapters' = registeredAdapters
      /\ descriptors' = descriptors /\ described' = described
  BY DEF UnregisterAdapter, Still, DefaultWithout, descriptorVars
<1>2. /\ unregistered \in Nat /\ MaxUnregistered \in Nat /\ IsFiniteSet(adapters')
  <2>1. IsFiniteSet(adapters')
    BY <1>1, FS_Subset DEF RegistryIInv, AdaptersTyped
  <2>2. QED
    BY <2>1, RegistryAssumption DEF RegistryIInv, AdaptersTyped, RegistryAssumption
<1>3. AdaptersTyped'
  <2>1. unregistered' \in 0..MaxUnregistered
    BY <1>1, <1>2
  <2>2. defaultName' \in AdapterNames \cup {NoAdapter}
    BY <1>1 DEF RegistryIInv, AdaptersTyped
  <2>3. QED
    BY <1>1, <1>2, <2>1, <2>2 DEF RegistryIInv, AdaptersTyped
<1>4. PlacesDiffer'
  BY <1>1 DEF RegistryIInv, PlacesDiffer
<1>5. DefaultIsRegistered'
  <2>1. unregistered' > 0
    BY <1>1, <1>2
  <2>2. \A n : n \in Names /\ n # name => n \in Names'
    BY <1>1 DEF Names
  <2>3. QED
    BY <1>1, <2>1, <2>2 DEF RegistryIInv, DefaultIsRegistered
<1>6. LookupSound'
  BY <1>1 DEF RegistryIInv, LookupSound, Stored
<1>7. QED
  BY <1>1, <1>3, <1>4, <1>5, <1>6, StillSound DEF RegistryIInv

LEMMA SetDefaultKeeps ==
  ASSUME RegistryIInv, NEW name \in AdapterNames, SetDefault(name)
  PROVE  RegistryIInv'
<1>1. /\ name \in Names /\ defaultName' = name
      /\ adapters' = adapters /\ registeredAdapters' = registeredAdapters
      /\ unregistered' = unregistered /\ search' = search
      /\ descriptors' = descriptors /\ described' = described
  BY DEF SetDefault, descriptorVars
<1>2. DefaultIsRegistered'
  <2>1. name # NoAdapter
    BY RegistryAssumption DEF RegistryAssumption
  <2>2. QED
    BY <1>1, <2>1 DEF DefaultIsRegistered, Names
<1>3. AdaptersTyped' /\ PlacesDiffer' /\ LookupSound'
  BY <1>1 DEF RegistryIInv, AdaptersTyped, PlacesDiffer, LookupSound, Stored
<1>4. QED
  BY <1>1, <1>2, <1>3 DEF RegistryIInv

LEMMA SearchKeeps ==
  ASSUME RegistryIInv, StartSearch \/ SupportsAnswers
  PROVE  RegistryIInv'
<1>1. /\ adapters' = adapters /\ registeredAdapters' = registeredAdapters
      /\ unregistered' = unregistered /\ defaultName' = defaultName
      /\ descriptors' = descriptors /\ described' = described
  BY DEF StartSearch, SupportsAnswers, descriptorVars
<1>2. AdaptersTyped' /\ PlacesDiffer' /\ LookupSound' /\ DefaultIsRegistered'
  BY <1>1 DEF RegistryIInv, AdaptersTyped, PlacesDiffer, LookupSound, Stored,
              DefaultIsRegistered, Names
<1>3. search' \in SearchType /\ search'.throughout \subseteq adapters /\ SearchSound(search')
  <2>1. CASE StartSearch
    <3> DEFINE s == [NoSearch EXCEPT !.throughout = adapters]
    <3>1. search' = AskNext(s, adapters)
      BY <2>1 DEF StartSearch
    <3>2. s \in SearchType /\ s.throughout = adapters /\ s.asked = 0
      BY DEF NoSearch, SearchType, RegistryIInv, AdaptersTyped
    <3> HIDE DEF s
    <3>3. \A e \in s.throughout : ~(e.place <= s.asked)
      <4>1. \A e \in adapters : e.place \in Nat /\ e.place > 0
        BY DEF RegistryIInv, AdaptersTyped, AdapterEntry
      <4>2. QED
        BY <3>2, <4>1
    <3>4. QED
      BY <3>1, <3>2, <3>3, NextAsked
  <2>2. CASE SupportsAnswers
    <3>1. /\ search.stage = "asking" /\ search \in SearchType
          /\ search.throughout \subseteq adapters /\ SearchSound(search)
      BY <2>2 DEF SupportsAnswers, RegistryIInv
    <3>2. /\ search.asked \in Nat
          /\ \A e \in search.throughout : e.place \in Nat
      BY <3>1 DEF SearchType, AdapterEntry
    <3>3. CASE search.answers
      <4>1. search' = [search EXCEPT !.stage = "over"]
        BY <2>2, <3>3 DEF SupportsAnswers
      <4>2. /\ search' \in SearchType /\ search'.stage = "over" /\ search'.asked = search.asked
            /\ search'.answers = search.answers /\ search'.found = search.found
            /\ search'.throughout = search.throughout
        BY <3>1, <4>1 DEF SearchType
      <4>3. \A e \in search.throughout : e.supports => e.place >= search.asked
        BY <3>1, <3>2 DEF SearchSound
      <4>4. SearchSound(search')
        BY <3>1, <3>3, <4>2, <4>3 DEF SearchSound
      <4>5. QED
        BY <3>1, <4>2, <4>4
    <3>4. CASE ~search.answers
      <4>1. search' = AskNext(search, adapters)
        BY <2>2, <3>4 DEF SupportsAnswers
      <4>2. \A e \in search.throughout : e.place <= search.asked => ~e.supports
        BY <3>1, <3>2, <3>4 DEF SearchSound
      <4>3. QED
        BY <3>1, <4>1, <4>2, NextAsked
    <3>5. QED
      BY <3>3, <3>4
  <2>3. QED
    BY <2>1, <2>2
<1>4. QED
  BY <1>1, <1>2, <1>3 DEF RegistryIInv

LEMMA RegisterDescriptorKeeps ==
  ASSUME RegistryIInv, NEW type \in ContractTypes, NEW id \in DescriptorIds \cup {NoAdapter},
         RegisterDescriptor([type |-> type, id |-> id])
  PROVE  RegistryIInv'
<1> DEFINE d == [type |-> type, id |-> id]
           number == Cardinality(DOMAIN described) + 1
<1>1. /\ described' = [m \in 1..number |-> IF m = number THEN d ELSE described[m]]
      /\ descriptors' = [key \in DOMAIN descriptors \cup StoredUnder(d) |->
                           IF key \in StoredUnder(d) THEN number ELSE descriptors[key]]
      /\ adapters' = adapters /\ registeredAdapters' = registeredAdapters
      /\ unregistered' = unregistered /\ defaultName' = defaultName /\ search' = search
  BY DEF RegisterDescriptor, adapterVars
<1>2. PICK n \in Nat : DOMAIN described = 1..n
  BY DEF RegistryIInv, LookupSound
<1>3. number = n + 1
  <2>1. 1 \in Int /\ n \in Int
    OBVIOUS
  <2>2. Cardinality(1..n) = IF 1 > n THEN 0 ELSE n - 1 + 1
    BY <2>1, FS_Interval
  <2>3. Cardinality(1..n) = n
    BY <2>2
  <2>4. QED
    BY <1>2, <2>3
<1>4. d.type = type /\ d.id = id
  OBVIOUS
<1> HIDE DEF d, number
<1>5. /\ DOMAIN described' = 1..(n + 1) /\ described'[n + 1] = d
      /\ \A m \in 1..n : described'[m] = described[m]
      /\ 1..(n + 1) = (1..n) \cup {n + 1} /\ n + 1 \notin 1..n /\ \A m \in 1..n : m <= n + 1
  <2>1. 1..(n + 1) = (1..n) \cup {n + 1} /\ n + 1 \notin 1..n /\ \A m \in 1..n : m <= n + 1
    OBVIOUS
  <2>2. described' = [m \in 1..(n + 1) |-> IF m = n + 1 THEN d ELSE described[m]]
    BY <1>1, <1>3
  <2>3. QED
    BY <2>1, <2>2
<1>6. ASSUME NEW key \in DescriptorIds \cup ContractTypes
      PROVE  key \in StoredUnder(d) <=> key \in {d.type, d.id}
  BY <1>4, <1>6, RegistryAssumption DEF RegistryAssumption, StoredUnder
<1>7. ASSUME NEW key \in DescriptorIds \cup ContractTypes
      PROVE  Stored(key)' = Stored(key) \cup (IF key \in {d.type, d.id} THEN {n + 1} ELSE {})
  BY <1>2, <1>5 DEF Stored
<1>8. LookupSound'
  <2>1. \A m \in DOMAIN described' : /\ described'[m].type \in ContractTypes
                                     /\ described'[m].id \in DescriptorIds \cup {NoAdapter}
    BY <1>2, <1>4, <1>5 DEF RegistryIInv, LookupSound
  <2>2. /\ DOMAIN descriptors' = DOMAIN descriptors \cup StoredUnder(d)
        /\ \A key \in StoredUnder(d) : descriptors'[key] = n + 1
        /\ \A key \in DOMAIN descriptors \ StoredUnder(d) : descriptors'[key] = descriptors[key]
        /\ descriptors' = [key \in DOMAIN descriptors' |-> descriptors'[key]]
    BY <1>1, <1>3
  <2>3. ASSUME NEW key \in DescriptorIds \cup ContractTypes
        PROVE  /\ key \in DOMAIN descriptors' <=> Stored(key)' # {}
               /\ key \in DOMAIN descriptors' =>
                    /\ descriptors'[key] \in Stored(key)'
                    /\ \A m \in Stored(key)' : m <= descriptors'[key]
    <3>1. /\ key \in DOMAIN descriptors <=> Stored(key) # {}
          /\ key \in DOMAIN descriptors =>
               descriptors[key] \in Stored(key) /\ \A m \in Stored(key) : m <= descriptors[key]
          /\ Stored(key) \subseteq 1..n
      BY <1>2 DEF RegistryIInv, LookupSound, Stored
    <3>2. CASE key \in {d.type, d.id}
      <4>1. Stored(key)' = Stored(key) \cup {n + 1} /\ key \in StoredUnder(d)
        BY <1>6, <1>7, <3>2
      <4>2. \A m \in Stored(key)' : m <= n + 1
        BY <1>5, <3>1, <4>1
      <4>3. QED
        BY <2>2, <4>1, <4>2
    <3>3. CASE key \notin {d.type, d.id}
      <4>1. Stored(key)' = Stored(key) /\ key \notin StoredUnder(d)
        BY <1>6, <1>7, <3>3
      <4>2. QED
        BY <2>2, <3>1, <4>1
    <3>4. QED
      BY <3>2, <3>3
  <2>4. n + 1 \in Nat
    OBVIOUS
  <2>5. QED
    BY <1>5, <2>1, <2>2, <2>3, <2>4 DEF LookupSound
<1>9. AdaptersTyped' /\ PlacesDiffer' /\ DefaultIsRegistered'
  BY <1>1 DEF RegistryIInv, AdaptersTyped, PlacesDiffer, DefaultIsRegistered, Names
<1>10. QED
  BY <1>1, <1>8, <1>9 DEF RegistryIInv

\* At first nothing is registered.
LEMMA RegistryInvInit == RegistryInit => RegistryIInv
<1> SUFFICES ASSUME RegistryInit PROVE RegistryIInv
  OBVIOUS
<1>1. /\ adapters = {} /\ defaultName = Configured /\ registeredAdapters = 0
      /\ unregistered = 0 /\ search = NoSearch
      /\ descriptors = [key \in {} |-> 0] /\ described = <<>>
  BY DEF RegistryInit
<1>2. AdaptersTyped
  BY <1>1, FS_EmptySet, RegistryAssumption DEF AdaptersTyped, RegistryAssumption
<1>3. /\ search \in SearchType /\ search.throughout = {} /\ search.stage = "none"
  BY <1>1 DEF NoSearch, SearchType
<1>4. SearchSound(search)
  BY <1>3 DEF SearchSound
<1>5. DefaultIsRegistered
  BY <1>1 DEF DefaultIsRegistered
<1>6. LookupSound
  <2>1. DOMAIN described = 1..0 /\ 1..0 = {} /\ 0 \in Nat
    BY <1>1
  <2>2. \A key : Stored(key) = {} /\ key \notin DOMAIN descriptors
    BY <1>1, <2>1 DEF Stored
  <2>3. descriptors = [key \in DOMAIN descriptors |-> descriptors[key]]
    BY <1>1
  <2>4. QED
    BY <2>1, <2>2, <2>3 DEF LookupSound
<1>7. QED
  BY <1>1, <1>2, <1>3, <1>4, <1>5, <1>6 DEF RegistryIInv, PlacesDiffer

\* Every call of the registries keeps the invariant.
LEMMA RegistryInvStep == RegistryIInv /\ [RegistryNext]_registryVars => RegistryIInv'
<1> SUFFICES ASSUME RegistryIInv, [RegistryNext]_registryVars PROVE RegistryIInv'
  OBVIOUS
<1>1. CASE \E name \in AdapterNames :
             \/ \E supports \in BOOLEAN : RegisterAdapter(name, supports)
             \/ UnregisterAdapter(name) \/ SetDefault(name)
  BY <1>1, RegisterAdapterKeeps, UnregisterAdapterKeeps, SetDefaultKeeps
<1>2. CASE StartSearch \/ SupportsAnswers
  BY <1>2, SearchKeeps
<1>3. CASE DescriptorNext
  BY <1>3, RegisterDescriptorKeeps DEF DescriptorNext
<1>4. CASE UNCHANGED registryVars
  <2>1. /\ adapters' = adapters /\ registeredAdapters' = registeredAdapters
        /\ unregistered' = unregistered /\ defaultName' = defaultName /\ search' = search
        /\ descriptors' = descriptors /\ described' = described
    BY <1>4 DEF registryVars
  <2>2. AdaptersTyped' /\ PlacesDiffer' /\ LookupSound' /\ DefaultIsRegistered'
    BY <2>1 DEF RegistryIInv, AdaptersTyped, PlacesDiffer, LookupSound, Stored,
                DefaultIsRegistered, Names
  <2>3. QED
    BY <2>1, <2>2 DEF RegistryIInv
<1>5. QED
  BY <1>1, <1>2, <1>3, <1>4 DEF RegistryNext, AdapterNext

\* The invariant says what searches and lookups find.
LEMMA RegistryInvSays == RegistryIInv => RegistryTypeOK /\ RegistriesTellTruth
<1> SUFFICES ASSUME RegistryIInv PROVE RegistryTypeOK /\ RegistriesTellTruth
  OBVIOUS
<1>1. RegistryTypeOK
  <2>1. registeredAdapters \in Nat /\ adapters \subseteq AdapterEntry
    BY RegistryAssumption DEF RegistryIInv, AdaptersTyped, RegistryAssumption
  <2>2. ASSUME NEW e \in adapters
        PROVE  /\ e.name \in AdapterNames /\ e.supports \in BOOLEAN
               /\ e.place \in 1..e.number /\ e.number \in 1..registeredAdapters
    <3>1. /\ e.name \in AdapterNames /\ e.supports \in BOOLEAN /\ e.place \in Nat
          /\ e.number \in Nat
      BY <2>1 DEF AdapterEntry
    <3>2. e.place > 0 /\ e.place <= e.number /\ e.number <= registeredAdapters
      BY DEF RegistryIInv, AdaptersTyped
    <3>3. QED
      BY <2>1, <3>1, <3>2
  <2>3. search.stage \in {"none", "asking", "over"}
    BY DEF RegistryIInv, SearchType
  <2>4. QED
    BY <2>2, <2>3 DEF RegistryIInv, AdaptersTyped, LookupSound, RegistryTypeOK
<1>2. SearchPassesOverNone
  BY DEF RegistryIInv, SearchSound, SearchPassesOverNone
<1>3. LookupFindsLatest
  <2>1. ASSUME NEW key \in DescriptorIds \cup ContractTypes, key \in DOMAIN descriptors
        PROVE  descriptors[key] = Max(Stored(key))
    <3>1. /\ descriptors[key] \in Stored(key)
          /\ \A n \in Stored(key) : n <= descriptors[key]
      BY <2>1 DEF RegistryIInv, LookupSound
    <3>2. Stored(key) \subseteq Nat
      BY DEF RegistryIInv, LookupSound, Stored
    <3>3. Max(Stored(key)) = CHOOSE n \in Stored(key) : \A m \in Stored(key) : n >= m
      BY DEF Max
    <3>4. \A n \in Stored(key) : (\A m \in Stored(key) : n >= m) <=> n = descriptors[key]
      BY <3>1, <3>2
    <3>5. QED
      BY <3>1, <3>3, <3>4
  <2>2. QED
    BY <2>1 DEF RegistryIInv, LookupSound, LookupFindsLatest, Stored
<1>4. QED
  BY <1>1, <1>2, <1>3 DEF RegistryIInv, RegistriesTellTruth

\* A search passes over no adapter that was registered all along, the default is
\* registered, configured or none, and a lookup finds what was registered last
\* (src/adapters/adapterRegistry.ts:33, src/registry/capabilityRegistry.ts:26).
THEOREM RegistriesCorrect == RegistrySpec => [](RegistryTypeOK /\ RegistriesTellTruth)
<1>1. RegistryInit => RegistryIInv
  BY RegistryInvInit
<1>2. RegistryIInv /\ [RegistryNext]_registryVars => RegistryIInv'
  BY RegistryInvStep
<1>3. RegistryIInv => RegistryTypeOK /\ RegistriesTellTruth
  BY RegistryInvSays
<1>4. QED
  BY <1>1, <1>2, <1>3, PTL DEF RegistrySpec

-----------------------------------------------------------------------------
(* Migrations: the search for a chain of steps *)

\* A set of numbers that holds 0, and with a number the next, holds all.
LEMMA SetInduction ==
  ASSUME NEW T, 0 \in T, \A n \in Nat : n \in T => n + 1 \in T
  PROVE  Nat \subseteq T
<1> SUFFICES ASSUME Nat \ T # {} PROVE FALSE
  OBVIOUS
<1>1. PICK n \in Nat \ T : \A m \in Nat \ T : n <= m
  BY Smallest
<1>2. n # 0 /\ n - 1 \in Nat
  BY <1>1
<1>3. n - 1 \in T
  BY <1>1, <1>2
<1>4. (n - 1) + 1 \in T
  BY <1>2, <1>3
<1>5. QED
  BY <1>2, <1>4

\* A version is reached in n steps.
Reached(known, from, v, n) ==
  \/ n = 0 /\ v = from
  \/ n > 0 /\ Chains(known, from, v, n) # {}

\* The path of a node leads to its version.
LeadsTo(known, from, path, v) ==
  /\ path \in Seq(Range(known))
  /\ IF path = <<>> THEN v = from ELSE path \in Chains(known, from, v, Len(path))

\* A chain of more than no step has a last one.
LEMMA LastStep ==
  ASSUME NEW known, NEW from, NEW v, NEW n \in Nat, n > 0, Reached(known, from, v, n)
  PROVE  \E e \in Range(known) : e.to = v /\ Reached(known, from, e.from, n - 1)
<1>1. PICK c \in Chains(known, from, v, n) : TRUE
  BY DEF Reached
<1>2. /\ c \in [1..n -> Range(known)] /\ c[1].from = from /\ c[n].to = v
      /\ \A i \in 1..(n - 1) : c[i].to = c[i + 1].from
  BY DEF Chains
<1>3. n \in 1..n /\ c[n] \in Range(known)
  BY <1>2
<1>4. CASE n = 1
  BY <1>2, <1>3, <1>4 DEF Reached
<1>5. CASE n > 1
  <2> DEFINE d == [i \in 1..(n - 1) |-> c[i]]
  <2>1. n - 1 \in Nat /\ n - 1 > 0 /\ 1 \in 1..(n - 1) /\ n - 1 \in 1..(n - 1) /\ (n - 1) + 1 = n
    BY <1>5
  <2>2. d \in [1..(n - 1) -> Range(known)]
    BY <1>2
  <2>3. d[1] = c[1] /\ d[n - 1] = c[n - 1]
    BY <2>1
  <2>4. c[n - 1].to = c[n].from
    BY <1>2, <2>1
  <2>5. \A i \in 1..((n - 1) - 1) : d[i].to = d[i + 1].from
    <3> SUFFICES ASSUME NEW i \in 1..((n - 1) - 1) PROVE d[i].to = d[i + 1].from
      OBVIOUS
    <3>1. i \in 1..(n - 1) /\ i + 1 \in 1..(n - 1)
      BY <2>1
    <3>2. QED
      BY <1>2, <3>1
  <2> HIDE DEF d
  <2>6. d \in Chains(known, from, c[n].from, n - 1)
    BY <1>2, <2>2, <2>3, <2>4, <2>5 DEF Chains
  <2>7. QED
    BY <1>2, <1>3, <2>1, <2>6 DEF Reached
<1>6. QED
  BY <1>4, <1>5

\* A path and an edge from its end lead to the end of the edge.
LEMMA PathExtended ==
  ASSUME NEW known, NEW from, NEW v, NEW path, LeadsTo(known, from, path, v),
         NEW e \in Range(known), e.from = v
  PROVE  /\ Append(path, e) \in Seq(Range(known)) /\ Append(path, e) # <<>>
         /\ Len(Append(path, e)) = Len(path) + 1
         /\ Append(path, e) \in Chains(known, from, e.to, Len(path) + 1)
         /\ LeadsTo(known, from, Append(path, e), e.to)
<1> DEFINE c == Append(path, e)
           n == Len(path)
<1>1. path \in Seq(Range(known)) /\ n \in Nat
  BY DEF LeadsTo
<1>2. /\ c \in Seq(Range(known)) /\ Len(c) = n + 1 /\ c # <<>> /\ c[n + 1] = e
      /\ \A i \in 1..n : c[i] = path[i]
  BY <1>1
<1> HIDE DEF c
<1>3. c \in [1..(n + 1) -> Range(known)]
  BY <1>1, <1>2
<1>4. c[1].from = from /\ \A i \in 1..n : c[i].to = c[i + 1].from
  <2>1. CASE n = 0
    <3>1. path = <<>>
      BY <1>1, <2>1
    <3>2. QED
      BY <1>2, <2>1, <3>1 DEF LeadsTo
  <2>2. CASE n > 0
    <3>1. path # <<>>
      BY <2>2
    <3>2. /\ path[1].from = from /\ path[n].to = v
          /\ \A i \in 1..(n - 1) : path[i].to = path[i + 1].from
      BY <3>1 DEF LeadsTo, Chains
    <3>3. ASSUME NEW i \in 1..n PROVE c[i].to = c[i + 1].from
      <4>1. CASE i = n
        BY <1>2, <3>2, <4>1
      <4>2. CASE i < n
        <5>1. i \in 1..(n - 1) /\ i + 1 \in 1..n
          BY <1>1, <4>2
        <5>2. QED
          BY <1>2, <3>2, <5>1
      <4>3. QED
        BY <1>1, <4>1, <4>2
    <3>4. QED
      BY <1>1, <1>2, <2>2, <3>2, <3>3
  <2>3. QED
    BY <1>1, <2>1, <2>2
<1>5. (n + 1) - 1 = n
  BY <1>1
<1>6. c \in Chains(known, from, e.to, n + 1)
  BY <1>2, <1>3, <1>4, <1>5 DEF Chains
<1>7. QED
  BY <1>2, <1>6 DEF LeadsTo, c

SearchNode(known) == [version : Versions, path : Seq(Range(known))]
ChainSearchType(known) ==
  [queue : Seq(SearchNode(known)), visited : SUBSET Versions,
   found : {NoPath} \cup Seq(Range(known))]

Waiting(s) == {s.queue[i].version : i \in 1..Len(s.queue)}

\* What was found is a chain, and none is shorter.
FoundShortest(s, known, from, to) ==
  /\ s.found # <<>> /\ s.found \in Chains(known, from, to, Len(s.found))
  /\ \A k \in Nat : k > 0 /\ k < Len(s.found) => Chains(known, from, to, k) = {}

\* Nodes wait once, with a path that leads to their version; none has a shorter
\* one; and they wait in the order of these lengths, which are low or one more.
QueueSound(s, known, from, low) ==
  /\ \A i, j \in 1..Len(s.queue) : s.queue[i].version = s.queue[j].version => i = j
  /\ \A i \in 1..Len(s.queue) :
       /\ s.queue[i].version \in s.visited
       /\ LeadsTo(known, from, s.queue[i].path, s.queue[i].version)
       /\ Len(s.queue[i].path) \in {low, low + 1}
       /\ \A k \in 0..(Len(s.queue[i].path) - 1) : ~Reached(known, from, s.queue[i].version, k)
  /\ \A i, j \in 1..Len(s.queue) : i <= j => Len(s.queue[i].path) <= Len(s.queue[j].path)

\* The versions in `done' have been examined: all edges from them have been
\* followed, and all versions that are reached in fewer than low steps are done.
DoneSound(s, known, from, to, done, low) ==
  /\ from \in s.visited /\ to \notin s.visited
  /\ \A v \in done : \A e \in Range(known) : e.from = v => e.to \in s.visited
  /\ \A k \in 0..(low - 1), v \in Versions : Reached(known, from, v, k) => v \in done

\* Between two turns of the outer loop
ChainSearchSound(s, known, from, to) ==
  /\ s \in ChainSearchType(known)
  /\ s.found # NoPath => FoundShortest(s, known, from, to)
  /\ s.found = NoPath =>
       LET done == s.visited \ Waiting(s)
       IN  \E low \in Nat :
             /\ QueueSound(s, known, from, low) /\ DoneSound(s, known, from, to, done, low)
             /\ s.queue # <<>> => Len(s.queue[1].path) = low

\* After the first n edges in a turn, for the node that was taken, with `done' as
\* it was at the start
ScanSound(s, known, from, to, node, done, n) ==
  /\ s \in ChainSearchType(known)
  /\ s.found # NoPath => FoundShortest(s, known, from, to)
  /\ s.found = NoPath =>
       /\ QueueSound(s, known, from, Len(node.path))
       /\ DoneSound(s, known, from, to, done, Len(node.path))
       /\ s.visited = Waiting(s) \cup done \cup {node.version}
       /\ node.version \notin Waiting(s) /\ done \cap Waiting(s) = {}
       /\ \A j \in 1..n : known[j].from = node.version => known[j].to \in s.visited

\* Steps that a search is about
LEMMA KnownSteps ==
  ASSUME NEW known \in Seq(StepDefinitions)
  PROVE  /\ Range(known) \subseteq StepDefinitions
         /\ \A e \in Range(known) : e.from \in Versions /\ e.to \in Versions
         /\ \A i \in 1..Len(known) : known[i] \in Range(known)
         /\ \A c \in Seq(Range(known)) : c # <<>> => c # NoPath
<1>1. Range(known) \subseteq StepDefinitions /\ \A i \in 1..Len(known) : known[i] \in Range(known)
  BY ElementOf, InRange
<1>2. \A e \in Range(known) : e.from \in Versions /\ e.to \in Versions
  BY <1>1, MigrationAssumption DEF MigrationAssumption
<1>3. ASSUME NEW c \in Seq(Range(known)), c # <<>> PROVE c # NoPath
  <2>1. 1 \in 1..Len(c) /\ c[1] \in Range(known)
    BY <1>3
  <2>2. c[1].from # Odd
    BY <1>2, <2>1, MigrationAssumption DEF MigrationAssumption
  <2>3. NoPath[1].from = Odd
    BY DEF NoPath
  <2>4. QED
    BY <2>2, <2>3
<1>4. QED
  BY <1>1, <1>2, <1>3

\* One more element at the end of a sequence
LEMMA Appended ==
  ASSUME NEW S, NEW q \in Seq(S), NEW x \in S, NEW t, t = Append(q, x)
  PROVE  /\ t \in Seq(S) /\ Len(t) = Len(q) + 1 /\ Len(q) \in Nat /\ t[Len(q) + 1] = x
         /\ \A i \in 1..Len(q) : t[i] = q[i]
         /\ 1..Len(t) = (1..Len(q)) \cup {Len(q) + 1} /\ Len(q) + 1 \notin 1..Len(q)
         /\ t # <<>>
<1>1. /\ t \in Seq(S) /\ Len(t) = Len(q) + 1 /\ Len(q) \in Nat /\ t[Len(q) + 1] = x
      /\ \A i \in 1..Len(q) : t[i] = q[i]
  OBVIOUS
<1>2. 1..Len(t) = (1..Len(q)) \cup {Len(q) + 1} /\ Len(q) + 1 \notin 1..Len(q)
  BY <1>1
<1>3. QED
  BY <1>1, <1>2

LEMMA EdgeExamined ==
  ASSUME NEW known \in Seq(StepDefinitions), NEW from \in Versions, NEW to \in Versions,
         from # to,
         NEW node \in SearchNode(known), LeadsTo(known, from, node.path, node.version),
         NEW done \in SUBSET Versions, NEW n \in 0..(Len(known) - 1), NEW s,
         ScanSound(s, known, from, to, node, done, n)
  PROVE  ScanSound(ExamineEdge(s, node, known[n + 1], to), known, from, to, node, done, n + 1)
<1> DEFINE e == known[n + 1]
           t == ExamineEdge(s, node, e, to)
           low == Len(node.path)
<1>1. /\ e \in Range(known) /\ e.from \in Versions /\ e.to \in Versions /\ n + 1 \in 1..Len(known)
      /\ \A j \in 1..(n + 1) : j \in 1..n \/ j = n + 1
  BY KnownSteps
<1>2. /\ s \in ChainSearchType(known) /\ s.visited \subseteq Versions
      /\ s.queue \in Seq(SearchNode(known)) /\ low \in Nat
  BY DEF ScanSound, ChainSearchType, SearchNode
<1>3. CASE s.found # NoPath \/ e.from # node.version
  <2>1. t = s
    BY <1>3 DEF ExamineEdge
  <2>2. QED
    BY <1>1, <1>3, <2>1 DEF ScanSound
<1>4. ASSUME s.found = NoPath, e.from = node.version
      PROVE  ScanSound(t, known, from, to, node, done, n + 1)
  <2> DEFINE path == Append(node.path, e)
  <2>1. /\ path \in Seq(Range(known)) /\ path # <<>> /\ Len(path) = low + 1
        /\ path \in Chains(known, from, e.to, low + 1)
        /\ LeadsTo(known, from, path, e.to)
    <3>1. PICK p, f, v : p = node.path /\ f = e /\ v = node.version
      OBVIOUS
    <3>2. LeadsTo(known, from, p, v) /\ f \in Range(known) /\ f.from = v
      BY <1>1, <1>4, <3>1
    <3>3. /\ Append(p, f) \in Seq(Range(known)) /\ Append(p, f) # <<>>
          /\ Len(Append(p, f)) = Len(p) + 1
          /\ Append(p, f) \in Chains(known, from, f.to, Len(p) + 1)
          /\ LeadsTo(known, from, Append(p, f), f.to)
      BY <3>2, PathExtended
    <3>4. QED
      BY <3>1, <3>3
  <2>2. /\ QueueSound(s, known, from, low) /\ DoneSound(s, known, from, to, done, low)
        /\ s.visited = Waiting(s) \cup done \cup {node.version}
        /\ node.version \notin Waiting(s) /\ done \cap Waiting(s) = {}
        /\ \A j \in 1..n : known[j].from = node.version => known[j].to \in s.visited
    BY <1>4 DEF ScanSound
  <2> HIDE DEF path, low
  <2>3. ASSUME NEW v \in Versions, v \notin s.visited, NEW k \in 0..low
        PROVE  ~Reached(known, from, v, k)
    <3>1. CASE k = 0
      BY <2>2, <2>3, <3>1 DEF Reached, DoneSound
    <3>2. CASE k > 0
      <4> SUFFICES ASSUME Reached(known, from, v, k) PROVE FALSE
        OBVIOUS
      <4>1. k \in Nat /\ k - 1 \in 0..(low - 1)
        BY <1>2, <3>2
      <4>2. PICK f \in Range(known) : f.to = v /\ Reached(known, from, f.from, k - 1)
        BY <3>2, <4>1, LastStep
      <4>3. f.from \in Versions
        BY KnownSteps
      <4>4. f.from \in done
        BY <2>2, <4>1, <4>2, <4>3 DEF DoneSound
      <4>5. QED
        BY <2>2, <2>3, <4>2, <4>4 DEF DoneSound
    <3>3. QED
      BY <1>2, <3>1, <3>2
  <2>4. CASE e.to = to
    <3>1. t = [s EXCEPT !.found = path]
      BY <1>4, <2>4 DEF ExamineEdge, path
    <3> HIDE DEF t
    <3>2. t \in ChainSearchType(known) /\ t.found = path
      BY <1>2, <2>1, <3>1 DEF ChainSearchType
    <3>3. to \notin s.visited
      BY <2>2 DEF DoneSound
    <3>4. \A k \in Nat : k > 0 /\ k < low + 1 => Chains(known, from, to, k) = {}
      <4> SUFFICES ASSUME NEW k \in Nat, k > 0, k < low + 1 PROVE Chains(known, from, to, k) = {}
        OBVIOUS
      <4>1. k \in 0..low
        BY <1>2
      <4>2. ~Reached(known, from, to, k)
        BY <2>3, <3>3, <4>1
      <4>3. QED
        BY <4>2 DEF Reached
    <3>5. FoundShortest(t, known, from, to)
      BY <2>1, <2>4, <3>2, <3>4 DEF FoundShortest
    <3>6. t.found # NoPath
      BY <2>1, <3>2, KnownSteps
    <3>7. QED
      BY <3>2, <3>5, <3>6 DEF ScanSound
  <2>5. CASE e.to # to /\ e.to \in s.visited
    <3>1. t = s
      BY <1>4, <2>5 DEF ExamineEdge
    <3>2. QED
      BY <1>1, <2>5, <3>1 DEF ScanSound
  <2>6. CASE e.to # to /\ e.to \notin s.visited
    <3> DEFINE new == [version |-> e.to, path |-> path]
               m == Len(s.queue)
    <3>1. t = [s EXCEPT !.visited = s.visited \cup {e.to}, !.queue = Append(s.queue, new)]
      BY <1>4, <2>6 DEF ExamineEdge, Enqueue, path
    <3>2. new \in SearchNode(known) /\ new.version = e.to /\ new.path = path
      BY <1>1, <2>1 DEF SearchNode
    <3> HIDE DEF t, new
    <3>3. /\ t.visited = s.visited \cup {e.to} /\ t.queue = Append(s.queue, new)
          /\ t.found = s.found /\ t \in ChainSearchType(known)
      <4>1. Append(s.queue, new) \in Seq(SearchNode(known))
        BY <1>2, <3>2
      <4>2. QED
        BY <1>1, <1>2, <3>1, <4>1 DEF ChainSearchType
    <3>4. /\ Len(t.queue) = m + 1 /\ m \in Nat /\ t.queue[m + 1] = new
          /\ \A i \in 1..m : t.queue[i] = s.queue[i]
          /\ 1..(m + 1) = (1..m) \cup {m + 1} /\ m + 1 \notin 1..m
      BY <1>2, <3>2, <3>3, Appended
    <3>5. Waiting(t) = Waiting(s) \cup {e.to}
      <4>1. \A x : x \in Waiting(t) <=> \E i \in 1..(m + 1) : t.queue[i].version = x
        BY <3>4 DEF Waiting
      <4>2. \A x : x \in Waiting(s) <=> \E i \in 1..m : s.queue[i].version = x
        BY DEF Waiting
      <4>3. t.queue[m + 1].version = e.to
        BY <3>2, <3>4
      <4>4. /\ \A i \in 1..(m + 1) : i \in 1..m \/ i = m + 1
            /\ \A i \in 1..m : i \in 1..(m + 1) /\ t.queue[i] = s.queue[i]
            /\ m + 1 \in 1..(m + 1)
        BY <3>4
      <4>5. \A x : x \in Waiting(t) => x \in Waiting(s) \/ x = e.to
        BY <4>1, <4>2, <4>3, <4>4
      <4>6. \A x : x \in Waiting(s) \/ x = e.to => x \in Waiting(t)
        BY <4>1, <4>2, <4>3, <4>4
      <4>7. QED
        BY <4>5, <4>6
    <3>6. \A i \in 1..m : s.queue[i].version \in s.visited
      BY <2>2 DEF QueueSound
    <3>7. QueueSound(t, known, from, low)
      <4>1. \A i, j \in 1..(m + 1) : t.queue[i].version = t.queue[j].version => i = j
        <5>1. \A i \in 1..m : t.queue[i].version = s.queue[i].version
          BY <3>4
        <5>2. \A i, j \in 1..m : s.queue[i].version = s.queue[j].version => i = j
          BY <2>2 DEF QueueSound
        <5>3. \A i \in 1..m : t.queue[i].version # t.queue[m + 1].version
          BY <2>6, <3>2, <3>4, <3>6, <5>1
        <5>4. \A i \in 1..(m + 1) : i \in 1..m \/ i = m + 1
          BY <3>4
        <5>5. QED
          BY <5>1, <5>2, <5>3, <5>4
      <4>2. \A k \in 0..(Len(path) - 1) : ~Reached(known, from, e.to, k)
        BY <1>1, <1>2, <2>1, <2>3, <2>6
      <4>3. ASSUME NEW i \in 1..(m + 1)
            PROVE  /\ t.queue[i].version \in t.visited
                   /\ LeadsTo(known, from, t.queue[i].path, t.queue[i].version)
                   /\ Len(t.queue[i].path) \in {low, low + 1}
                   /\ \A k \in 0..(Len(t.queue[i].path) - 1) :
                        ~Reached(known, from, t.queue[i].version, k)
        <5>1. CASE i \in 1..m
          BY <2>2, <3>3, <3>4, <5>1 DEF QueueSound
        <5>2. CASE i = m + 1
          BY <2>1, <3>2, <3>3, <3>4, <4>2, <5>2
        <5>3. QED
          BY <3>4, <5>1, <5>2
      <4>4. ASSUME NEW i \in 1..(m + 1), NEW j \in 1..(m + 1), i <= j
            PROVE  Len(t.queue[i].path) <= Len(t.queue[j].path)
        <5>1. CASE j = m + 1
          <6>1. Len(t.queue[j].path) = low + 1
            BY <2>1, <3>2, <3>4, <5>1
          <6>2. Len(t.queue[i].path) \in {low, low + 1}
            BY <4>3
          <6>3. low <= low + 1 /\ low + 1 <= low + 1
            BY <1>2
          <6>4. QED
            BY <6>1, <6>2, <6>3
        <5>2. CASE j \in 1..m
          <6>1. i \in 1..m
            BY <3>4, <4>4, <5>2
          <6>2. QED
            BY <2>2, <3>4, <4>4, <5>2, <6>1 DEF QueueSound
        <5>3. QED
          BY <3>4, <5>1, <5>2
      <4>5. QED
        BY <3>4, <4>1, <4>3, <4>4 DEF QueueSound
    <3>8. DoneSound(t, known, from, to, done, low)
      BY <2>2, <2>6, <3>3 DEF DoneSound
    <3>9. /\ t.visited = Waiting(t) \cup done \cup {node.version}
          /\ node.version \notin Waiting(t) /\ done \cap Waiting(t) = {}
      BY <2>2, <2>6, <3>3, <3>5
    <3>10. \A j \in 1..(n + 1) : known[j].from = node.version => known[j].to \in t.visited
      BY <1>1, <2>2, <3>3
    <3>11. QED
      BY <1>4, <3>3, <3>7, <3>8, <3>9, <3>10 DEF ScanSound, low
  <2>7. QED
    BY <2>4, <2>5, <2>6
<1>5. QED
  BY <1>3, <1>4

\* The edges in a turn, one after the other
LEMMA EdgesExamined ==
  ASSUME NEW known \in Seq(StepDefinitions), NEW from \in Versions, NEW to \in Versions,
         from # to,
         NEW node \in SearchNode(known), LeadsTo(known, from, node.path, node.version),
         NEW done \in SUBSET Versions, NEW first, ScanSound(first, known, from, to, node, done, 0),
         NEW last,
         last = LET examined[i \in 0..Len(known)] ==
                      IF i = 0 THEN first ELSE ExamineEdge(examined[i - 1], node, known[i], to)
                IN  examined[Len(known)]
  PROVE  ScanSound(last, known, from, to, node, done, Len(known))
<1> DEFINE Is(g, n) == g = [i \in 0..n |-> IF i = 0 THEN first
                                           ELSE ExamineEdge(g[i - 1], node, known[i], to)]
           T == {n \in Nat : n <= Len(known) =>
                   \E g : Is(g, n) /\ ScanSound(g[n], known, from, to, node, done, n)}
<1>1. Len(known) \in Nat
  OBVIOUS
<1>2. 0 \in T
  <2> DEFINE g == [i \in 0..0 |-> first]
  <2>1. \A i \in 0..0 : i = 0
    OBVIOUS
  <2>2. Is(g, 0) /\ g[0] = first
    BY <2>1
  <2>3. QED
    BY <2>2
<1>3. ASSUME NEW n \in Nat, n \in T PROVE n + 1 \in T
  <2> SUFFICES ASSUME n + 1 <= Len(known)
               PROVE  \E h : Is(h, n + 1) /\ ScanSound(h[n + 1], known, from, to, node, done, n + 1)
    OBVIOUS
  <2>1. PICK g : Is(g, n) /\ ScanSound(g[n], known, from, to, node, done, n)
    BY <1>1, <1>3
  <2> DEFINE h == [i \in 0..(n + 1) |->
                     IF i = n + 1 THEN ExamineEdge(g[n], node, known[i], to) ELSE g[i]]
  <2>2. /\ h[n + 1] = ExamineEdge(g[n], node, known[n + 1], to)
        /\ \A i \in 0..n : h[i] = g[i]
        /\ h = [i \in 0..(n + 1) |-> h[i]]
    OBVIOUS
  <2> HIDE DEF h
  <2>3. \A i \in 0..n : g[i] = IF i = 0 THEN first ELSE ExamineEdge(g[i - 1], node, known[i], to)
    BY <2>1
  <2>4. ASSUME NEW i \in 0..(n + 1)
        PROVE  h[i] = IF i = 0 THEN first ELSE ExamineEdge(h[i - 1], node, known[i], to)
    <3>1. CASE i = n + 1
      <4>1. i - 1 = n /\ n \in 0..n /\ i # 0
        BY <3>1
      <4>2. h[i - 1] = g[n]
        BY <2>2, <4>1
      <4>3. QED
        BY <2>2, <3>1, <4>1, <4>2
    <3>2. CASE i # n + 1 /\ i # 0
      <4>1. i \in 0..n /\ i - 1 \in 0..n
        BY <3>2
      <4>2. QED
        BY <2>2, <2>3, <3>2, <4>1
    <3>3. CASE i = 0
      <4>1. i \in 0..n
        BY <3>3
      <4>2. QED
        BY <2>2, <2>3, <3>3, <4>1
    <3>4. QED
      BY <3>1, <3>2, <3>3
  <2>5. Is(h, n + 1)
    BY <2>2, <2>4
  <2>6. n \in 0..(Len(known) - 1)
    BY <1>1
  <2>7. ScanSound(h[n + 1], known, from, to, node, done, n + 1)
    BY <2>1, <2>2, <2>6, EdgeExamined
  <2>8. QED
    BY <2>5, <2>7
<1>4. Len(known) \in T
  <2> HIDE DEF T
  <2>1. Nat \subseteq T
    BY <1>2, <1>3, SetInduction
  <2>2. QED
    BY <1>1, <2>1
<1>5. PICK g : /\ Is(g, Len(known))
               /\ ScanSound(g[Len(known)], known, from, to, node, done, Len(known))
  BY <1>1, <1>4
<1> DEFINE f == CHOOSE g1 : Is(g1, Len(known))
<1>6. last = f[Len(known)]
  OBVIOUS
<1>7. Is(f, Len(known))
  BY <1>5
<1>8. \A i \in 0..Len(known) : f[i] = g[i]
  <2> DEFINE U == {n \in Nat : n <= Len(known) => f[n] = g[n]}
  <2> HIDE DEF f
  <2>1. \A i \in 0..Len(known) :
          /\ f[i] = IF i = 0 THEN first ELSE ExamineEdge(f[i - 1], node, known[i], to)
          /\ g[i] = IF i = 0 THEN first ELSE ExamineEdge(g[i - 1], node, known[i], to)
    BY <1>5, <1>7
  <2>2. 0 \in U
    BY <1>1, <2>1
  <2>3. ASSUME NEW n \in Nat, n \in U PROVE n + 1 \in U
    <3> SUFFICES ASSUME n + 1 <= Len(known) PROVE f[n + 1] = g[n + 1]
      OBVIOUS
    <3>1. f[n] = g[n] /\ n + 1 \in 0..Len(known) /\ n + 1 # 0 /\ (n + 1) - 1 = n
      BY <1>1, <2>3
    <3>2. QED
      BY <2>1, <3>1
  <2> HIDE DEF U
  <2>4. Nat \subseteq U
    BY <2>2, <2>3, SetInduction
  <2>5. QED
    BY <1>1, <2>4 DEF U
<1>9. QED
  BY <1>1, <1>5, <1>6, <1>8

\* What waits behind the head of the queue
LEMMA HeadTaken ==
  ASSUME NEW S, NEW q \in Seq(S), q # <<>>
  PROVE  /\ Len(q) \in Nat /\ Len(q) > 0 /\ 1 \in 1..Len(q) /\ Head(q) = q[1] /\ q[1] \in S
         /\ Tail(q) \in Seq(S) /\ Len(Tail(q)) = Len(q) - 1
         /\ \A i \in 1..Len(Tail(q)) : i + 1 \in 1..Len(q) /\ Tail(q)[i] = q[i + 1]
         /\ \A i \in 1..Len(q) : i # 1 => i - 1 \in 1..Len(Tail(q)) /\ q[i] = Tail(q)[i - 1]
<1>1. Len(q) \in Nat /\ Len(q) > 0 /\ Head(q) = q[1] /\ q[1] \in S
  OBVIOUS
<1>2. Tail(q) \in Seq(S) /\ Len(Tail(q)) = Len(q) - 1
  OBVIOUS
<1>3. \A i \in 1..(Len(q) - 1) : Tail(q)[i] = q[i + 1]
  OBVIOUS
<1>4. \A i \in 1..(Len(q) - 1) : i + 1 \in 1..Len(q)
  BY <1>1
<1>5. ASSUME NEW i \in 1..Len(q), i # 1
      PROVE  i - 1 \in 1..(Len(q) - 1) /\ q[i] = Tail(q)[i - 1]
  <2>1. i - 1 \in 1..(Len(q) - 1) /\ (i - 1) + 1 = i
    BY <1>1, <1>5
  <2>2. QED
    BY <1>3, <2>1
<1>6. QED
  BY <1>1, <1>2, <1>3, <1>4, <1>5

\* The node at the head is taken.
LEMMA TurnBegins ==
  ASSUME NEW known \in Seq(StepDefinitions), NEW from \in Versions, NEW to \in Versions,
         NEW s, ChainSearchSound(s, known, from, to), s.queue # <<>>, s.found = NoPath,
         NEW first, first = [s EXCEPT !.queue = Tail(s.queue)]
  PROVE  LET node == Head(s.queue)
             done == s.visited \ Waiting(s)
         IN  /\ node \in SearchNode(known) /\ LeadsTo(known, from, node.path, node.version)
             /\ done \in SUBSET Versions /\ node.version \in Versions \ done
             /\ ScanSound(first, known, from, to, node, done, 0)
<1> DEFINE node == Head(s.queue)
           done == s.visited \ Waiting(s)
<1>1. /\ s \in ChainSearchType(known) /\ s.queue \in Seq(SearchNode(known))
      /\ s.visited \in SUBSET Versions
  BY DEF ChainSearchSound, ChainSearchType
<1>2. PICK low \in Nat :
        /\ QueueSound(s, known, from, low) /\ DoneSound(s, known, from, to, done, low)
        /\ Len(s.queue[1].path) = low
  BY DEF ChainSearchSound
<1>3. /\ Len(s.queue) \in Nat /\ 1 \in 1..Len(s.queue) /\ node = s.queue[1]
      /\ node \in SearchNode(known)
      /\ Tail(s.queue) \in Seq(SearchNode(known))
      /\ \A i \in 1..Len(Tail(s.queue)) :
           i + 1 \in 1..Len(s.queue) /\ Tail(s.queue)[i] = s.queue[i + 1]
      /\ \A i \in 1..Len(s.queue) :
           i # 1 => i - 1 \in 1..Len(Tail(s.queue)) /\ s.queue[i] = Tail(s.queue)[i - 1]
  BY <1>1, HeadTaken
<1> HIDE DEF node
<1>4. /\ first \in ChainSearchType(known) /\ first.queue = Tail(s.queue)
      /\ first.visited = s.visited /\ first.found = NoPath
  BY <1>1, <1>3 DEF ChainSearchType
<1>5. /\ LeadsTo(known, from, node.path, node.version) /\ node.version \in Waiting(s)
      /\ node.version \in s.visited /\ Len(node.path) = low
  BY <1>2, <1>3 DEF QueueSound, Waiting
<1>6. QueueSound(first, known, from, low)
  <2>1. ASSUME NEW i \in 1..Len(first.queue), NEW j \in 1..Len(first.queue)
        PROVE  /\ first.queue[i].version = first.queue[j].version => i = j
               /\ i <= j => Len(first.queue[i].path) <= Len(first.queue[j].path)
    <3>1. /\ i + 1 \in 1..Len(s.queue) /\ first.queue[i] = s.queue[i + 1]
          /\ j + 1 \in 1..Len(s.queue) /\ first.queue[j] = s.queue[j + 1]
      BY <1>3, <1>4
    <3>2. (i + 1 = j + 1 => i = j) /\ (i <= j => i + 1 <= j + 1)
      OBVIOUS
    <3>3. QED
      BY <1>2, <3>1, <3>2 DEF QueueSound
  <2>2. ASSUME NEW i \in 1..Len(first.queue)
        PROVE  /\ first.queue[i].version \in first.visited
               /\ LeadsTo(known, from, first.queue[i].path, first.queue[i].version)
               /\ Len(first.queue[i].path) \in {low, low + 1}
               /\ \A k \in 0..(Len(first.queue[i].path) - 1) :
                    ~Reached(known, from, first.queue[i].version, k)
    <3>1. i + 1 \in 1..Len(s.queue) /\ first.queue[i] = s.queue[i + 1]
      BY <1>3, <1>4
    <3>2. /\ s.queue[i + 1].version \in s.visited
          /\ LeadsTo(known, from, s.queue[i + 1].path, s.queue[i + 1].version)
          /\ Len(s.queue[i + 1].path) \in {low, low + 1}
          /\ \A k \in 0..(Len(s.queue[i + 1].path) - 1) :
               ~Reached(known, from, s.queue[i + 1].version, k)
      BY <1>2, <3>1 DEF QueueSound
    <3>3. first.visited = s.visited
      BY <1>4
    <3>4. QED
      BY <3>1, <3>2, <3>3
  <2>3. QED
    BY <2>1, <2>2 DEF QueueSound
<1>7. \A x : x \in Waiting(s) <=> x \in Waiting(first) \/ x = node.version
  <2>1. \A x : x \in Waiting(first) => x \in Waiting(s)
    BY <1>3, <1>4 DEF Waiting
  <2>2. \A x : x \in Waiting(s) => x \in Waiting(first) \/ x = node.version
    BY <1>3, <1>4 DEF Waiting
  <2>3. QED
    BY <1>5, <2>1, <2>2
<1>8. node.version \notin Waiting(first)
  <2> SUFFICES ASSUME NEW i \in 1..Len(first.queue), first.queue[i].version = node.version
               PROVE  FALSE
    BY DEF Waiting
  <2>1. i + 1 \in 1..Len(s.queue) /\ s.queue[i + 1].version = s.queue[1].version /\ i + 1 # 1
    BY <1>3, <1>4
  <2>2. QED
    BY <1>2, <1>3, <2>1 DEF QueueSound
<1>9. Waiting(s) \subseteq s.visited
  BY <1>2 DEF QueueSound, Waiting
<1>10. /\ first.visited = Waiting(first) \cup done \cup {node.version}
       /\ done \cap Waiting(first) = {} /\ node.version \notin done
  BY <1>4, <1>5, <1>7, <1>9
<1>11. DoneSound(first, known, from, to, done, low)
  BY <1>2, <1>4 DEF DoneSound
<1>12. 1..0 = {}
  OBVIOUS
<1>13. ScanSound(first, known, from, to, node, done, 0)
  BY <1>4, <1>5, <1>6, <1>8, <1>10, <1>11, <1>12 DEF ScanSound
<1>14. node.version \in Versions /\ done \in SUBSET Versions
  BY <1>1, <1>5
<1>15. QED
  BY <1>3, <1>5, <1>10, <1>13, <1>14 DEF node

\* All edges of the node have been examined.
LEMMA TurnEnds ==
  ASSUME NEW known \in Seq(StepDefinitions), NEW from \in Versions, NEW to \in Versions,
         NEW node \in SearchNode(known), NEW done \in SUBSET Versions, node.version \notin done,
         NEW t, ScanSound(t, known, from, to, node, done, Len(known))
  PROVE  /\ ChainSearchSound(t, known, from, to)
         /\ t.found = NoPath => t.visited \ Waiting(t) = done \cup {node.version}
<1> DEFINE low == Len(node.path)
<1>1. low \in Nat /\ t \in ChainSearchType(known)
  BY DEF SearchNode, ScanSound
<1> HIDE DEF low
<1>2. CASE t.found # NoPath
  BY <1>2 DEF ScanSound, ChainSearchSound
<1>3. CASE t.found = NoPath
  <2>1. /\ QueueSound(t, known, from, low) /\ DoneSound(t, known, from, to, done, low)
        /\ t.visited = Waiting(t) \cup done \cup {node.version}
        /\ node.version \notin Waiting(t) /\ done \cap Waiting(t) = {}
        /\ \A j \in 1..Len(known) : known[j].from = node.version => known[j].to \in t.visited
    BY <1>3 DEF ScanSound, low
  <2>2. t.visited \ Waiting(t) = done \cup {node.version}
    BY <2>1
  <2>3. \A v \in done \cup {node.version} : \A e \in Range(known) : e.from = v => e.to \in t.visited
    BY <2>1, InRange DEF DoneSound
  <2>4. CASE t.queue = <<>>
    <3>1. DoneSound(t, known, from, to, done \cup {node.version}, low)
      BY <2>1, <2>3 DEF DoneSound
    <3>2. QED
      BY <1>1, <1>3, <2>1, <2>2, <2>4, <3>1 DEF ChainSearchSound
  <2>5. CASE t.queue # <<>>
    <3>1. PICK next \in Nat : next = Len(t.queue[1].path) /\ next \in {low, low + 1}
      <4>1. 1 \in 1..Len(t.queue)
        BY <1>1, <2>5, HeadTaken DEF ChainSearchType
      <4>2. QED
        BY <1>1, <2>1, <4>1 DEF QueueSound
    <3>2. \A i \in 1..Len(t.queue) : next <= Len(t.queue[i].path)
      <4>1. Len(t.queue) \in Nat /\ \A i \in 1..Len(t.queue) : 1 \in 1..Len(t.queue) /\ 1 <= i
        BY <1>1 DEF ChainSearchType
      <4>2. QED
        BY <2>1, <3>1, <4>1 DEF QueueSound
    <3>3. QueueSound(t, known, from, next)
      <4>1. \A i \in 1..Len(t.queue) : Len(t.queue[i].path) \in {next, next + 1}
        <5> SUFFICES ASSUME NEW i \in 1..Len(t.queue)
                     PROVE  Len(t.queue[i].path) \in {next, next + 1}
          OBVIOUS
        <5>1. Len(t.queue[i].path) \in {low, low + 1} /\ next <= Len(t.queue[i].path)
          BY <2>1, <3>2 DEF QueueSound
        <5>2. QED
          BY <1>1, <3>1, <5>1
      <4>2. ASSUME NEW i \in 1..Len(t.queue)
            PROVE  /\ t.queue[i].version \in t.visited
                   /\ LeadsTo(known, from, t.queue[i].path, t.queue[i].version)
                   /\ \A k \in 0..(Len(t.queue[i].path) - 1) :
                        ~Reached(known, from, t.queue[i].version, k)
        BY <2>1 DEF QueueSound
      <4>3. ASSUME NEW i \in 1..Len(t.queue), NEW j \in 1..Len(t.queue)
            PROVE  /\ t.queue[i].version = t.queue[j].version => i = j
                   /\ i <= j => Len(t.queue[i].path) <= Len(t.queue[j].path)
        BY <2>1 DEF QueueSound
      <4>4. QED
        BY <4>1, <4>2, <4>3 DEF QueueSound
    <3>4. ASSUME NEW k \in 0..(next - 1), NEW v \in Versions, Reached(known, from, v, k)
          PROVE  v \in done \cup {node.version}
      <4>1. CASE k \in 0..(low - 1)
        BY <2>1, <3>4, <4>1 DEF DoneSound
      <4>2. CASE k \notin 0..(low - 1)
        <5>1. k = low /\ next = low + 1
          BY <1>1, <3>1, <4>2
        <5>2. v \in t.visited
          <6>1. CASE k = 0
            BY <2>1, <3>4, <6>1 DEF Reached, DoneSound
          <6>2. CASE k > 0
            <7>1. k \in Nat /\ k - 1 \in 0..(low - 1)
              BY <1>1, <5>1, <6>2
            <7>2. PICK e \in Range(known) : e.to = v /\ Reached(known, from, e.from, k - 1)
              BY <3>4, <6>2, <7>1, LastStep
            <7>3. e.from \in done
              BY <2>1, <7>1, <7>2, KnownSteps DEF DoneSound
            <7>4. QED
              BY <2>3, <7>2, <7>3
          <6>3. QED
            BY <6>1, <6>2
        <5>3. v \notin Waiting(t)
          <6> SUFFICES ASSUME NEW i \in 1..Len(t.queue), t.queue[i].version = v PROVE FALSE
            BY DEF Waiting
          <6>1. Len(t.queue[i].path) \in {low, low + 1} /\ next <= Len(t.queue[i].path)
            BY <2>1, <3>2 DEF QueueSound
          <6>2. k \in 0..(Len(t.queue[i].path) - 1)
            BY <1>1, <5>1, <6>1
          <6>3. QED
            BY <2>1, <3>4, <6>2 DEF QueueSound
        <5>4. QED
          BY <2>1, <5>2, <5>3
      <4>3. QED
        BY <4>1, <4>2
    <3>5. DoneSound(t, known, from, to, done \cup {node.version}, next)
      BY <2>1, <2>3, <3>4 DEF DoneSound
    <3>6. QED
      BY <1>1, <1>3, <2>2, <3>1, <3>3, <3>5 DEF ChainSearchSound
  <2>6. QED
    BY <2>2, <2>4, <2>5
<1>4. QED
  BY <1>2, <1>3

\* A turn: the search stays sound, and if it goes on, one more version is done.
LEMMA TurnSound ==
  ASSUME NEW known \in Seq(StepDefinitions), NEW from \in Versions, NEW to \in Versions,
         from # to, NEW s, ChainSearchSound(s, known, from, to)
  PROVE  /\ ChainSearchSound(TakeNode(s, known, to), known, from, to)
         /\ s.found # NoPath \/ s.queue = <<>> => TakeNode(s, known, to) = s
         /\ s.found = NoPath /\ s.queue # <<>> /\ TakeNode(s, known, to).found = NoPath =>
              \E v \in Versions \ (s.visited \ Waiting(s)) :
                TakeNode(s, known, to).visited \ Waiting(TakeNode(s, known, to))
                  = (s.visited \ Waiting(s)) \cup {v}
<1>1. CASE s.found # NoPath \/ s.queue = <<>>
  <2>1. TakeNode(s, known, to) = s
    BY <1>1 DEF TakeNode
  <2>2. QED
    BY <1>1, <2>1
<1>2. CASE s.found = NoPath /\ s.queue # <<>>
  <2> DEFINE node == Head(s.queue)
             done == s.visited \ Waiting(s)
             first == [s EXCEPT !.queue = Tail(s.queue)]
             t == TakeNode(s, known, to)
  <2>1. /\ node \in SearchNode(known) /\ LeadsTo(known, from, node.path, node.version)
        /\ done \in SUBSET Versions /\ node.version \in Versions \ done
        /\ ScanSound(first, known, from, to, node, done, 0)
    BY <1>2, TurnBegins
  <2>2. t = LET examined[i \in 0..Len(known)] ==
                  IF i = 0 THEN first ELSE ExamineEdge(examined[i - 1], node, known[i], to)
            IN  examined[Len(known)]
    BY <1>2 DEF TakeNode
  <2> HIDE DEF node, done, first, t
  <2>3. ScanSound(t, known, from, to, node, done, Len(known))
    BY <2>1, <2>2, EdgesExamined
  <2>4. /\ ChainSearchSound(t, known, from, to)
        /\ t.found = NoPath => t.visited \ Waiting(t) = done \cup {node.version}
    BY <2>1, <2>3, TurnEnds
  <2>5. QED
    BY <1>2, <2>1, <2>4 DEF t, done
<1>3. QED
  BY <1>1, <1>2

\* What the outer loop has after each number of turns
LEMMA TurnsTaken ==
  ASSUME NEW known \in Seq(StepDefinitions), NEW from \in Versions, NEW to \in Versions,
         from # to
  PROVE  \E f : /\ f[0] = StartAt(from)
                /\ ResolvePath(known, from, to) = f[Cardinality(Versions)].found
                /\ \A n \in 0..(Cardinality(Versions) - 1) : f[n + 1] = TakeNode(f[n], known, to)
<1> DEFINE Is(g, n) == g = [i \in 0..n |-> IF i = 0 THEN StartAt(from)
                                           ELSE TakeNode(g[i - 1], known, to)]
           T == {n \in Nat : \E g : Is(g, n)}
<1>1. 0 \in T
  <2> DEFINE g == [i \in 0..0 |-> StartAt(from)]
  <2>1. \A i \in 0..0 : i = 0
    OBVIOUS
  <2>2. Is(g, 0)
    BY <2>1
  <2>3. QED
    BY <2>2
<1>2. ASSUME NEW n \in Nat, n \in T PROVE n + 1 \in T
  <2>1. PICK g : Is(g, n)
    BY <1>2
  <2> DEFINE h == [i \in 0..(n + 1) |-> IF i = n + 1 THEN TakeNode(g[n], known, to) ELSE g[i]]
  <2>2. /\ h[n + 1] = TakeNode(g[n], known, to)
        /\ \A i \in 0..n : h[i] = g[i]
        /\ h = [i \in 0..(n + 1) |-> h[i]]
    OBVIOUS
  <2> HIDE DEF h
  <2>3. \A i \in 0..n : g[i] = IF i = 0 THEN StartAt(from) ELSE TakeNode(g[i - 1], known, to)
    BY <2>1
  <2>4. ASSUME NEW i \in 0..(n + 1)
        PROVE  h[i] = IF i = 0 THEN StartAt(from) ELSE TakeNode(h[i - 1], known, to)
    <3>1. CASE i = n + 1
      <4>1. i - 1 = n /\ n \in 0..n /\ i # 0
        BY <3>1
      <4>2. h[i - 1] = g[n]
        BY <2>2, <4>1
      <4>3. QED
        BY <2>2, <3>1, <4>1, <4>2
    <3>2. CASE i # n + 1 /\ i # 0
      <4>1. i \in 0..n /\ i - 1 \in 0..n
        BY <3>2
      <4>2. QED
        BY <2>2, <2>3, <3>2, <4>1
    <3>3. CASE i = 0
      <4>1. i \in 0..n
        BY <3>3
      <4>2. QED
        BY <2>2, <2>3, <3>3, <4>1
    <3>4. QED
      BY <3>1, <3>2, <3>3
  <2>5. Is(h, n + 1)
    BY <2>2, <2>4
  <2>6. QED
    BY <2>5
<1>3. \E g : Is(g, Cardinality(Versions))
  <2> HIDE DEF T
  <2>1. Nat \subseteq T
    BY <1>1, <1>2, SetInduction
  <2>2. Cardinality(Versions) \in Nat
    BY MigrationAssumption, FS_CardinalityType DEF MigrationAssumption
  <2>3. QED
    BY <2>1, <2>2 DEF T
<1> DEFINE f == CHOOSE g : Is(g, Cardinality(Versions))
<1>4. ResolvePath(known, from, to) = f[Cardinality(Versions)].found
  BY DEF ResolvePath
<1>5. Is(f, Cardinality(Versions)) /\ Cardinality(Versions) \in Nat
  BY <1>3, MigrationAssumption, FS_CardinalityType DEF MigrationAssumption
<1> DEFINE bound == Cardinality(Versions)
<1> HIDE DEF f
<1>6. \A i \in 0..bound : f[i] = IF i = 0 THEN StartAt(from) ELSE TakeNode(f[i - 1], known, to)
  BY <1>5
<1> HIDE DEF bound
<1>7. f[0] = StartAt(from)
  BY <1>5, <1>6 DEF bound
<1>8. ASSUME NEW n \in 0..(bound - 1) PROVE f[n + 1] = TakeNode(f[n], known, to)
  <2>0. bound \in Nat
    BY <1>5 DEF bound
  <2>1. n + 1 \in 0..bound /\ n + 1 # 0 /\ (n + 1) - 1 = n
    BY <2>0
  <2>2. QED
    BY <1>6, <2>1
<1>9. QED
  BY <1>4, <1>7, <1>8 DEF bound

LEMMA StartSound ==
  ASSUME NEW known \in Seq(StepDefinitions), NEW from \in Versions, NEW to \in Versions,
         from # to
  PROVE  /\ ChainSearchSound(StartAt(from), known, from, to)
         /\ StartAt(from).visited \ Waiting(StartAt(from)) = {}
<1> DEFINE s == StartAt(from)
           node == [version |-> from, path |-> <<>>]
<1>1. s.queue = <<node>> /\ s.visited = {from} /\ s.found = NoPath
  BY DEF StartAt
<1>2. <<>> \in Seq(Range(known)) /\ Len(<<>>) = 0
  OBVIOUS
<1>3. node \in SearchNode(known) /\ node.version = from /\ node.path = <<>>
  BY <1>2 DEF SearchNode
<1> HIDE DEF node
<1>4. <<node>> \in Seq(SearchNode(known)) /\ Len(<<node>>) = 1 /\ <<node>>[1] = node
  BY <1>3
<1>5. s \in ChainSearchType(known)
  BY <1>4 DEF StartAt, ChainSearchType, node
<1> HIDE DEF s
<1>6. 1..1 = {1} /\ 0..(0 - 1) = {} /\ s.queue[1] = node /\ Len(s.queue) = 1
  BY <1>1, <1>4
<1>7. Waiting(s) = {from}
  BY <1>3, <1>6 DEF Waiting
<1>8. s.visited \ Waiting(s) = {}
  BY <1>1, <1>7
<1>9. QueueSound(s, known, from, 0)
  <2>1. LeadsTo(known, from, <<>>, from)
    BY <1>2 DEF LeadsTo
  <2>2. \A i \in 1..Len(s.queue) : s.queue[i] = node
    BY <1>6
  <2>3. \A i, j \in 1..Len(s.queue) : i = j
    BY <1>6
  <2>4. QED
    BY <1>1, <1>2, <1>3, <1>6, <2>1, <2>2, <2>3 DEF QueueSound
<1>10. DoneSound(s, known, from, to, {}, 0)
  BY <1>1, <1>6 DEF DoneSound
<1>11. ChainSearchSound(s, known, from, to)
  BY <1>1, <1>2, <1>3, <1>5, <1>6, <1>8, <1>9, <1>10 DEF ChainSearchSound
<1>12. QED
  BY <1>8, <1>11 DEF s

\* resolvePath() finds a shortest chain, or there is none
\* (src/migrations/migrationRegistry.ts:57).
LEMMA PathResolved ==
  ASSUME NEW known \in Seq(StepDefinitions), NEW from \in Versions, NEW to \in Versions,
         from # to, NEW path, path = ResolvePath(known, from, to)
  PROVE  \/ path = NoPath /\ \A k \in Nat : k > 0 => Chains(known, from, to, k) = {}
         \/ /\ path \in Seq(Range(known)) /\ path # <<>> /\ path # NoPath
            /\ path \in Chains(known, from, to, Len(path))
            /\ \A k \in Nat : k > 0 /\ k < Len(path) => Chains(known, from, to, k) = {}
<1> DEFINE N == Cardinality(Versions)
<1>1. IsFiniteSet(Versions) /\ N \in Nat
  BY MigrationAssumption, FS_CardinalityType DEF MigrationAssumption
<1>2. PICK f : /\ f[0] = StartAt(from) /\ path = f[N].found
               /\ \A n \in 0..(N - 1) : f[n + 1] = TakeNode(f[n], known, to)
  BY TurnsTaken
<1> HIDE DEF N
<1> DEFINE Done(n) == f[n].visited \ Waiting(f[n])
           Good(n) == /\ ChainSearchSound(f[n], known, from, to)
                      /\ f[n].found = NoPath /\ f[n].queue # <<>> =>
                           IsFiniteSet(Done(n)) /\ Cardinality(Done(n)) = n
           T == {n \in Nat : n <= N => Good(n)}
<1>4. 0 \in T
  <2>1. ChainSearchSound(f[0], known, from, to) /\ Done(0) = {}
    BY <1>2, StartSound
  <2>2. QED
    BY <2>1, FS_EmptySet
<1>5. ASSUME NEW n \in Nat, n \in T PROVE n + 1 \in T
  <2> SUFFICES ASSUME n + 1 <= N PROVE Good(n + 1)
    OBVIOUS
  <2>1. n \in 0..(N - 1) /\ n <= N
    BY <1>1
  <2>2. Good(n) /\ f[n + 1] = TakeNode(f[n], known, to)
    BY <1>2, <1>5, <2>1
  <2>3. /\ ChainSearchSound(f[n + 1], known, from, to)
        /\ f[n].found # NoPath \/ f[n].queue = <<>> => f[n + 1] = f[n]
        /\ f[n].found = NoPath /\ f[n].queue # <<>> /\ f[n + 1].found = NoPath =>
             \E v \in Versions \ Done(n) : Done(n + 1) = Done(n) \cup {v}
    BY <2>2, TurnSound
  <2>4. ASSUME f[n + 1].found = NoPath, f[n + 1].queue # <<>>
        PROVE  IsFiniteSet(Done(n + 1)) /\ Cardinality(Done(n + 1)) = n + 1
    <3>1. f[n].found = NoPath /\ f[n].queue # <<>>
      BY <2>3, <2>4
    <3>2. PICK v \in Versions \ Done(n) : Done(n + 1) = Done(n) \cup {v}
      BY <2>3, <2>4, <3>1
    <3>3. IsFiniteSet(Done(n)) /\ Cardinality(Done(n)) = n /\ v \notin Done(n)
      BY <2>2, <3>1, <3>2
    <3>4. PICK before, after : before = Done(n) /\ after = Done(n + 1)
      OBVIOUS
    <3> HIDE DEF Done
    <3>5. IsFiniteSet(after) /\ Cardinality(after) = n + 1
      BY <3>2, <3>3, <3>4, FS_AddElement
    <3>6. QED
      BY <3>4, <3>5
  <2>5. QED
    BY <2>3, <2>4
<1>6. Good(N)
  <2> HIDE DEF T
  <2>1. Nat \subseteq T
    BY <1>4, <1>5, SetInduction
  <2>2. N \in T
    BY <1>1, <2>1
  <2> HIDE DEF Good
  <2>3. N <= N
    BY <1>1
  <2>4. QED
    BY <2>2, <2>3 DEF T
<1> DEFINE s == f[N]
<1>7. s \in ChainSearchType(known) /\ path = s.found
  BY <1>2, <1>6 DEF ChainSearchSound
<1>8. CASE s.found # NoPath
  <2>1. FoundShortest(s, known, from, to)
    BY <1>6, <1>8 DEF ChainSearchSound
  <2>2. QED
    BY <1>7, <1>8, <2>1 DEF FoundShortest, ChainSearchType
<1>9. CASE s.found = NoPath
  <2>1. PICK low \in Nat :
          /\ QueueSound(s, known, from, low)
          /\ DoneSound(s, known, from, to, s.visited \ Waiting(s), low)
    BY <1>6, <1>9 DEF ChainSearchSound
  <2>2. s.queue = <<>>
    <3> SUFFICES ASSUME s.queue # <<>> PROVE FALSE
      OBVIOUS
    <3>1. IsFiniteSet(Done(N)) /\ Cardinality(Done(N)) = N
      BY <1>6, <1>9
    <3>2. s.visited \subseteq Versions
      BY <1>7 DEF ChainSearchType
    <3>3. Done(N) = Versions
      <4>1. Done(N) \subseteq Versions
        BY <3>2
      <4> HIDE DEF Done
      <4>2. QED
        BY <1>1, <3>1, <4>1, FS_Subset DEF N
    <3>4. 1 \in 1..Len(s.queue)
      BY <1>7, HeadTaken DEF ChainSearchType
    <3>5. s.queue[1].version \in Waiting(s) /\ s.queue[1].version \in s.visited
      BY <2>1, <3>4 DEF QueueSound, Waiting
    <3>6. QED
      BY <3>2, <3>3, <3>5
  <2>3. Waiting(s) = {}
    BY <2>2 DEF Waiting
  <2> DEFINE U == {k \in Nat : \A v \in Versions : Reached(known, from, v, k) => v \in s.visited}
  <2>4. 0 \in U
    BY <2>1 DEF Reached, DoneSound
  <2>5. ASSUME NEW k \in Nat, k \in U PROVE k + 1 \in U
    <3> SUFFICES ASSUME NEW v \in Versions, Reached(known, from, v, k + 1) PROVE v \in s.visited
      OBVIOUS
    <3>1. k + 1 \in Nat /\ k + 1 > 0 /\ (k + 1) - 1 = k
      OBVIOUS
    <3>2. PICK e \in Range(known) : e.to = v /\ Reached(known, from, e.from, k)
      BY <3>1, LastStep
    <3>3. e.from \in s.visited
      BY <2>5, <3>2, KnownSteps
    <3>4. QED
      BY <2>1, <2>3, <3>2, <3>3 DEF DoneSound
  <2>6. Nat \subseteq U
    <3> HIDE DEF U
    <3>1. QED
      BY <2>4, <2>5, SetInduction
  <2>7. to \notin s.visited
    BY <2>1 DEF DoneSound
  <2>8. \A k \in Nat : k > 0 => Chains(known, from, to, k) = {}
    BY <2>6, <2>7 DEF Reached
  <2>9. QED
    BY <1>7, <1>9, <2>8
<1>10. QED
  BY <1>8, <1>9
-----------------------------------------------------------------------------
\* No step is twice in a shortest chain, so that it is no longer than the registry.
LEMMA ShortestIsShort ==
  ASSUME NEW known \in Seq(StepDefinitions), NEW from \in Versions, NEW to \in Versions,
         NEW path \in Seq(Range(known)), path # <<>>,
         path \in Chains(known, from, to, Len(path)),
         \A k \in Nat : k > 0 /\ k < Len(path) => Chains(known, from, to, k) = {}
  PROVE  Len(path) <= Len(known)
<1> DEFINE n == Len(path)
<1>1. /\ n \in Nat /\ n > 0 /\ path \in [1..n -> Range(known)]
      /\ path[1].from = from /\ path[n].to = to
      /\ \A i \in 1..(n - 1) : path[i].to = path[i + 1].from
      /\ \A i \in 1..n : path[i] \in Range(known)
  <2>1. n \in Nat /\ n > 0
    BY EmptySeq
  <2>2. \A i \in 1..n : path[i] \in Range(known)
    OBVIOUS
  <2>3. QED
    BY <2>1, <2>2 DEF Chains
<1> HIDE DEF n
<1>2. ASSUME NEW i \in 1..n, NEW j \in 1..n, path[i] = path[j], i < j PROVE FALSE
  <2> DEFINE m == n - (j - i)
             c == [k \in 1..m |-> IF k <= i THEN path[k] ELSE path[k + (j - i)]]
  <2>1. m \in Nat /\ m > 0 /\ m < n /\ i <= m
    BY <1>1, <1>2
  <2> HIDE DEF m
  <2>2. c \in [1..m -> Range(known)]
    <3> SUFFICES ASSUME NEW k \in 1..m
                 PROVE  (IF k <= i THEN path[k] ELSE path[k + (j - i)]) \in Range(known)
      OBVIOUS
    <3>1. k <= i => k \in 1..n
      BY <1>1
    <3>2. ~(k <= i) => k + (j - i) \in 1..n
      BY <1>1, <1>2 DEF m
    <3>3. QED
      BY <1>1, <3>1, <3>2
  <2>3. c[1].from = from
    <3>1. 1 \in 1..m /\ 1 <= i
      BY <2>1
    <3>2. QED
      BY <1>1, <3>1
  <2>4. c[m].to = to
    <3>1. CASE m = i
      <4>1. j = n
        BY <1>1, <1>2, <3>1 DEF m
      <4>2. QED
        BY <1>1, <1>2, <2>1, <3>1, <4>1
    <3>2. CASE m # i
      <4>1. m + (j - i) = n /\ ~(m <= i) /\ m \in 1..m
        BY <1>1, <1>2, <2>1, <3>2 DEF m
      <4>2. QED
        BY <1>1, <4>1
    <3>3. QED
      BY <3>1, <3>2
  <2>5. ASSUME NEW k \in 1..(m - 1) PROVE c[k].to = c[k + 1].from
    <3>1. k \in 1..m /\ k + 1 \in 1..m
      BY <2>1
    <3>2. CASE k + 1 <= i
      <4>1. k \in 1..(n - 1) /\ k <= i
        BY <1>1, <3>2
      <4>2. QED
        BY <1>1, <3>1, <3>2, <4>1
    <3>3. CASE k = i
      <4>1. (i + 1) + (j - i) = j + 1 /\ ~(i + 1 <= i) /\ j \in 1..(n - 1)
        <5>1. i \in Nat /\ j \in Nat /\ j >= 1 /\ n \in Nat /\ i <= m - 1
          BY <1>1, <2>1, <3>3
        <5>2. (i + 1) + (j - i) = j + 1 /\ ~(i + 1 <= i)
          BY <5>1
        <5>3. j <= n - 1
          BY <5>1 DEF m
        <5>4. QED
          BY <5>1, <5>2, <5>3
      <4>2. c[k] = path[j] /\ c[k + 1] = path[j + 1]
        BY <1>2, <3>1, <3>3, <4>1
      <4>3. QED
        BY <1>1, <4>1, <4>2
    <3>4. CASE k > i
      <4>1. /\ ~(k <= i) /\ ~(k + 1 <= i) /\ k + (j - i) \in 1..(n - 1)
            /\ (k + 1) + (j - i) = (k + (j - i)) + 1
        <5>1. k \in Nat /\ k <= m - 1 /\ i \in Nat /\ j \in Nat /\ j > i /\ k > i
          BY <1>1, <1>2, <2>1, <3>4
        <5>2. k + (j - i) <= n - 1 /\ k + (j - i) >= 1
          BY <1>1, <5>1 DEF m
        <5>3. ~(k <= i) /\ ~(k + 1 <= i) /\ (k + 1) + (j - i) = (k + (j - i)) + 1
          BY <5>1
        <5>4. k + (j - i) \in Int /\ n - 1 \in Int
          BY <1>1, <5>1
        <5>5. QED
          BY <5>2, <5>3, <5>4
      <4>2. c[k] = path[k + (j - i)] /\ c[k + 1] = path[(k + (j - i)) + 1]
        BY <3>1, <4>1
      <4>3. QED
        BY <1>1, <4>1, <4>2
    <3>5. QED
      BY <3>2, <3>3, <3>4
  <2> HIDE DEF c
  <2>6. c \in Chains(known, from, to, m)
    BY <2>2, <2>3, <2>4, <2>5 DEF Chains
  <2>7. QED
    BY <2>1, <2>6 DEF n
<1>3. ASSUME NEW i \in 1..n, NEW j \in 1..n, path[i] = path[j] PROVE i = j
  <2>1. ~(i < j) /\ ~(j < i)
    BY <1>2, <1>3
  <2>2. QED
    BY <2>1
<1> DEFINE place == [i \in 1..n |-> CHOOSE k \in 1..Len(known) : known[k] = path[i]]
<1>4. ASSUME NEW i \in 1..n PROVE place[i] \in 1..Len(known) /\ known[place[i]] = path[i]
  <2>1. \E k \in 1..Len(known) : known[k] = path[i]
    BY <1>1 DEF Range
  <2>2. QED
    BY <2>1
<1>5. PICK len, f : len = Len(known) /\ f = place
  OBVIOUS
<1>6. f \in [1..n -> 1..len] /\ len \in Nat
  BY <1>4, <1>5
<1>7. f \in Injection(1..n, 1..len)
  <2>1. \A i, j \in 1..n : f[i] = f[j] => i = j
    BY <1>3, <1>4, <1>5
  <2>2. QED
    BY <1>6, <2>1 DEF Injection, IsInjective
<1>8. /\ IsFiniteSet(1..n) /\ Cardinality(1..n) = n
      /\ IsFiniteSet(1..len) /\ Cardinality(1..len) = len
  <2>1. 1 \in Int /\ n \in Int /\ len \in Int
    BY <1>1, <1>6
  <2>2. QED
    BY <1>1, <1>6, <2>1, FS_Interval
<1>9. Cardinality(1..n) <= Cardinality(1..len)
  BY <1>7, <1>8, FS_Injection
<1>10. QED
  BY <1>5, <1>8, <1>9 DEF n
-----------------------------------------------------------------------------
(* The runner *)

MigrationStatuses == {"none", "thrown", "completed", "failed", "rolled_back"}

RunType ==
  [phase : {"idle", "running", "undoing", "done"}, from : Versions \cup {Odd},
   to : Versions \cup {Odd}, plan : Seq(StepDefinitions) \cup {NoPath}, dryRun : BOOLEAN,
   rollbackOnFailure : BOOLEAN, validate : BOOLEAN, initial : Versions \cup {Odd},
   state : Versions \cup {Odd}, next : Nat, failure : {"none", "error", "falsy"},
   failed : {0, 1}, undo : Nat, allRolledBack : BOOLEAN,
   rollbacks : Seq({"failed", "succeeded"}), slipped : BOOLEAN,
   status : MigrationStatuses]

\* A chain from one version to the other, as long as the registry at the most.
PlanSound(m) ==
  /\ m.plan \in Seq(StepDefinitions) /\ Len(m.plan) <= MaxSteps
  /\ m.next \in 1..(Len(m.plan) + 1)
  /\ m.plan # <<>> => m.plan[1].from = m.from /\ m.plan[Len(m.plan)].to = m.to
  /\ \A i \in 1..(Len(m.plan) - 1) : m.plan[i].to = m.plan[i + 1].from

\* Where the completed steps have taken the state.
ReachedBy(m) == IF m.next = 1 THEN m.initial ELSE m.plan[m.next - 1].to

Untouched(m) == m.rollbacks = <<>> /\ ~m.slipped /\ m.status = "none"

\* The run goes forward: nothing has failed yet.
GoesForward(m) ==
  /\ m.failure = "none" /\ m.failed = 0 /\ Untouched(m)
  /\ m.validate => m.state = ReachedBy(m)

\* The run goes back, and as long as everything succeeds the state is where the
\* step that is next to be undone has left it.
Backward(m) ==
  /\ m.failure = "error" /\ m.failed = 1 /\ m.rollbackOnFailure /\ ~m.dryRun
  /\ m.undo <= m.next - 1
  /\ m.allRolledBack =>
       /\ m.next > 1 /\ Len(m.rollbacks) = (m.next - 1) - m.undo
       /\ m.validate /\ ~m.slipped =>
            m.state = IF m.undo = 0 THEN m.from ELSE m.plan[m.undo].to

\* What the report tells.
Outcome(m) ==
  LET rolling == m.failure = "error" /\ m.rollbackOnFailure /\ ~m.dryRun
  IN  /\ m.dryRun => m.state = m.initial
      /\ m.validate /\ ~m.dryRun /\ ~rolling => m.state = ReachedBy(m)
      /\ m.validate /\ ~m.dryRun /\ m.status = "completed" /\ m.failed = 0 =>
           m.state = (IF m.plan = <<>> THEN m.initial ELSE m.to)
      /\ m.status = "rolled_back" =>
           /\ rolling /\ m.next - 1 > 0 /\ Len(m.rollbacks) = m.next - 1
           /\ m.validate /\ ~m.slipped => m.state = m.from
      /\ m.status = "failed" => m.failed = 1

RunSound(m) ==
  /\ m \in RunType
  /\ m.phase = "idle" \/ m.status = "thrown" => m.next = 1
  /\ m.phase # "idle" /\ m.status # "thrown" => PlanSound(m)
  /\ m.phase = "running" => GoesForward(m)
  /\ m.phase = "undoing" => Backward(m) /\ m.status = "none"
  /\ m.phase = "done" /\ m.status # "thrown" => Outcome(m)

MigrationIInv ==
  /\ steps \in Seq(StepDefinitions) /\ Len(steps) <= MaxSteps
  /\ RunSound(migration)

LEMMA StatusSet ==
  ASSUME NEW m \in RunType, NEW status \in MigrationStatuses,
         NEW r, r = [m EXCEPT !.phase = "done", !.status = status]
  PROVE  /\ r \in RunType /\ r.phase = "done" /\ r.status = status
         /\ r.undo = m.undo /\ r.plan = m.plan /\ r.state = m.state
         /\ r.next = m.next /\ r.from = m.from /\ r.to = m.to
         /\ r.failure = m.failure /\ r.failed = m.failed
         /\ r.rollbackOnFailure = m.rollbackOnFailure /\ r.dryRun = m.dryRun
         /\ r.validate = m.validate /\ r.slipped = m.slipped
         /\ r.initial = m.initial /\ r.rollbacks = m.rollbacks
<1>1. r \in RunType
  BY DEF RunType
<1>2. /\ r.phase = "done" /\ r.status = status
      /\ r.undo = m.undo /\ r.plan = m.plan /\ r.state = m.state
      /\ r.next = m.next /\ r.from = m.from /\ r.to = m.to
      /\ r.failure = m.failure /\ r.failed = m.failed
      /\ r.rollbackOnFailure = m.rollbackOnFailure /\ r.dryRun = m.dryRun
      /\ r.validate = m.validate /\ r.slipped = m.slipped
      /\ r.initial = m.initial /\ r.rollbacks = m.rollbacks
  BY DEF RunType
<1>3. QED
  BY <1>1, <1>2

\* The end of run(): a failure leads back, or to the report.
LEMMA FinishSound ==
  ASSUME NEW m \in RunType, PlanSound(m), Untouched(m),
         \/ m.failure = "none" /\ m.failed = 0 /\ m.next = Len(m.plan) + 1
         \/ m.failure \in {"error", "falsy"} /\ m.failed = 1,
         m.validate => m.state = ReachedBy(m),
         NEW r, r = FinishRun(m)
  PROVE  RunSound(r)
<1>1. /\ m.plan \in Seq(StepDefinitions) /\ m.next \in Nat /\ m.next >= 1
      /\ m.next <= Len(m.plan) + 1 /\ Len(m.plan) \in Nat
  BY DEF PlanSound
<1>2. CASE m.failure = "error" /\ m.rollbackOnFailure /\ ~m.dryRun
  <2>1. r = [m EXCEPT !.phase = "undoing", !.undo = m.next - 1, !.allRolledBack = m.next > 1]
    BY <1>2 DEF FinishRun
  <2>2. m.next - 1 \in Nat
    BY <1>1
  <2>3. /\ r \in RunType /\ r.phase = "undoing" /\ r.undo = m.next - 1
        /\ (r.allRolledBack <=> m.next > 1)
        /\ r.plan = m.plan /\ r.next = m.next /\ r.from = m.from /\ r.to = m.to
        /\ r.failure = m.failure /\ r.failed = m.failed /\ r.dryRun = m.dryRun
        /\ r.rollbackOnFailure = m.rollbackOnFailure /\ r.validate = m.validate
        /\ r.state = m.state /\ r.rollbacks = m.rollbacks /\ r.status = m.status
    <3>1. PICK undo \in Nat, all \in BOOLEAN : undo = m.next - 1 /\ (all <=> m.next > 1)
      BY <2>2
    <3>2. r = [m EXCEPT !.phase = "undoing", !.undo = undo, !.allRolledBack = all]
      <4>1. all = (m.next > 1)
        BY <3>1
      <4>2. QED
        BY <2>1, <3>1, <4>1
    <3>3. r.phase = "undoing" /\ r.undo = undo /\ r.allRolledBack = all
      BY <3>2 DEF RunType
    <3>5. r \in RunType
      BY <3>2 DEF RunType
    <3>4. /\ r.plan = m.plan /\ r.next = m.next /\ r.from = m.from /\ r.to = m.to
          /\ r.failure = m.failure /\ r.failed = m.failed /\ r.dryRun = m.dryRun
          /\ r.rollbackOnFailure = m.rollbackOnFailure /\ r.validate = m.validate
          /\ r.state = m.state /\ r.rollbacks = m.rollbacks /\ r.status = m.status
      BY <3>2 DEF RunType
    <3>6. QED
      BY <3>1, <3>3, <3>4, <3>5
  <2>4. PlanSound(r)
    BY <2>3 DEF PlanSound
  <2>5. Backward(r)
    <3>1. m.failed = 1 /\ Len(m.rollbacks) = 0
      BY <1>2 DEF Untouched
    <3>2. (m.next - 1) - (m.next - 1) = 0 /\ m.next - 1 <= m.next - 1
      BY <1>1
    <3>3. m.next > 1 /\ m.validate =>
            m.state = IF m.next - 1 = 0 THEN m.from ELSE m.plan[m.next - 1].to
      BY <1>1 DEF ReachedBy
    <3>4. QED
      BY <1>2, <2>3, <3>1, <3>2, <3>3 DEF Backward
  <2>6. QED
    BY <2>3, <2>4, <2>5 DEF RunSound, Untouched
<1>3. CASE ~(m.failure = "error" /\ m.rollbackOnFailure /\ ~m.dryRun)
  <2>1. r = [m EXCEPT !.phase = "done",
               !.status = IF m.failure = "error" THEN "failed" ELSE "completed",
               !.state = IF m.dryRun THEN m.initial ELSE m.state]
    BY <1>3 DEF FinishRun
  <2>2. /\ r \in RunType /\ r.phase = "done"
        /\ r.status = (IF m.failure = "error" THEN "failed" ELSE "completed")
        /\ r.state = (IF m.dryRun THEN m.initial ELSE m.state)
        /\ r.plan = m.plan /\ r.next = m.next /\ r.from = m.from /\ r.to = m.to
        /\ r.failure = m.failure /\ r.failed = m.failed /\ r.dryRun = m.dryRun
        /\ r.rollbackOnFailure = m.rollbackOnFailure /\ r.validate = m.validate
        /\ r.initial = m.initial /\ r.rollbacks = m.rollbacks
    <3>1. PICK status \in {"failed", "completed"}, state \in {m.initial, m.state} :
            /\ status = IF m.failure = "error" THEN "failed" ELSE "completed"
            /\ state = IF m.dryRun THEN m.initial ELSE m.state
      OBVIOUS
    <3>2. r = [m EXCEPT !.phase = "done", !.status = status, !.state = state]
      BY <2>1, <3>1
    <3>3. state \in Versions \cup {Odd}
      BY <3>1 DEF RunType
    <3>4. r \in RunType
      <4>1. PICK p : p = [m EXCEPT !.phase = "done", !.status = status]
        OBVIOUS
      <4>2. status \in MigrationStatuses
        BY <3>1 DEF MigrationStatuses
      <4>3. p \in RunType
        BY <4>1, <4>2, StatusSet
      <4>4. r = [p EXCEPT !.state = state]
        BY <3>2, <4>1
      <4>5. QED
        BY <3>3, <4>3, <4>4 DEF RunType
    <3>5. /\ r.phase = "done" /\ r.status = status /\ r.state = state
          /\ r.plan = m.plan /\ r.next = m.next /\ r.from = m.from /\ r.to = m.to
          /\ r.failure = m.failure /\ r.failed = m.failed /\ r.dryRun = m.dryRun
          /\ r.rollbackOnFailure = m.rollbackOnFailure /\ r.validate = m.validate
          /\ r.initial = m.initial /\ r.rollbacks = m.rollbacks
      BY <3>2 DEF RunType
    <3>6. QED
      BY <3>1, <3>4, <3>5
  <2>3. PlanSound(r)
    BY <2>2 DEF PlanSound
  <2>4. r.validate /\ ~r.dryRun => r.state = ReachedBy(r)
    BY <2>2 DEF ReachedBy
  <2>5. ASSUME r.validate, ~r.dryRun, r.status = "completed", r.failed = 0
        PROVE  r.state = (IF r.plan = <<>> THEN r.initial ELSE r.to)
    <3>1. m.next = Len(m.plan) + 1
      BY <2>2, <2>5
    <3>2. CASE m.plan = <<>>
      BY <2>2, <2>4, <2>5, <3>1, <3>2 DEF ReachedBy
    <3>3. CASE m.plan # <<>>
      <4>1. Len(m.plan) > 0
        BY <1>1, <3>3, EmptySeq
      <4>2. m.next # 1 /\ m.next - 1 = Len(m.plan)
        BY <1>1, <3>1, <4>1
      <4>3. m.plan[Len(m.plan)].to = m.to
        BY <3>3 DEF PlanSound
      <4>4. QED
        BY <2>2, <2>4, <2>5, <3>3, <4>2, <4>3 DEF ReachedBy
    <3>4. QED
      BY <3>2, <3>3
  <2>6. Outcome(r)
    BY <1>3, <2>2, <2>4, <2>5 DEF Outcome
  <2>7. QED
    BY <2>2, <2>3, <2>6 DEF RunSound
<1>4. QED
  BY <1>2, <1>3
LEMMA PlanResolved ==
  ASSUME NEW known \in Seq(StepDefinitions), Len(known) <= MaxSteps,
         NEW from \in Versions, NEW to \in Versions,
         NEW path, path = ResolvePath(known, from, to), path # NoPath
  PROVE  /\ path \in Seq(StepDefinitions) /\ Len(path) <= MaxSteps
         /\ path # <<>> => path[1].from = from /\ path[Len(path)].to = to
         /\ \A i \in 1..(Len(path) - 1) : path[i].to = path[i + 1].from
<1>1. CASE from = to
  <2>1. path = <<>>
    BY <1>1 DEF ResolvePath
  <2>2. <<>> \in Seq(StepDefinitions) /\ Len(<<>>) = 0 /\ 1..(0 - 1) = {}
    OBVIOUS
  <2>3. MaxSteps \in Nat
    BY MigrationAssumption DEF MigrationAssumption
  <2>4. QED
    BY <2>1, <2>2, <2>3
<1>2. CASE from # to
  <2>1. /\ path \in Seq(Range(known)) /\ path # <<>> /\ path \in Chains(known, from, to, Len(path))
        /\ \A k \in Nat : k > 0 /\ k < Len(path) => Chains(known, from, to, k) = {}
    BY <1>2, PathResolved
  <2>2. Len(path) <= Len(known)
    BY <2>1, ShortestIsShort
  <2>3. path \in Seq(StepDefinitions)
    <3>1. Range(known) \subseteq StepDefinitions
      BY DEF Range
    <3>2. QED
      BY <2>1, <3>1
  <2>4. MaxSteps \in Nat /\ Len(known) \in Nat /\ Len(path) \in Nat
    BY <2>3, MigrationAssumption DEF MigrationAssumption
  <2>5. Len(path) <= MaxSteps
    BY <2>2, <2>4
  <2>6. QED
    BY <2>1, <2>3, <2>5 DEF Chains
<1>3. QED
  BY <1>1, <1>2

\* What the search promises, of every registry.
LEMMA ShortestPaths ==
  ASSUME steps \in Seq(StepDefinitions)
  PROVE  PathsAreShortest
<1> DEFINE Reachable(from, to, n) == \E k \in 1..n : Chains(steps, from, to, k) # {}
           Promised(from, to, path) ==
             \/ path = <<>> /\ from = to
             \/ path = NoPath /\ from # to /\ ~Reachable(from, to, Len(steps))
             \/ /\ path \in Chains(steps, from, to, Len(path))
                /\ from # to /\ ~Reachable(from, to, Len(path) - 1)
<1>1. ASSUME NEW from \in Versions, NEW to \in Versions, NEW path,
             path = ResolvePath(steps, from, to)
      PROVE  Promised(from, to, path)
  <2>1. CASE from = to
    <3>1. path = <<>>
      BY <1>1, <2>1 DEF ResolvePath
    <3>2. QED
      BY <2>1, <3>1
  <2>2. CASE from # to
    <3>1. CASE path = NoPath /\ \A k \in Nat : k > 0 => Chains(steps, from, to, k) = {}
      <4>1. \A k \in 1..Len(steps) : Chains(steps, from, to, k) = {}
        BY <3>1
      <4>2. QED
        BY <2>2, <3>1, <4>1
    <3>2. CASE /\ path \in Seq(Range(steps)) /\ path \in Chains(steps, from, to, Len(path))
               /\ \A k \in Nat : k > 0 /\ k < Len(path) => Chains(steps, from, to, k) = {}
      <4>1. Len(path) \in Nat
        BY <3>2
      <4>2. \A k \in 1..(Len(path) - 1) : Chains(steps, from, to, k) = {}
        BY <3>2, <4>1
      <4>3. QED
        BY <2>2, <3>2, <4>2
    <3>3. QED
      BY <1>1, <2>2, <3>1, <3>2, PathResolved
  <2>3. QED
    BY <2>1, <2>2
<1>2. {steps[i].from : i \in DOMAIN steps} \subseteq Versions
  BY MigrationAssumption DEF MigrationAssumption
<1>3. ASSUME NEW from \in {steps[i].from : i \in DOMAIN steps}, NEW to \in Versions
      PROVE  Promised(from, to, ResolvePath(steps, from, to))
  <2>1. from \in Versions
    BY <1>2
  <2>2. PICK path : path = ResolvePath(steps, from, to)
    OBVIOUS
  <2> HIDE DEF Promised
  <2>3. Promised(from, to, path)
    BY <1>1, <2>1, <2>2
  <2>4. QED
    BY <2>2, <2>3
<1>4. QED
  BY <1>3 DEF PathsAreShortest

\* register() and unregister() leave a registry of steps.
LEMMA StepsKept ==
  ASSUME MigrationIInv, NEW id
  PROVE  Without(id) \in Seq(StepDefinitions) /\ Len(Without(id)) <= Len(steps)
<1>1. steps \in Seq(StepDefinitions) /\ Len(steps) \in Nat /\ DOMAIN steps = 1..Len(steps)
  BY DEF MigrationIInv
<1>2. CASE \E k \in DOMAIN steps : steps[k].id = id
  <2>1. PICK k, t : /\ k = (CHOOSE j \in DOMAIN steps : steps[j].id = id)
                    /\ t = RemoveAt(steps, k)
    OBVIOUS
  <2>2. k \in 1..Len(steps) /\ Without(id) = t
    BY <1>1, <1>2, <2>1 DEF Without
  <2>3. t \in Seq(StepDefinitions) /\ Len(t) = Len(steps) - 1
    BY <1>1, <2>1, <2>2, Removed
  <2>4. QED
    BY <1>1, <2>2, <2>3
<1>3. CASE ~\E k \in DOMAIN steps : steps[k].id = id
  <2>1. Without(id) = steps
    BY <1>3 DEF Without
  <2>2. QED
    BY <1>1, <2>1
<1>4. QED
  BY <1>2, <1>3

LEMMA RegistryKeeps ==
  ASSUME MigrationIInv, NEW s \in StepDefinitions, RegisterStep(s) \/ UnregisterStep(s.id)
  PROVE  MigrationIInv'
<1>1. PICK rest : rest = Without(s.id)
  OBVIOUS
<1>2. rest \in Seq(StepDefinitions) /\ Len(rest) <= Len(steps)
  BY <1>1, StepsKept
<1>3. /\ steps \in Seq(StepDefinitions) /\ Len(steps) <= MaxSteps /\ Len(steps) \in Nat
      /\ Len(rest) \in Nat /\ MaxSteps \in Nat /\ RunSound(migration)
  BY <1>2, MigrationAssumption DEF MigrationIInv, MigrationAssumption
<1>4. migration' = migration
  BY DEF RegisterStep, UnregisterStep
<1>5. CASE steps' = Append(rest, s) /\ Len(rest) < MaxSteps
  <2>1. steps' \in Seq(StepDefinitions) /\ Len(steps') = Len(rest) + 1
    BY <1>2, <1>5
  <2>2. Len(steps') <= MaxSteps
    BY <1>3, <1>5, <2>1
  <2>3. QED
    BY <1>3, <1>4, <2>1, <2>2 DEF MigrationIInv
<1>6. CASE steps' = rest
  BY <1>2, <1>3, <1>4, <1>6 DEF MigrationIInv
<1>7. QED
  BY <1>1, <1>5, <1>6 DEF RegisterStep, UnregisterStep

LEMMA IdleTyped == Idle \in RunType
<1>1. <<>> \in Seq(StepDefinitions) /\ <<>> \in Seq({"failed", "succeeded"})
  OBVIOUS
<1>2. QED
  BY <1>1 DEF Idle, RunType, MigrationStatuses

LEMMA MigrateKeeps ==
  ASSUME MigrationIInv, NEW from \in Versions, NEW to \in Versions,
         NEW state \in Versions \cup {Odd},
         NEW dryRun \in BOOLEAN, NEW rollbackOnFailure \in BOOLEAN, NEW validate \in BOOLEAN,
         Migrate(from, to, state, dryRun, rollbackOnFailure, validate)
  PROVE  MigrationIInv'
<1>1. PICK path : path = ResolvePath(steps, from, to)
  OBVIOUS
<1>2. /\ steps' = steps
      /\ migration' =
           [Idle EXCEPT !.phase = IF path = NoPath THEN "done" ELSE "running",
              !.status = IF path = NoPath THEN "thrown" ELSE "none",
              !.from = from, !.to = to, !.plan = path, !.dryRun = dryRun,
              !.rollbackOnFailure = rollbackOnFailure, !.validate = validate,
              !.initial = state, !.state = state]
  BY <1>1 DEF Migrate
<1>3. steps \in Seq(StepDefinitions) /\ Len(steps) <= MaxSteps
  BY DEF MigrationIInv
<1>4. path \in Seq(StepDefinitions) \cup {NoPath}
  BY <1>1, <1>3, PlanResolved
<1>5. /\ migration' \in RunType
      /\ migration'.phase = (IF path = NoPath THEN "done" ELSE "running")
      /\ migration'.status = (IF path = NoPath THEN "thrown" ELSE "none")
      /\ migration'.from = from /\ migration'.to = to /\ migration'.plan = path
      /\ migration'.initial = state /\ migration'.state = state
  <2>1. PICK phase \in {"done", "running"}, status \in {"thrown", "none"} :
          /\ phase = IF path = NoPath THEN "done" ELSE "running"
          /\ status = IF path = NoPath THEN "thrown" ELSE "none"
    OBVIOUS
  <2>2. PICK m : m = [phase |-> phase, from |-> from, to |-> to, plan |-> path,
                      dryRun |-> dryRun, rollbackOnFailure |-> rollbackOnFailure,
                      validate |-> validate, initial |-> state, state |-> state, next |-> 1,
                      failure |-> "none", failed |-> 0, undo |-> 0, allRolledBack |-> FALSE,
                      rollbacks |-> <<>>, slipped |-> FALSE, status |-> status]
    OBVIOUS
  <2>3. migration' = m
    <3>1. migration' = [Idle EXCEPT !.phase = phase, !.status = status,
              !.from = from, !.to = to, !.plan = path, !.dryRun = dryRun,
              !.rollbackOnFailure = rollbackOnFailure, !.validate = validate,
              !.initial = state, !.state = state]
      BY <1>2, <2>1
    <3>2. migration' = [phase |-> phase, from |-> from, to |-> to, plan |-> path,
                      dryRun |-> dryRun, rollbackOnFailure |-> rollbackOnFailure,
                      validate |-> validate, initial |-> state, state |-> state, next |-> 1,
                      failure |-> "none", failed |-> 0, undo |-> 0, allRolledBack |-> FALSE,
                      rollbacks |-> <<>>, slipped |-> FALSE, status |-> status]
      BY <3>1 DEF Idle
    <3>3. QED
      BY <2>2, <3>2
  <2>4. /\ <<>> \in Seq({"failed", "succeeded"}) /\ 0 \in Nat /\ 1 \in Nat
        /\ phase \in {"idle", "running", "undoing", "done"}
        /\ status \in {"none", "thrown", "completed", "failed", "rolled_back"}
        /\ from \in Versions \cup {Odd} /\ to \in Versions \cup {Odd}
    OBVIOUS
  <2>5. m \in RunType
    BY <1>4, <2>2, <2>4 DEF RunType, MigrationStatuses
  <2>6. QED
    BY <2>1, <2>2, <2>3, <2>5
<1>6. /\ migration'.next = 1 /\ migration'.failure = "none" /\ migration'.failed = 0
      /\ migration'.rollbacks = <<>> /\ migration'.slipped = FALSE
  BY <1>2 DEF Idle
<1>7. CASE path = NoPath
  BY <1>2, <1>3, <1>5, <1>6, <1>7 DEF MigrationIInv, RunSound
<1>8. CASE path # NoPath
  <2>1. /\ path \in Seq(StepDefinitions) /\ Len(path) <= MaxSteps
        /\ path # <<>> => path[1].from = from /\ path[Len(path)].to = to
        /\ \A i \in 1..(Len(path) - 1) : path[i].to = path[i + 1].from
    BY <1>1, <1>3, <1>8, PlanResolved
  <2>2. 1 \in 1..(Len(path) + 1)
    BY <2>1
  <2>3. PlanSound(migration')
    BY <1>5, <1>6, <2>1, <2>2 DEF PlanSound
  <2>4. GoesForward(migration')
    BY <1>5, <1>6, <1>8 DEF GoesForward, Untouched, ReachedBy
  <2>5. QED
    BY <1>2, <1>3, <1>5, <1>8, <2>3, <2>4 DEF MigrationIInv, RunSound
<1>9. QED
  BY <1>7, <1>8
\* A step that fails ends the run.
LEMMA FailKeeps ==
  ASSUME MigrationIInv, migration.phase = "running",
         NEW failure \in {"error", "falsy"}, FailStep(failure), steps' = steps
  PROVE  MigrationIInv'
<1> DEFINE m == [migration EXCEPT !.failure = failure, !.failed = 1]
<1>1. /\ migration \in RunType /\ migration.status = "none" /\ Untouched(migration)
      /\ migration.validate => migration.state = ReachedBy(migration)
      /\ steps \in Seq(StepDefinitions) /\ Len(steps) <= MaxSteps
  BY DEF MigrationIInv, RunSound, GoesForward, Untouched
<1>2. PlanSound(migration)
  BY <1>1 DEF MigrationIInv, RunSound
<1>3. /\ m \in RunType /\ m.failure = failure /\ m.failed = 1 /\ m.plan = migration.plan
      /\ m.next = migration.next /\ m.from = migration.from /\ m.to = migration.to
      /\ m.rollbacks = migration.rollbacks /\ m.slipped = migration.slipped
      /\ m.status = migration.status /\ m.validate = migration.validate
      /\ m.state = migration.state /\ m.initial = migration.initial
  BY <1>1 DEF RunType
<1>4. migration' = FinishRun(m)
  BY DEF FailStep
<1> HIDE DEF m
<1>5. PlanSound(m) /\ Untouched(m)
  BY <1>1, <1>2, <1>3 DEF PlanSound, Untouched
<1>6. m.validate => m.state = ReachedBy(m)
  BY <1>1, <1>3 DEF ReachedBy
<1>7. RunSound(migration')
  BY <1>3, <1>4, <1>5, <1>6, FinishSound
<1>8. QED
  BY <1>1, <1>7 DEF MigrationIInv

\* A turn of the loop of run().
LEMMA RunStepKeeps ==
  ASSUME MigrationIInv, RunStep
  PROVE  MigrationIInv'
<1> DEFINE s == migration.plan[migration.next]
<1>1. /\ migration.phase = "running" /\ migration.next <= Len(migration.plan) /\ steps' = steps
      /\ \/ \E failure \in {"error", "falsy"} : FailStep(failure)
         \/ \E state \in Makes(migration.state, s.from, s.to) :
              /\ migration.validate => state = s.to
              /\ migration' = [migration EXCEPT !.state = state, !.next = migration.next + 1]
  BY DEF RunStep
<1>2. CASE \E failure \in {"error", "falsy"} : FailStep(failure)
  BY <1>1, <1>2, FailKeeps
<1>3. ASSUME NEW state \in Makes(migration.state, s.from, s.to), migration.validate => state = s.to,
             migration' = [migration EXCEPT !.state = state, !.next = migration.next + 1]
      PROVE  MigrationIInv'
  <2>1. /\ migration \in RunType /\ PlanSound(migration) /\ GoesForward(migration)
        /\ steps \in Seq(StepDefinitions) /\ Len(steps) <= MaxSteps
    BY <1>1 DEF MigrationIInv, RunSound, GoesForward, Untouched
  <2>2. /\ migration.plan \in Seq(StepDefinitions) /\ migration.next \in Nat
        /\ migration.next >= 1 /\ Len(migration.plan) \in Nat
    BY <2>1 DEF PlanSound
  <2>3. /\ migration.next \in 1..Len(migration.plan)
        /\ migration.next + 1 \in 1..(Len(migration.plan) + 1) /\ migration.next + 1 \in Nat
    <3>1. PICK next, len : next = migration.next /\ len = Len(migration.plan)
      OBVIOUS
    <3>2. next \in Nat /\ next >= 1 /\ len \in Nat /\ next <= len
      BY <1>1, <2>2, <3>1
    <3>3. next \in 1..len /\ next + 1 \in 1..(len + 1) /\ next + 1 \in Nat
      BY <3>2
    <3>4. QED
      BY <3>1, <3>3
  <2>4. state \in Versions \cup {Odd}
    <3>1. s \in StepDefinitions
      BY <2>2, <2>3
    <3>2. s.to \in Versions
      BY <3>1, MigrationAssumption DEF MigrationAssumption
    <3>3. QED
      BY <1>3, <3>2 DEF Makes
  <2>5. PICK next : next = migration.next + 1
    OBVIOUS
  <2>6. /\ migration' \in RunType /\ migration'.state = state /\ migration'.next = next
        /\ migration'.plan = migration.plan /\ migration'.phase = migration.phase
        /\ migration'.from = migration.from /\ migration'.to = migration.to
        /\ migration'.validate = migration.validate /\ migration'.status = migration.status
        /\ migration'.rollbacks = migration.rollbacks /\ migration'.slipped = migration.slipped
        /\ migration'.failure = migration.failure /\ migration'.failed = migration.failed
    BY <1>3, <2>1, <2>3, <2>4, <2>5 DEF RunType
  <2>7. PlanSound(migration')
    BY <2>1, <2>3, <2>5, <2>6 DEF PlanSound
  <2>8. migration'.validate => migration'.state = ReachedBy(migration')
    <3>1. next # 1 /\ next - 1 = migration.next
      BY <2>2, <2>5
    <3>2. QED
      BY <1>3, <2>6, <3>1 DEF ReachedBy
  <2>9. GoesForward(migration')
    BY <2>1, <2>6, <2>8 DEF GoesForward, Untouched
  <2>10. QED
    BY <1>1, <2>1, <2>6, <2>7, <2>9 DEF MigrationIInv, RunSound, GoesForward, Untouched
<1>4. QED
  BY <1>1, <1>2, <1>3

LEMMA RunEndKeeps ==
  ASSUME MigrationIInv, RunEndsWell
  PROVE  MigrationIInv'
<1>1. /\ migration.phase = "running" /\ migration.next > Len(migration.plan) /\ steps' = steps
      /\ migration' = FinishRun(migration)
  BY DEF RunEndsWell
<1>2. /\ migration \in RunType /\ PlanSound(migration) /\ GoesForward(migration)
      /\ steps \in Seq(StepDefinitions) /\ Len(steps) <= MaxSteps
  BY <1>1 DEF MigrationIInv, RunSound, GoesForward, Untouched
<1>3. migration.next = Len(migration.plan) + 1
  BY <1>1, <1>2 DEF PlanSound
<1>4. RunSound(migration')
  BY <1>1, <1>2, <1>3, FinishSound DEF GoesForward
<1>5. QED
  BY <1>1, <1>2, <1>4 DEF MigrationIInv

\* A turn of the loop of rollback().
LEMMA RollbackStepKeeps ==
  ASSUME MigrationIInv, RollbackStep
  PROVE  MigrationIInv'
<1> DEFINE s == migration.plan[migration.undo]
<1>1. /\ migration.phase = "undoing" /\ migration.undo > 0 /\ steps' = steps
  BY DEF RollbackStep
<1>2. /\ migration \in RunType /\ PlanSound(migration) /\ Backward(migration)
      /\ migration.status = "none" /\ steps \in Seq(StepDefinitions) /\ Len(steps) <= MaxSteps
  BY <1>1 DEF MigrationIInv, RunSound
<1>3. PICK undo : undo = migration.undo - 1
  OBVIOUS
<1>4. /\ migration.undo \in Nat /\ migration.next \in Nat /\ migration.next >= 1
      /\ migration.next <= Len(migration.plan) + 1 /\ undo \in Nat
      /\ migration.plan \in Seq(StepDefinitions) /\ Len(migration.plan) \in Nat
      /\ migration.rollbacks \in Seq({"failed", "succeeded"})
      /\ undo <= migration.next - 1
  BY <1>1, <1>2, <1>3 DEF RunType, PlanSound, Backward
<1>5. ASSUME NEW m \in RunType, migration' = m, m.phase = "undoing", m.status = "none",
             PlanSound(m), Backward(m)
      PROVE  MigrationIInv'
  BY <1>1, <1>2, <1>5 DEF MigrationIInv, RunSound
<1>6. CASE migration' = [migration EXCEPT !.undo = undo, !.allRolledBack = FALSE]
  <2>1. PICK m : m = migration'
    OBVIOUS
  <2>2. /\ m \in RunType /\ m.phase = migration.phase /\ m.status = migration.status
        /\ m.undo = undo /\ m.allRolledBack = FALSE /\ m.plan = migration.plan
        /\ m.next = migration.next /\ m.from = migration.from /\ m.to = migration.to
        /\ m.failure = migration.failure /\ m.failed = migration.failed
        /\ m.rollbackOnFailure = migration.rollbackOnFailure /\ m.dryRun = migration.dryRun
    BY <1>2, <1>4, <1>6, <2>1 DEF RunType
  <2>3. PlanSound(m) /\ Backward(m)
    BY <1>2, <1>4, <2>2 DEF PlanSound, Backward
  <2>4. QED
    BY <1>1, <1>2, <1>5, <2>1, <2>2, <2>3
<1>7. CASE migration' = [migration EXCEPT !.undo = undo, !.allRolledBack = FALSE,
                           !.rollbacks = Append(migration.rollbacks, "failed")]
  <2>1. PICK m, rollbacks : m = migration' /\ rollbacks = Append(migration.rollbacks, "failed")
    OBVIOUS
  <2>2. rollbacks \in Seq({"failed", "succeeded"})
    BY <1>4, <2>1
  <2>3. /\ m \in RunType /\ m.phase = migration.phase /\ m.status = migration.status
        /\ m.undo = undo /\ m.allRolledBack = FALSE /\ m.plan = migration.plan
        /\ m.next = migration.next /\ m.from = migration.from /\ m.to = migration.to
        /\ m.failure = migration.failure /\ m.failed = migration.failed
        /\ m.rollbackOnFailure = migration.rollbackOnFailure /\ m.dryRun = migration.dryRun
    BY <1>2, <1>4, <1>7, <2>1, <2>2 DEF RunType
  <2>4. PlanSound(m) /\ Backward(m)
    BY <1>2, <1>4, <2>3 DEF PlanSound, Backward
  <2>5. QED
    BY <1>1, <1>2, <1>5, <2>1, <2>3, <2>4
<1>8. ASSUME NEW state \in Makes(migration.state, s.to, s.from),
             migration' = [migration EXCEPT !.undo = undo, !.state = state,
                             !.rollbacks = Append(migration.rollbacks, "succeeded"),
                             !.slipped = migration.slipped \/ state = Odd]
      PROVE  MigrationIInv'
  <2>1. PICK m, rollbacks : m = migration' /\ rollbacks = Append(migration.rollbacks, "succeeded")
    OBVIOUS
  <2>2. /\ rollbacks \in Seq({"failed", "succeeded"})
        /\ Len(rollbacks) = Len(migration.rollbacks) + 1 /\ Len(migration.rollbacks) \in Nat
    BY <1>4, <2>1
  <2>3. PICK slipped \in BOOLEAN : /\ slipped <=> (migration.slipped \/ state = Odd)
                                   /\ slipped = (migration.slipped \/ state = Odd)
    OBVIOUS
  <2>4. s \in StepDefinitions /\ migration.undo \in 1..Len(migration.plan)
    <3>1. migration.undo <= Len(migration.plan)
      BY <1>2, <1>4 DEF Backward
    <3>2. migration.undo \in 1..Len(migration.plan)
      BY <1>1, <1>4, <3>1
    <3>3. QED
      BY <1>4, <3>2
  <2>5. s.from \in Versions /\ s.to \in Versions
    BY <2>4, MigrationAssumption DEF MigrationAssumption
  <2>6. /\ state \in Versions \cup {Odd} /\ state \in {s.from, Odd}
        /\ state # Odd => migration.state = s.to
    BY <1>8, <2>5 DEF Makes
  <2>7. /\ m \in RunType /\ m.phase = migration.phase /\ m.status = migration.status
        /\ m.undo = undo /\ m.state = state /\ m.rollbacks = rollbacks
        /\ m.slipped = slipped /\ m.plan = migration.plan
        /\ m.allRolledBack = migration.allRolledBack /\ m.validate = migration.validate
        /\ m.next = migration.next /\ m.from = migration.from /\ m.to = migration.to
        /\ m.failure = migration.failure /\ m.failed = migration.failed
        /\ m.rollbackOnFailure = migration.rollbackOnFailure /\ m.dryRun = migration.dryRun
    <3>1. m = [migration EXCEPT !.undo = undo, !.state = state, !.rollbacks = rollbacks,
                                !.slipped = slipped]
      BY <1>8, <2>1, <2>3
    <3>2. QED
      BY <1>2, <1>4, <2>2, <2>6, <3>1 DEF RunType
  <2>8. PlanSound(m)
    BY <1>2, <2>7 DEF PlanSound
  <2>9. m.allRolledBack => m.next > 1 /\ Len(m.rollbacks) = (m.next - 1) - m.undo
    <3>1. migration.allRolledBack =>
            /\ migration.next > 1
            /\ Len(migration.rollbacks) = (migration.next - 1) - migration.undo
      BY <1>2 DEF Backward
    <3>2. (migration.next - 1) - undo = ((migration.next - 1) - migration.undo) + 1
      BY <1>3, <1>4
    <3>3. QED
      BY <2>2, <2>7, <3>1, <3>2
  <2>10. ASSUME m.allRolledBack, m.validate, ~m.slipped
         PROVE  m.state = IF m.undo = 0 THEN m.from ELSE m.plan[m.undo].to
    <3>1. state = s.from
      BY <2>3, <2>6, <2>7, <2>10
    <3>2. CASE undo = 0
      <4>1. migration.undo = 1
        BY <1>1, <1>3, <1>4, <3>2
      <4>2. migration.plan # <<>>
        BY <1>4, <2>4, <4>1
      <4>3. migration.plan[1].from = migration.from
        BY <1>2, <4>2 DEF PlanSound
      <4>4. QED
        BY <2>7, <3>1, <3>2, <4>1, <4>3
    <3>3. CASE undo # 0
      <4>1. undo \in 1..(Len(migration.plan) - 1) /\ undo + 1 = migration.undo
        BY <1>3, <1>4, <2>4, <3>3
      <4>2. migration.plan[undo].to = migration.plan[undo + 1].from
        BY <1>2, <4>1 DEF PlanSound
      <4>3. QED
        BY <2>7, <3>1, <3>3, <4>1, <4>2
    <3>4. QED
      BY <3>2, <3>3
  <2>11. Backward(m)
    BY <1>2, <1>4, <2>7, <2>9, <2>10 DEF Backward
  <2>12. QED
    BY <1>1, <1>2, <1>5, <2>1, <2>7, <2>8, <2>11
<1>9. QED
  <2> DEFINE m == [migration EXCEPT !.undo = undo]
  <2>1. m.allRolledBack = migration.allRolledBack /\ m.state = migration.state
        /\ m.rollbacks = migration.rollbacks /\ m.slipped = migration.slipped
    BY <1>2 DEF RunType
  <2>2. CASE ~s.rollback
    <3>1. migration' = [m EXCEPT !.allRolledBack = FALSE]
      BY <1>3, <2>2 DEF RollbackStep
    <3>2. QED
      BY <1>6, <3>1
  <2>3. CASE s.rollback
    <3>1. \/ migration' = [m EXCEPT !.allRolledBack = FALSE,
                                    !.rollbacks = Append(m.rollbacks, "failed")]
          \/ \E state \in Makes(m.state, s.to, s.from) :
               migration' = [m EXCEPT !.state = state,
                                      !.rollbacks = Append(m.rollbacks, "succeeded"),
                                      !.slipped = m.slipped \/ state = Odd]
      BY <1>3, <2>3 DEF RollbackStep
    <3>2. ASSUME migration' = [m EXCEPT !.allRolledBack = FALSE,
                                        !.rollbacks = Append(m.rollbacks, "failed")]
          PROVE  MigrationIInv'
      BY <1>7, <2>1, <3>2
    <3>3. ASSUME NEW state \in Makes(m.state, s.to, s.from),
                 migration' = [m EXCEPT !.state = state,
                                        !.rollbacks = Append(m.rollbacks, "succeeded"),
                                        !.slipped = m.slipped \/ state = Odd]
          PROVE  MigrationIInv'
      <4>1. migration' = [migration EXCEPT !.undo = undo, !.state = state,
                             !.rollbacks = Append(migration.rollbacks, "succeeded"),
                             !.slipped = migration.slipped \/ state = Odd]
        BY <2>1, <3>3
      <4>2. QED
        BY <1>8, <2>1, <3>3, <4>1
    <3>4. QED
      BY <3>1, <3>2, <3>3
  <2>4. QED
    BY <2>2, <2>3
LEMMA RollbackEndKeeps ==
  ASSUME MigrationIInv, RollbackEnds
  PROVE  MigrationIInv'
<1>1. /\ migration.phase = "undoing" /\ migration.undo = 0 /\ steps' = steps
      /\ migration' = [migration EXCEPT !.phase = "done",
           !.status = IF migration.allRolledBack THEN "rolled_back" ELSE "failed"]
  BY DEF RollbackEnds
<1>2. /\ migration \in RunType /\ PlanSound(migration) /\ Backward(migration)
      /\ steps \in Seq(StepDefinitions) /\ Len(steps) <= MaxSteps
  BY <1>1 DEF MigrationIInv, RunSound
<1>3. PICK m : m = migration'
  OBVIOUS
<1>4. /\ m \in RunType /\ m.phase = "done" /\ m.undo = 0 /\ m.plan = migration.plan
      /\ m.status \in {"rolled_back", "failed"}
      /\ m.status = "rolled_back" <=> migration.allRolledBack
      /\ m.next = migration.next /\ m.from = migration.from /\ m.to = migration.to
      /\ m.failure = migration.failure /\ m.failed = migration.failed
      /\ m.rollbackOnFailure = migration.rollbackOnFailure /\ m.dryRun = migration.dryRun
      /\ m.validate = migration.validate /\ m.slipped = migration.slipped
      /\ m.state = migration.state /\ m.rollbacks = migration.rollbacks
  <2>1. PICK status \in {"rolled_back", "failed"} :
          status = IF migration.allRolledBack THEN "rolled_back" ELSE "failed"
    OBVIOUS
  <2>2. m = [migration EXCEPT !.phase = "done", !.status = status]
    BY <1>1, <1>3, <2>1
  <2>3. status \in MigrationStatuses
    BY <2>1 DEF MigrationStatuses
  <2>4. /\ m \in RunType /\ m.phase = "done" /\ m.undo = migration.undo
        /\ m.plan = migration.plan /\ m.status = status
        /\ m.next = migration.next /\ m.from = migration.from /\ m.to = migration.to
        /\ m.failure = migration.failure /\ m.failed = migration.failed
        /\ m.rollbackOnFailure = migration.rollbackOnFailure /\ m.dryRun = migration.dryRun
        /\ m.validate = migration.validate /\ m.slipped = migration.slipped
        /\ m.state = migration.state /\ m.rollbacks = migration.rollbacks
    <3>1. PICK k : k = migration
      OBVIOUS
    <3>2. k \in RunType /\ m = [k EXCEPT !.phase = "done", !.status = status]
      BY <1>2, <2>2, <3>1
    <3>3. /\ m \in RunType /\ m.phase = "done" /\ m.status = status
          /\ m.undo = k.undo /\ m.plan = k.plan /\ m.state = k.state
          /\ m.next = k.next /\ m.from = k.from /\ m.to = k.to
          /\ m.failure = k.failure /\ m.failed = k.failed
          /\ m.rollbackOnFailure = k.rollbackOnFailure /\ m.dryRun = k.dryRun
          /\ m.validate = k.validate /\ m.slipped = k.slipped /\ m.rollbacks = k.rollbacks
      <4>1. PICK p : p = [k EXCEPT !.phase = "done"]
        OBVIOUS
      <4>2. p \in RunType
        BY <3>2, <4>1 DEF RunType
      <4>3. m = [p EXCEPT !.status = status]
        BY <3>2, <4>1
      <4>4. m \in RunType
        BY <2>3, <4>2, <4>3 DEF RunType
      <4>5. QED
        BY <2>3, <3>2, <4>4 DEF RunType
    <3>4. QED
      BY <3>1, <3>3
  <2>5. QED
    BY <1>1, <2>1, <2>4
<1>5. PlanSound(m)
  BY <1>2, <1>4 DEF PlanSound
<1>6. m.status = "rolled_back" =>
        /\ m.next - 1 > 0 /\ Len(m.rollbacks) = m.next - 1
        /\ m.validate /\ ~m.slipped => m.state = m.from
  <2>1. migration.next \in Nat /\ (migration.next - 1) - 0 = migration.next - 1
    BY <1>2 DEF RunType
  <2>2. migration.allRolledBack =>
          /\ migration.next > 1 /\ Len(migration.rollbacks) = migration.next - 1
          /\ migration.validate /\ ~migration.slipped => migration.state = migration.from
    BY <1>1, <1>2, <2>1 DEF Backward
  <2>3. QED
    BY <1>4, <2>1, <2>2
<1>7. Outcome(m)
  BY <1>2, <1>4, <1>6 DEF Outcome, Backward
<1>8. QED
  BY <1>1, <1>2, <1>3, <1>4, <1>5, <1>7 DEF MigrationIInv, RunSound

LEMMA MigrationInvInit == MigrationInit => MigrationIInv
<1> SUFFICES ASSUME MigrationInit PROVE MigrationIInv
  OBVIOUS
<1>1. steps \in Seq(StepDefinitions) /\ Len(steps) = 0 /\ MaxSteps \in Nat
  BY MigrationAssumption DEF MigrationInit, MigrationAssumption
<1>2. migration \in RunType /\ migration.phase = "idle" /\ migration.next = 1
  BY IdleTyped DEF MigrationInit, Idle
<1>3. QED
  BY <1>1, <1>2 DEF MigrationIInv, RunSound

LEMMA MigrationInvStep == MigrationIInv /\ [MigrationNext]_migrationVars => MigrationIInv'
<1> SUFFICES ASSUME MigrationIInv, [MigrationNext]_migrationVars PROVE MigrationIInv'
  OBVIOUS
<1>1. CASE \E s \in StepDefinitions : RegisterStep(s) \/ UnregisterStep(s.id)
  BY <1>1, RegistryKeeps
<1>2. CASE \E j \in Jumps, d, r, v \in BOOLEAN : \E state \in {j[1], Odd} :
             Migrate(j[1], j[2], state, d, r, v)
  <2>1. PICK j \in Jumps : \E d, r, v \in BOOLEAN : \E state \in {j[1], Odd} :
                             Migrate(j[1], j[2], state, d, r, v)
    BY <1>2
  <2>2. PICK d \in BOOLEAN, r \in BOOLEAN, v \in BOOLEAN :
          \E state \in {j[1], Odd} : Migrate(j[1], j[2], state, d, r, v)
    BY <2>1
  <2>3. PICK state \in {j[1], Odd} : Migrate(j[1], j[2], state, d, r, v)
    BY <2>2
  <2>4. j[1] \in Versions /\ j[2] \in Versions /\ state \in Versions \cup {Odd}
    BY <2>3, MigrationAssumption DEF MigrationAssumption
  <2>5. QED
    BY <2>3, <2>4, MigrateKeeps
<1>3. CASE RunStep \/ RunEndsWell \/ RollbackStep \/ RollbackEnds
  BY <1>3, RunStepKeeps, RunEndKeeps, RollbackStepKeeps, RollbackEndKeeps
<1>4. CASE UNCHANGED migrationVars
  <2>1. steps' = steps /\ migration' = migration
    BY <1>4 DEF migrationVars
  <2>2. QED
    BY <2>1 DEF MigrationIInv
<1>5. QED
  BY <1>1, <1>2, <1>3, <1>4 DEF MigrationNext

LEMMA MigrationInvSays == MigrationIInv => MigrationTypeOK /\ ReportTellsVersion
<1> SUFFICES ASSUME MigrationIInv PROVE MigrationTypeOK /\ ReportTellsVersion
  OBVIOUS
<1>1. /\ migration \in RunType /\ RunSound(migration)
      /\ steps \in Seq(StepDefinitions) /\ Len(steps) <= MaxSteps
  BY DEF MigrationIInv, RunSound
<1>2. migration.next \in 1..(MaxSteps + 1)
  <2>1. MaxSteps \in Nat /\ migration.next \in Nat
    BY <1>1, MigrationAssumption DEF MigrationAssumption, RunType
  <2>2. CASE migration.phase = "idle" \/ migration.status = "thrown"
    BY <1>1, <2>1, <2>2 DEF RunSound
  <2>3. CASE PlanSound(migration)
    <3>1. /\ Len(migration.plan) \in Nat /\ Len(migration.plan) <= MaxSteps
          /\ migration.next >= 1 /\ migration.next <= Len(migration.plan) + 1
      BY <2>3 DEF PlanSound
    <3>2. QED
      BY <2>1, <3>1
  <2>4. QED
    BY <1>1, <2>2, <2>3 DEF RunSound
<1>3. MigrationTypeOK
  <2>1. Range(steps) \subseteq StepDefinitions
    BY <1>1, KnownSteps
  <2>2. /\ migration.phase \in {"idle", "running", "undoing", "done"}
        /\ migration.status \in {"none", "thrown", "completed", "failed", "rolled_back"}
        /\ migration.state \in Versions \cup {Odd}
    BY <1>1 DEF RunType, MigrationStatuses
  <2>3. QED
    BY <1>1, <1>2, <2>1, <2>2 DEF MigrationTypeOK
<1>4. PathsAreShortest
  BY <1>1, ShortestPaths
<1>5. migration.next - 1 = 0 <=> migration.next = 1
  BY <1>1 DEF RunType
<1>6. ASSUME migration.phase = "done", migration.status # "thrown" PROVE Outcome(migration)
  BY <1>1, <1>6 DEF RunSound
<1>7. ReportTellsVersion
  BY <1>4, <1>5, <1>6 DEF ReportTellsVersion, Outcome, ReachedBy, Completed
<1>8. QED
  BY <1>3, <1>7

\* A plan is a shortest chain of registered steps, whatever was registered, replaced
\* and taken out, and the report of a migration tells where the state is, in
\* whichever step it fails and whatever its steps and their rollbacks make
\* (src/migrations/migrationRegistry.ts:57, migrationRunner.ts:134-166, 170).
THEOREM MigrationsReport == MigrationSpec => [](MigrationTypeOK /\ ReportTellsVersion)
<1>1. MigrationInit => MigrationIInv
  BY MigrationInvInit
<1>2. MigrationIInv /\ [MigrationNext]_migrationVars => MigrationIInv'
  BY MigrationInvStep
<1>3. MigrationIInv => MigrationTypeOK /\ ReportTellsVersion
  BY MigrationInvSays
<1>4. QED
  BY <1>1, <1>2, <1>3, PTL DEF MigrationSpec

-----------------------------------------------------------------------------
(* ContractMetadata *)

\* The number of a set's elements below one of them tells it from the others.
LEMMA BelowTells ==
  ASSUME NEW S \in SUBSET Nat, IsFiniteSet(S)
  PROVE  /\ \A c \in S : Below(S, c) \in Nat /\ Below(S, c) < Cardinality(S)
         /\ \A c, d \in S : Below(S, c) = Below(S, d) => c = d
<1> DEFINE under(c) == {o \in S : o < c}
<1>1. \A c \in S : IsFiniteSet(under(c)) /\ Cardinality(under(c)) \in Nat
  BY FS_Subset, FS_CardinalityType
<1>2. Cardinality(S) \in Nat
  BY FS_CardinalityType
<1>3. ASSUME NEW c \in S
      PROVE  Cardinality(under(c)) < Cardinality(S)
  <2>1. under(c) \in SUBSET S /\ under(c) # S
    <3>1. c \notin under(c)
      OBVIOUS
    <3>2. QED
      BY <3>1
  <2>2. Cardinality(under(c)) <= Cardinality(S) /\ Cardinality(S) # Cardinality(under(c))
    <3> HIDE DEF under
    <3>1. QED
      BY <2>1, FS_Subset
  <2>3. QED
    BY <1>1, <1>2, <2>2
<1>4. ASSUME NEW c \in S, NEW d \in S, c < d
      PROVE  Cardinality(under(c)) < Cardinality(under(d))
  <2>1. under(c) \in SUBSET under(d) /\ c \in under(d) /\ c \notin under(c)
    <3>1. c \in Nat /\ d \in Nat
      OBVIOUS
    <3>2. ASSUME NEW o \in under(c) PROVE o \in under(d)
      <4>1. o \in S /\ o \in Nat /\ o < c
        OBVIOUS
      <4>2. o < d
        BY <1>4, <3>1, <4>1
      <4>3. QED
        BY <4>1, <4>2
    <3>3. c \in under(d) /\ c \notin under(c)
      BY <1>4, <3>1
    <3>4. QED
      BY <3>2, <3>3
  <2>2. /\ Cardinality(under(c)) <= Cardinality(under(d))
        /\ Cardinality(under(d)) # Cardinality(under(c))
    <3>1. IsFiniteSet(under(d)) /\ under(c) # under(d)
      BY <1>1, <2>1
    <3> HIDE DEF under
    <3>2. QED
      BY <2>1, <3>1, FS_Subset
  <2>3. Cardinality(under(c)) \in Nat /\ Cardinality(under(d)) \in Nat
    BY <1>1
  <2> HIDE DEF under
  <2>4. QED
    BY <2>2, <2>3
<1>5. \A c \in S : Below(S, c) = Cardinality(under(c))
  BY DEF Below
<1> HIDE DEF under
<1>6. \A c \in S : Below(S, c) \in Nat /\ Below(S, c) < Cardinality(S)
  BY <1>1, <1>3, <1>5
<1>7. ASSUME NEW c \in S, NEW d \in S, Below(S, c) = Below(S, d) PROVE c = d
  <2>1. ~(c < d) /\ ~(d < c)
    BY <1>1, <1>4, <1>5, <1>7
  <2>2. c \in Nat /\ d \in Nat
    OBVIOUS
  <2>3. QED
    BY <2>1, <2>2
<1>8. QED
  BY <1>6, <1>7

\* There is one with n below it, for every n there is room for.
LEMMA NthExists ==
  ASSUME NEW S \in SUBSET Nat, IsFiniteSet(S), NEW n \in Nat, n < Cardinality(S)
  PROVE  \E c \in S : Below(S, c) = n
<1> DEFINE under(c) == {o \in S : o < c}
           T == {k \in Nat : k < Cardinality(S) => \E c \in S : Cardinality(under(c)) = k}
<1>1. Cardinality(S) \in Nat
  BY FS_CardinalityType
<1>2. 0 \in T
  <2> SUFFICES ASSUME 0 < Cardinality(S) PROVE \E c \in S : Cardinality(under(c)) = 0
    OBVIOUS
  <2>1. S # {}
    BY FS_EmptySet
  <2>2. PICK c \in S : \A o \in S : c <= o
    BY <2>1, Smallest
  <2>3. under(c) = {}
    <3>1. ASSUME NEW o \in under(c) PROVE FALSE
      <4>1. o \in S /\ o \in Nat /\ c \in Nat /\ o < c
        OBVIOUS
      <4>2. QED
        BY <4>1, <2>2
    <3>2. QED
      BY <3>1
  <2>4. QED
    BY <2>3, FS_EmptySet
<1>3. ASSUME NEW k \in Nat, k \in T, k + 1 < Cardinality(S)
      PROVE  \E c \in S : Cardinality(under(c)) = k + 1
  <2>1. PICK c \in S : Cardinality(under(c)) = k
    BY <1>1, <1>3
  <2>2. IsFiniteSet(under(c)) /\ c \notin under(c)
    BY FS_Subset
  <2> DEFINE U == under(c) \cup {c}
  <2>3. IsFiniteSet(U) /\ Cardinality(U) = k + 1
    <3> HIDE DEF under
    <3>1. QED
      BY <2>1, <2>2, FS_AddElement
  <2>4. S \ U # {}
    <3>1. S # U
      BY <1>1, <1>3, <2>3
    <3>2. U \subseteq S
      OBVIOUS
    <3>3. QED
      BY <3>1, <3>2
  <2>5. PICK d \in S \ U : \A o \in S \ U : d <= o
    BY <2>4, Smallest
  <2>6. c < d
    <3>1. c \in Nat /\ d \in Nat /\ d \in S /\ d \notin under(c) /\ d # c
      BY <2>5
    <3>2. QED
      BY <3>1
  <2>7. under(d) = U
    <3>1. ASSUME NEW o \in under(d) PROVE o \in U
      <4>1. o \in S /\ o < d
        OBVIOUS
      <4>2. ~(d <= o)
        BY <4>1, <2>5
      <4>3. QED
        BY <4>1, <4>2, <2>5
    <3>2. ASSUME NEW o \in U PROVE o \in under(d)
      <4>1. o \in S /\ o \in Nat /\ c \in Nat /\ d \in Nat
        OBVIOUS
      <4>2. o <= c
        BY <4>1
      <4>3. o < d
        BY <4>1, <4>2, <2>6
      <4>4. QED
        BY <4>1, <4>3
    <3>3. QED
      BY <3>1, <3>2
  <2>8. QED
    BY <2>3, <2>5, <2>7
<1>4. \A k \in Nat : k \in T => k + 1 \in T
  BY <1>3
<1>5. n \in T
  <2> HIDE DEF T
  <2>1. QED
    BY <1>2, <1>4, SetInduction
<1>6. PICK c \in S : Cardinality(under(c)) = n
  BY <1>5
<1>7. QED
  BY <1>6 DEF Below

\* New cells are free, and differ.
LEMMA NewCells ==
  ASSUME NEW memory, NEW n \in Nat, HasRoom(memory, n)
  PROVE  /\ \A k \in 0..(n - 1) : NewCell(memory, k) \in FreeCells(memory)
         /\ \A j, k \in 0..(n - 1) : NewCell(memory, j) = NewCell(memory, k) => j = k
<1> DEFINE free == FreeCells(memory)
<1>1. free \in SUBSET Nat /\ IsFiniteSet(free) /\ Cardinality(free) \in Nat
  BY MetadataAssumption, FS_Subset, FS_CardinalityType DEF FreeCells
<1>2. ASSUME NEW k \in 0..(n - 1)
      PROVE  NewCell(memory, k) \in free /\ Below(free, NewCell(memory, k)) = k
  <2>1. k \in Nat /\ k < Cardinality(free)
    BY <1>1 DEF HasRoom
  <2>2. \E c \in free : Below(free, c) = k
    <3> HIDE DEF free
    <3>1. QED
      BY <1>1, <2>1, NthExists
  <2>3. NewCell(memory, k) = CHOOSE c \in free : Below(free, c) = k
    BY DEF NewCell
  <2> HIDE DEF free
  <2>4. QED
    BY <2>2, <2>3
<1> HIDE DEF free
<1>3. \A k \in 0..(n - 1) : NewCell(memory, k) \in free
  BY <1>2
<1>4. ASSUME NEW j \in 0..(n - 1), NEW k \in 0..(n - 1), NewCell(memory, j) = NewCell(memory, k)
      PROVE  j = k
  BY <1>2, <1>4
<1>5. QED
  BY <1>3, <1>4 DEF free

\* The metadata at r has version v, its capabilities caps at a, and at d its
\* deployments deps, of the environments envs.
MetadataAt(memory, r, v, a, caps, d, deps, envs) ==
  /\ r \in Cells /\ a \in Cells /\ d \in Cells /\ a # d
  /\ memory[r] = Metadata(v, a, d)
  /\ memory[a] = Array(caps) /\ caps \in Seq(Capabilities)
  /\ memory[d] = Array(deps) /\ deps \in Seq(Cells)
  /\ envs \in Seq(Environments) /\ Len(envs) = Len(deps)
  /\ \A i \in 1..Len(deps) : memory[deps[i]] = Deployment(envs[i])

WellFormed(memory, r) ==
  \E v, a, caps, d, deps, envs : MetadataAt(memory, r, v, a, caps, d, deps, envs)

LEMMA Kinds ==
  /\ \A v, a, d : /\ Metadata(v, a, d).kind = "metadata" /\ Metadata(v, a, d).version = v
                  /\ Metadata(v, a, d).capabilities = a /\ Metadata(v, a, d).deployments = d
  /\ \A q : Array(q).kind = "array" /\ Array(q).members = q
  /\ \A e : Deployment(e).kind = "deployment" /\ Deployment(e).environment = e
  /\ FreeCell.kind = "free"
BY DEF Metadata, Array, Deployment, FreeCell

LEMMA PartsAt ==
  ASSUME NEW memory, NEW r, NEW v, NEW a, NEW caps, NEW d, NEW deps, NEW envs,
         MetadataAt(memory, r, v, a, caps, d, deps, envs)
  PROVE  /\ PartsOf(memory, r) = {r, a, d} \cup ToSet(deps)
         /\ ToSet(deps) = {deps[i] : i \in 1..Len(deps)} /\ Deployments(memory, r) = deps
         /\ Says(memory, r) = [version |-> v, capabilities |-> caps, environments |-> envs]
         /\ r # a /\ r # d /\ {r, a, d} \cap ToSet(deps) = {}
         /\ PartsOf(memory, r) \subseteq Cells
         /\ \A c \in PartsOf(memory, r) :
              memory[c] # FreeCell /\ memory[c].kind \in {"metadata", "array", "deployment"}
         /\ memory[r].kind = "metadata"
         /\ \A c \in ToSet(deps) : memory[c].kind = "deployment"
<1>1. /\ memory[r].kind = "metadata" /\ memory[r].version = v
      /\ memory[r].capabilities = a /\ memory[r].deployments = d
      /\ memory[a].kind = "array" /\ memory[a].members = caps
      /\ memory[d].kind = "array" /\ memory[d].members = deps
  BY Kinds DEF MetadataAt
<1>2. DOMAIN deps = 1..Len(deps) /\ Deployments(memory, r) = deps
  BY <1>1 DEF MetadataAt, Deployments
<1>3. ToSet(deps) = {deps[i] : i \in 1..Len(deps)}
  BY <1>2 DEF ToSet
<1>4. \A c \in ToSet(deps) : memory[c].kind = "deployment" /\ c \in Cells
  <2>1. \A i \in 1..Len(deps) : memory[deps[i]].kind = "deployment" /\ deps[i] \in Cells
    BY Kinds DEF MetadataAt
  <2>2. QED
    BY <1>3, <2>1
<1>5. PartsOf(memory, r) = {r, a, d} \cup ToSet(deps)
  BY <1>1, <1>2 DEF PartsOf
<1>6. Says(memory, r) = [version |-> v, capabilities |-> caps, environments |-> envs]
  <2>1. [i \in DOMAIN deps |-> memory[deps[i]].environment] = envs
    <3>1. \A i \in 1..Len(deps) : memory[deps[i]].environment = envs[i]
      BY Kinds DEF MetadataAt
    <3>2. envs = [i \in 1..Len(deps) |-> envs[i]]
      BY DEF MetadataAt
    <3>3. QED
      BY <1>2, <3>1, <3>2
  <2>2. QED
    BY <1>1, <1>2, <2>1 DEF Says
<1>7. r # a /\ r # d
  BY <1>1
<1>8. {r, a, d} \cap ToSet(deps) = {}
  BY <1>1, <1>4
<1>9. PartsOf(memory, r) \subseteq Cells
  BY <1>4, <1>5 DEF MetadataAt
<1>10. \A c \in PartsOf(memory, r) : memory[c].kind \in {"metadata", "array", "deployment"}
  BY <1>1, <1>4, <1>5
<1>11. \A c \in PartsOf(memory, r) : memory[c] # FreeCell
  BY <1>10, Kinds
<1>12. QED
  BY <1>1, <1>2, <1>3, <1>4, <1>5, <1>6, <1>7, <1>8, <1>9, <1>10, <1>11

\* A metadata is what it is as long as its parts are.
LEMMA SameParts ==
  ASSUME NEW memory, NEW m2, NEW r, WellFormed(memory, r),
         \A c \in PartsOf(memory, r) : m2[c] = memory[c]
  PROVE  /\ WellFormed(m2, r) /\ PartsOf(m2, r) = PartsOf(memory, r)
         /\ Says(m2, r) = Says(memory, r)
<1>1. PICK v, a, caps, d, deps, envs : MetadataAt(memory, r, v, a, caps, d, deps, envs)
  BY DEF WellFormed
<1>2. PartsOf(memory, r) = {r, a, d} \cup ToSet(deps)
  BY <1>1, PartsAt
<1>3. ToSet(deps) = {deps[i] : i \in 1..Len(deps)}
  BY <1>1, PartsAt
<1>4. m2[r] = memory[r] /\ m2[a] = memory[a] /\ m2[d] = memory[d]
  BY <1>2
<1>5. \A i \in 1..Len(deps) : m2[deps[i]] = memory[deps[i]]
  BY <1>2, <1>3
<1>6. MetadataAt(m2, r, v, a, caps, d, deps, envs)
  BY <1>1, <1>4, <1>5 DEF MetadataAt
<1>7. PartsOf(m2, r) = {r, a, d} \cup ToSet(deps)
  BY <1>6, PartsAt
<1>8. Says(m2, r) = Says(memory, r)
  <2>1. Says(m2, r) = [version |-> v, capabilities |-> caps, environments |-> envs]
    BY <1>6, PartsAt
  <2>2. Says(memory, r) = [version |-> v, capabilities |-> caps, environments |-> envs]
    BY <1>1, PartsAt
  <2>3. QED
    BY <2>1, <2>2
<1>9. WellFormed(m2, r)
  BY <1>6 DEF WellFormed
<1>10. QED
  BY <1>2, <1>7, <1>8, <1>9

\* Parts are used cells.
LEMMA PartsUsed ==
  ASSUME NEW memory, NEW r, WellFormed(memory, r)
  PROVE  /\ r \in PartsOf(memory, r) /\ PartsOf(memory, r) \subseteq Cells \ FreeCells(memory)
         /\ IsFiniteSet(PartsOf(memory, r))
         /\ \A c \in PartsOf(memory, r) : memory[c].kind \in {"metadata", "array", "deployment"}
<1>1. PICK v, a, caps, d, deps, envs : MetadataAt(memory, r, v, a, caps, d, deps, envs)
  BY DEF WellFormed
<1>2. /\ PartsOf(memory, r) = {r, a, d} \cup ToSet(deps)
      /\ PartsOf(memory, r) \subseteq Cells
      /\ \A c \in PartsOf(memory, r) :
           memory[c] # FreeCell /\ memory[c].kind \in {"metadata", "array", "deployment"}
  BY <1>1, PartsAt
<1>3. IsFiniteSet(PartsOf(memory, r))
  BY <1>2, MetadataAssumption, FS_Subset
<1>4. QED
  BY <1>2, <1>3 DEF FreeCells

\* Where the copies go, and that the rest stays as it is.
LEMMA CopiesPlaced ==
  ASSUME NEW memory, NEW r, WellFormed(memory, r), CloneHasRoom(memory, r)
  PROVE  \E f \in [PartsOf(memory, r) -> FreeCells(memory)] :
           /\ \A c, e \in PartsOf(memory, r) : f[c] = f[e] => c = e
           /\ \A c \in PartsOf(memory, r) :
                /\ Moved(Moves(memory, r), c) = f[c]
                /\ Clone(memory, r).objects[f[c]] = Copy(memory, r, Moves(memory, r), c)
           /\ \A c \in Cells :
                \/ Clone(memory, r).objects[c] = memory[c]
                \/ \E e \in PartsOf(memory, r) : c = f[e]
           /\ Clone(memory, r).objects = [c \in Cells |-> Clone(memory, r).objects[c]]
           /\ Clone(memory, r).cell = f[r]
<1> DEFINE P == PartsOf(memory, r)
           moves == Moves(memory, r)
           f == [c \in P |-> NewCell(memory, Below(P, c))]
           n == Cardinality(P)
<1>1. r \in P /\ P \in SUBSET Nat /\ IsFiniteSet(P) /\ n \in Nat
  BY PartsUsed, MetadataAssumption, FS_CardinalityType
<1>2. HasRoom(memory, n) /\ moves = {<<c, NewCell(memory, Below(P, c))>> : c \in P}
  BY DEF CloneHasRoom, Copied, Moves
<1>3. /\ \A c \in P : Below(P, c) \in 0..(n - 1)
      /\ \A c, e \in P : Below(P, c) = Below(P, e) => c = e
  <2>1. /\ \A c \in P : Below(P, c) \in Nat /\ Below(P, c) < n
        /\ \A c, e \in P : Below(P, c) = Below(P, e) => c = e
    <3> HIDE DEF P
    <3>1. QED
      BY <1>1, BelowTells
  <2> HIDE DEF P, n
  <2>2. QED
    BY <1>1, <2>1
<1>4. /\ \A k \in 0..(n - 1) : NewCell(memory, k) \in FreeCells(memory)
      /\ \A j, k \in 0..(n - 1) : NewCell(memory, j) = NewCell(memory, k) => j = k
  <2> HIDE DEF P, n
  <2>1. QED
    BY <1>1, <1>2, NewCells
<1> HIDE DEF P, moves, n
<1>5. f \in [P -> FreeCells(memory)]
  BY <1>3, <1>4
<1>6. \A c, e \in P : f[c] = f[e] => c = e
  BY <1>3, <1>4
<1>7. moves = {<<c, f[c]>> : c \in P}
  BY <1>2
<1> HIDE DEF f
<1>8. ASSUME NEW c \in P PROVE Moved(moves, c) = f[c]
  <2>1. \E move \in moves : move[1] = c
    <3>1. <<c, f[c]>> \in moves /\ <<c, f[c]>>[1] = c
      BY <1>7
    <3>2. QED
      BY <3>1
  <2>2. \A move \in moves : move[1] = c => move[2] = f[c]
    BY <1>7
  <2>3. QED
    BY <2>1, <2>2 DEF Moved
<1>9. ASSUME NEW c \in P
      PROVE  Clone(memory, r).objects[f[c]] = Copy(memory, r, moves, c)
  <2>1. \E move \in moves : move[2] = f[c]
    <3>1. <<c, f[c]>> \in moves /\ <<c, f[c]>>[2] = f[c]
      BY <1>7
    <3>2. QED
      BY <3>1
  <2>2. \A move \in moves : move[2] = f[c] => move[1] = c
    BY <1>6, <1>7
  <2>3. (CHOOSE move \in moves : move[2] = f[c])[1] = c
    BY <2>1, <2>2
  <2>4. f[c] \in Cells
    BY <1>5 DEF FreeCells
  <2>5. Clone(memory, r).objects[f[c]] =
          IF \E move \in moves : move[2] = f[c]
          THEN Copy(memory, r, moves, (CHOOSE move \in moves : move[2] = f[c])[1])
          ELSE memory[f[c]]
    BY <2>4 DEF Clone, moves
  <2>6. QED
    BY <2>1, <2>3, <2>5
<1>10. ASSUME NEW c \in Cells, ~ \E e \in P : c = f[e]
       PROVE  Clone(memory, r).objects[c] = memory[c]
  <2>1. ~ \E move \in moves : move[2] = c
    BY <1>7, <1>10
  <2>2. QED
    BY <2>1 DEF Clone, moves
<1>11. Clone(memory, r).cell = f[r]
  BY <1>1, <1>8 DEF Clone, moves
<1>12. Clone(memory, r).objects = [c \in Cells |-> Clone(memory, r).objects[c]]
  BY DEF Clone
<1>13. /\ \A c \in P : /\ Moved(moves, c) = f[c]
                       /\ Clone(memory, r).objects[f[c]] = Copy(memory, r, moves, c)
       /\ \A c \in Cells :
            Clone(memory, r).objects[c] = memory[c] \/ \E e \in P : c = f[e]
  BY <1>8, <1>9, <1>10
<1>14. QED
  BY <1>5, <1>6, <1>11, <1>12, <1>13 DEF P, moves

\* A clone says the same, out of cells that were free.
LEMMA CloneIsNew ==
  ASSUME NEW memory, NEW r, WellFormed(memory, r), CloneHasRoom(memory, r)
  PROVE  /\ WellFormed(Clone(memory, r).objects, Clone(memory, r).cell)
         /\ PartsOf(Clone(memory, r).objects, Clone(memory, r).cell) \subseteq FreeCells(memory)
         /\ Says(Clone(memory, r).objects, Clone(memory, r).cell) = Says(memory, r)
         /\ \A c \in Cells \ FreeCells(memory) : Clone(memory, r).objects[c] = memory[c]
         /\ \A c \in Cells :
              \/ Clone(memory, r).objects[c] = memory[c]
              \/ c \in PartsOf(Clone(memory, r).objects, Clone(memory, r).cell)
         /\ Clone(memory, r).objects = [c \in Cells |-> Clone(memory, r).objects[c]]
<1>1. PICK v, a, caps, d, deps, envs : MetadataAt(memory, r, v, a, caps, d, deps, envs)
  BY DEF WellFormed
<1> DEFINE P == PartsOf(memory, r)
           moves == Moves(memory, r)
           clone == Clone(memory, r)
<1>2. /\ P = {r, a, d} \cup {deps[i] : i \in 1..Len(deps)}
      /\ Says(memory, r) = [version |-> v, capabilities |-> caps, environments |-> envs]
      /\ r # a /\ r # d /\ {r, a, d} \cap {deps[i] : i \in 1..Len(deps)} = {}
  <2>1. ToSet(deps) = {deps[i] : i \in 1..Len(deps)}
    BY <1>1, PartsAt
  <2>2. /\ P = {r, a, d} \cup ToSet(deps)
        /\ Says(memory, r) = [version |-> v, capabilities |-> caps, environments |-> envs]
        /\ r # a /\ r # d /\ {r, a, d} \cap ToSet(deps) = {}
    BY <1>1, PartsAt
  <2>3. QED
    BY <2>1, <2>2
<1>3. PICK f \in [P -> FreeCells(memory)] :
        /\ \A c, e \in P : f[c] = f[e] => c = e
        /\ \A c \in P : /\ Moved(moves, c) = f[c]
                        /\ clone.objects[f[c]] = Copy(memory, r, moves, c)
        /\ \A c \in Cells : clone.objects[c] = memory[c] \/ \E e \in P : c = f[e]
        /\ clone.objects = [c \in Cells |-> clone.objects[c]]
        /\ clone.cell = f[r]
  BY CopiesPlaced
<1> DEFINE copies == [i \in 1..Len(deps) |-> f[deps[i]]]
           m == clone.objects
<1> HIDE DEF P, moves, clone
<1>4. r \in P /\ a \in P /\ d \in P /\ \A i \in 1..Len(deps) : deps[i] \in P
  BY <1>2
<1>5. /\ memory[r].version = v /\ memory[r].capabilities = a /\ memory[r].deployments = d
      /\ memory[a] = Array(caps) /\ memory[d].members = deps
      /\ a # d /\ deps \in Seq(Cells)
  BY <1>1, Kinds DEF MetadataAt
<1>6. m[f[r]] = Metadata(v, f[a], f[d])
  <2>1. Moved(moves, a) = f[a] /\ Moved(moves, d) = f[d]
    BY <1>3, <1>4
  <2>2. Copy(memory, r, moves, r) = Metadata(v, f[a], f[d])
    BY <1>2, <1>5, <2>1 DEF Copy
  <2>3. QED
    BY <1>3, <1>4, <2>2
<1>7. m[f[a]] = Array(caps)
  <2>1. Copy(memory, r, moves, a) = memory[a]
    BY <1>2, <1>5 DEF Copy
  <2>2. QED
    BY <1>3, <1>4, <1>5, <2>1
<1>8. m[f[d]] = Array(copies)
  <2>1. DOMAIN deps = 1..Len(deps)
    BY <1>5
  <2>2. Copy(memory, r, moves, d) = Array([i \in 1..Len(deps) |-> Moved(moves, deps[i])])
    BY <1>2, <1>5, <2>1 DEF Copy
  <2>3. [i \in 1..Len(deps) |-> Moved(moves, deps[i])] = copies
    BY <1>3, <1>4
  <2>4. QED
    BY <1>3, <1>4, <2>2, <2>3
<1>9. ASSUME NEW i \in 1..Len(deps) PROVE m[f[deps[i]]] = Deployment(envs[i])
  <2>1. memory[deps[i]] = Deployment(envs[i])
    BY <1>1 DEF MetadataAt
  <2>2. deps[i] # r /\ deps[i] # d
    BY <1>2
  <2>3. Copy(memory, r, moves, deps[i]) = memory[deps[i]]
    BY <1>5, <2>2 DEF Copy
  <2>4. QED
    BY <1>3, <1>4, <2>1, <2>3
<1>10. FreeCells(memory) \subseteq Cells
  BY DEF FreeCells
<1>11. /\ f[r] \in FreeCells(memory) /\ f[a] \in FreeCells(memory) /\ f[d] \in FreeCells(memory)
       /\ f[a] # f[d] /\ \A i \in 1..Len(deps) : f[deps[i]] \in FreeCells(memory)
  BY <1>3, <1>4, <1>5
<1>12. copies \in Seq(Cells) /\ Len(copies) = Len(deps) /\ Len(deps) \in Nat
  <2>1. Len(deps) \in Nat
    BY <1>5
  <2>2. copies \in [1..Len(deps) -> Cells]
    BY <1>10, <1>11
  <2>3. QED
    BY <2>1, <2>2
<1>13. MetadataAt(m, f[r], v, f[a], caps, f[d], copies, envs)
  <2>1. \A i \in 1..Len(copies) : m[copies[i]] = Deployment(envs[i])
    BY <1>9, <1>12
  <2>2. caps \in Seq(Capabilities) /\ envs \in Seq(Environments) /\ Len(envs) = Len(copies)
    BY <1>1, <1>12 DEF MetadataAt
  <2> HIDE DEF copies, m
  <2>3. QED
    BY <1>6, <1>7, <1>8, <1>10, <1>11, <1>12, <2>1, <2>2 DEF MetadataAt
<1>14. /\ PartsOf(m, f[r]) = {f[r], f[a], f[d]} \cup ToSet(copies)
       /\ ToSet(copies) = {copies[i] : i \in 1..Len(copies)}
       /\ Says(m, f[r]) = [version |-> v, capabilities |-> caps, environments |-> envs]
  <2> HIDE DEF copies, m
  <2>1. QED
    BY <1>13, PartsAt
<1>15. ToSet(copies) = {f[deps[i]] : i \in 1..Len(deps)}
  BY <1>12, <1>14
<1>16. PartsOf(m, f[r]) \subseteq FreeCells(memory)
  BY <1>11, <1>14, <1>15
<1>17. \A e \in P : f[e] \in PartsOf(m, f[r])
  BY <1>2, <1>14, <1>15
<1>18. WellFormed(m, f[r])
  BY <1>13 DEF WellFormed
<1>19. \A c \in Cells \ FreeCells(memory) : m[c] = memory[c]
  BY <1>3
<1>20. \A c \in Cells : m[c] = memory[c] \/ c \in PartsOf(m, f[r])
  BY <1>3, <1>17
<1>21. Says(m, f[r]) = Says(memory, r)
  BY <1>2, <1>14
<1>22. m = [c \in Cells |-> m[c]] /\ clone.cell = f[r]
  BY <1>3
<1> HIDE DEF copies
<1>23. QED
  BY <1>16, <1>18, <1>19, <1>20, <1>21, <1>22 DEF clone

\* A heap of objects.
Heap(memory) ==
  /\ memory = [c \in Cells |-> memory[c]]
  /\ \A c \in Cells : memory[c].kind \in {"free", "metadata", "array", "deployment"}

Stores == [MetadataNames -> Cells \cup {NoCell}]

\* What is stored says what was published, and what is stored or held is apart.
Kept(memory, store, hold, told) ==
  /\ \A n \in MetadataNames :
       store[n] # NoCell => /\ WellFormed(memory, store[n])
                            /\ Says(memory, store[n]) = told[n] /\ ValidMetadata(told[n])
  /\ hold # NoCell => WellFormed(memory, hold)
  /\ \A m, n \in MetadataNames :
       m # n /\ store[m] # NoCell /\ store[n] # NoCell =>
         PartsOf(memory, store[m]) \cap PartsOf(memory, store[n]) = {}
  /\ \A n \in MetadataNames :
       store[n] # NoCell /\ hold # NoCell =>
         PartsOf(memory, store[n]) \cap PartsOf(memory, hold) = {}

MetadataIInv ==
  /\ Heap(objects) /\ Kept(objects, storedAt, held, published)
  /\ storedAt \in Stores /\ held \in Cells \cup {NoCell}
  /\ published = [n \in MetadataNames |-> published[n]]
  /\ revision \in 0..MaxRevisions

LEMMA KeptByParts ==
  ASSUME NEW memory, NEW store, NEW hold, NEW told, Kept(memory, store, hold, told), NEW m2,
         \A n \in MetadataNames : store[n] # NoCell =>
           \A c \in PartsOf(memory, store[n]) : m2[c] = memory[c],
         hold # NoCell => \A c \in PartsOf(memory, hold) : m2[c] = memory[c]
  PROVE  Kept(m2, store, hold, told)
<1>1. ASSUME NEW n \in MetadataNames, store[n] # NoCell
      PROVE  /\ WellFormed(m2, store[n]) /\ Says(m2, store[n]) = told[n]
             /\ ValidMetadata(told[n])
             /\ PartsOf(m2, store[n]) = PartsOf(memory, store[n])
  <2>1. WellFormed(memory, store[n]) /\ Says(memory, store[n]) = told[n] /\ ValidMetadata(told[n])
    BY <1>1 DEF Kept
  <2>2. \A c \in PartsOf(memory, store[n]) : m2[c] = memory[c]
    BY <1>1
  <2>3. QED
    BY <2>1, <2>2, SameParts
<1>2. hold # NoCell => WellFormed(m2, hold) /\ PartsOf(m2, hold) = PartsOf(memory, hold)
  <2> SUFFICES ASSUME hold # NoCell
               PROVE  WellFormed(m2, hold) /\ PartsOf(m2, hold) = PartsOf(memory, hold)
    OBVIOUS
  <2>1. WellFormed(memory, hold)
    BY DEF Kept
  <2>2. QED
    BY <2>1, SameParts
<1>3. \A m, n \in MetadataNames :
        m # n /\ store[m] # NoCell /\ store[n] # NoCell =>
          PartsOf(m2, store[m]) \cap PartsOf(m2, store[n]) = {}
  BY <1>1 DEF Kept
<1>4. \A n \in MetadataNames :
        store[n] # NoCell /\ hold # NoCell => PartsOf(m2, store[n]) \cap PartsOf(m2, hold) = {}
  BY <1>1, <1>2 DEF Kept
<1>5. QED
  BY <1>1, <1>2, <1>3, <1>4 DEF Kept

\* Collecting frees nothing that is stored or held.
LEMMA CollectedKeeps ==
  ASSUME NEW memory, Heap(memory), NEW store \in Stores, NEW hold, NEW told,
         Kept(memory, store, hold, told)
  PROVE  /\ Heap(Collected(memory, Roots(store, hold)))
         /\ Kept(Collected(memory, Roots(store, hold)), store, hold, told)
<1> DEFINE roots == Roots(store, hold)
           m2 == Collected(memory, roots)
           live == UNION {PartsOf(memory, root) : root \in roots \ {NoCell}}
<1>1. m2 = [c \in Cells |-> IF c \in live THEN memory[c] ELSE FreeCell]
  BY DEF Collected
<1>2. \A n \in MetadataNames : store[n] \in roots
  BY DEF Roots
<1>3. hold \in roots
  BY DEF Roots
<1> HIDE DEF roots
<1>4. \A root \in roots : root # NoCell => PartsOf(memory, root) \subseteq live
  OBVIOUS
<1> HIDE DEF live, m2
<1>5. Heap(m2)
  <2>1. \A c \in Cells : m2[c].kind \in {"free", "metadata", "array", "deployment"}
    BY <1>1, Kinds DEF Heap
  <2>2. m2 = [c \in Cells |-> m2[c]]
    BY <1>1
  <2>3. QED
    BY <2>1, <2>2 DEF Heap
<1>6. ASSUME NEW r \in roots, r # NoCell, WellFormed(memory, r)
      PROVE  \A c \in PartsOf(memory, r) : m2[c] = memory[c]
  <2>1. PartsOf(memory, r) \subseteq Cells /\ PartsOf(memory, r) \subseteq live
    BY <1>4, <1>6, PartsUsed
  <2>2. QED
    BY <1>1, <2>1
<1>7. \A n \in MetadataNames : store[n] # NoCell =>
        \A c \in PartsOf(memory, store[n]) : m2[c] = memory[c]
  BY <1>2, <1>6 DEF Kept
<1>8. hold # NoCell => \A c \in PartsOf(memory, hold) : m2[c] = memory[c]
  BY <1>3, <1>6 DEF Kept
<1>9. Kept(m2, store, hold, told)
  BY <1>7, <1>8, KeptByParts
<1>10. QED
  BY <1>5, <1>9 DEF m2, roots

\* Something new in free cells leaves alone what is stored and held.
LEMMA FreeCellsApart ==
  ASSUME NEW memory, NEW store, NEW hold, NEW told, Kept(memory, store, hold, told), NEW m2,
         store \in Stores, \A c \in Cells \ FreeCells(memory) : m2[c] = memory[c]
  PROVE  /\ Kept(m2, store, hold, told)
         /\ \A n \in MetadataNames :
              store[n] # NoCell => PartsOf(m2, store[n]) \cap FreeCells(memory) = {}
         /\ hold # NoCell => PartsOf(m2, hold) \cap FreeCells(memory) = {}
<1>1. ASSUME NEW r, WellFormed(memory, r)
      PROVE  /\ \A c \in PartsOf(memory, r) : m2[c] = memory[c]
             /\ PartsOf(m2, r) \cap FreeCells(memory) = {}
  <2>1. PartsOf(memory, r) \subseteq Cells \ FreeCells(memory)
    BY <1>1, PartsUsed
  <2>2. \A c \in PartsOf(memory, r) : m2[c] = memory[c]
    BY <2>1
  <2>3. PartsOf(m2, r) = PartsOf(memory, r)
    BY <1>1, <2>2, SameParts
  <2>4. QED
    BY <2>1, <2>2, <2>3
<1>2. \A n \in MetadataNames : store[n] # NoCell => WellFormed(memory, store[n])
  BY DEF Kept
<1>3. hold # NoCell => WellFormed(memory, hold)
  BY DEF Kept
<1>4. Kept(m2, store, hold, told)
  BY <1>1, <1>2, <1>3, KeptByParts
<1>5. QED
  BY <1>1, <1>2, <1>3, <1>4

LEMMA NewHeld ==
  ASSUME NEW memory, NEW store \in Stores, NEW hold, NEW told, Kept(memory, store, hold, told),
         NEW m2, \A c \in Cells \ FreeCells(memory) : m2[c] = memory[c],
         NEW c2, WellFormed(m2, c2), PartsOf(m2, c2) \subseteq FreeCells(memory)
  PROVE  Kept(m2, store, c2, told)
<1>1. /\ Kept(m2, store, hold, told)
      /\ \A n \in MetadataNames :
           store[n] # NoCell => PartsOf(m2, store[n]) \cap FreeCells(memory) = {}
  BY FreeCellsApart
<1>2. \A n \in MetadataNames :
        store[n] # NoCell => PartsOf(m2, store[n]) \cap PartsOf(m2, c2) = {}
  BY <1>1
<1>3. QED
  BY <1>1, <1>2 DEF Kept

LEMMA NewStored ==
  ASSUME NEW memory, NEW store \in Stores, NEW hold, NEW told, Kept(memory, store, hold, told),
         told = [n \in MetadataNames |-> told[n]],
         NEW m2, \A c \in Cells \ FreeCells(memory) : m2[c] = memory[c],
         NEW c2 \in Cells, WellFormed(m2, c2), PartsOf(m2, c2) \subseteq FreeCells(memory),
         NEW says, Says(m2, c2) = says, ValidMetadata(says), NEW name \in MetadataNames
  PROVE  Kept(m2, [store EXCEPT ![name] = c2], hold, [told EXCEPT ![name] = says])
<1> DEFINE s == [store EXCEPT ![name] = c2]
           t == [told EXCEPT ![name] = says]
<1>1. /\ Kept(m2, store, hold, told)
      /\ \A n \in MetadataNames :
           store[n] # NoCell => PartsOf(m2, store[n]) \cap FreeCells(memory) = {}
      /\ hold # NoCell => PartsOf(m2, hold) \cap FreeCells(memory) = {}
  BY FreeCellsApart
<1>2. /\ s[name] = c2 /\ t[name] = says
      /\ \A n \in MetadataNames : n # name => s[n] = store[n] /\ t[n] = told[n]
  BY DEF Stores
<1> HIDE DEF s, t
<1>3. ASSUME NEW n \in MetadataNames, s[n] # NoCell
      PROVE  WellFormed(m2, s[n]) /\ Says(m2, s[n]) = t[n] /\ ValidMetadata(t[n])
  BY <1>1, <1>2, <1>3 DEF Kept
<1>4. ASSUME NEW m \in MetadataNames, NEW n \in MetadataNames, m # n, s[m] # NoCell, s[n] # NoCell
      PROVE  PartsOf(m2, s[m]) \cap PartsOf(m2, s[n]) = {}
  <2>1. CASE m = name
    BY <1>1, <1>2, <1>4, <2>1
  <2>2. CASE n = name
    BY <1>1, <1>2, <1>4, <2>2
  <2>3. CASE m # name /\ n # name
    BY <1>1, <1>2, <1>4, <2>3 DEF Kept
  <2>4. QED
    BY <2>1, <2>2, <2>3
<1>5. ASSUME NEW n \in MetadataNames, s[n] # NoCell, hold # NoCell
      PROVE  PartsOf(m2, s[n]) \cap PartsOf(m2, hold) = {}
  <2>1. CASE n = name
    BY <1>1, <1>2, <1>5, <2>1
  <2>2. CASE n # name
    BY <1>1, <1>2, <1>5, <2>2 DEF Kept
  <2>3. QED
    BY <2>1, <2>2
<1>6. hold # NoCell => WellFormed(m2, hold)
  BY <1>1 DEF Kept
<1>7. Kept(m2, s, hold, t)
  BY <1>3, <1>4, <1>5, <1>6 DEF Kept
<1>8. QED
  BY <1>7 DEF s, t

LEMMA Forgotten ==
  ASSUME NEW memory, NEW store \in Stores, NEW hold, NEW told, Kept(memory, store, hold, told),
         told = [n \in MetadataNames |-> told[n]], NEW name \in MetadataNames, NEW nothing
  PROVE  Kept(memory, [store EXCEPT ![name] = NoCell], hold, [told EXCEPT ![name] = nothing])
<1> DEFINE s == [store EXCEPT ![name] = NoCell]
           t == [told EXCEPT ![name] = nothing]
<1>1. /\ s[name] = NoCell
      /\ \A n \in MetadataNames : n # name => s[n] = store[n] /\ t[n] = told[n]
  BY DEF Stores
<1> HIDE DEF s, t
<1>2. \A n \in MetadataNames : s[n] # NoCell => n # name /\ s[n] = store[n] /\ t[n] = told[n]
  BY <1>1
<1>3. Kept(memory, s, hold, t)
  BY <1>2 DEF Kept
<1>4. QED
  BY <1>3 DEF s, t

LEMMA NothingHeld ==
  ASSUME NEW memory, NEW store, NEW hold, NEW told, Kept(memory, store, hold, told)
  PROVE  Kept(memory, store, NoCell, told)
BY DEF Kept

LEMMA SmallSeqs ==
  ASSUME NEW S, NEW n \in Nat, NEW q \in SeqOf(S, n)
  PROVE  q \in Seq(S) /\ DOMAIN q = 1..Len(q) /\ Len(q) \in Nat
BY DEF SeqOf

\* After an action that leaves the metadata apart and collects.
LEMMA CollectedState ==
  ASSUME NEW memory, Heap(memory), Kept(memory, storedAt', held', published'),
         objects' = Collected(memory, Roots(storedAt', held')),
         storedAt' \in Stores, held' \in Cells \cup {NoCell},
         published' = [n \in MetadataNames |-> published'[n]], revision' \in 0..MaxRevisions
  PROVE  MetadataIInv'
<1>1. Heap(objects') /\ Kept(objects', storedAt', held', published')
  BY CollectedKeeps
<1>2. QED
  BY <1>1 DEF MetadataIInv, Heap, Kept, Stores, WellFormed, MetadataAt, Says, PartsOf, Deployments

LEMMA ChangeKeeps ==
  ASSUME MetadataIInv, held # NoCell, NEW m2, Heap(m2),
         \A x \in Cells : x \notin PartsOf(objects, held) => m2[x] = objects[x],
         WellFormed(m2, held), PartsOf(m2, held) \subseteq PartsOf(objects, held),
         objects' = Collected(m2, Roots(storedAt, held)),
         storedAt' = storedAt, held' = held, published' = published, revision' = revision
  PROVE  MetadataIInv'
<1>1. /\ Heap(objects) /\ Kept(objects, storedAt, held, published) /\ storedAt \in Stores
      /\ held \in Cells /\ published = [n \in MetadataNames |-> published[n]]
      /\ revision \in 0..MaxRevisions
  BY DEF MetadataIInv
<1>7. \A n \in MetadataNames :
        storedAt[n] # NoCell => PartsOf(objects, storedAt[n]) \cap PartsOf(objects, held) = {}
  BY <1>1 DEF Kept
<1>8. ASSUME NEW n \in MetadataNames, storedAt[n] # NoCell
      PROVE  \A x \in PartsOf(objects, storedAt[n]) : m2[x] = objects[x]
  <2>1. PartsOf(objects, storedAt[n]) \subseteq Cells
    <3>1. WellFormed(objects, storedAt[n])
      BY <1>1, <1>8 DEF Kept
    <3>2. QED
      BY <3>1, PartsUsed
  <2>2. QED
    BY <1>7, <1>8, <2>1
<1>9. Kept(objects, storedAt, NoCell, published)
  BY <1>1, NothingHeld
<1>10. Kept(m2, storedAt, NoCell, published)
  BY <1>8, <1>9, KeptByParts
<1>11. ASSUME NEW n \in MetadataNames, storedAt[n] # NoCell
       PROVE  PartsOf(m2, storedAt[n]) \cap PartsOf(m2, held) = {}
  <2>1. WellFormed(objects, storedAt[n])
    BY <1>1, <1>11 DEF Kept
  <2>2. PartsOf(m2, storedAt[n]) = PartsOf(objects, storedAt[n])
    BY <1>8, <1>11, <2>1, SameParts
  <2>3. QED
    BY <1>7, <1>11, <2>2
<1>12. Kept(m2, storedAt, held, published)
  BY <1>10, <1>11 DEF Kept
<1>13. QED
  BY <1>1, <1>12, CollectedState

\* A cell that is written to, and the rest of the memory.
LEMMA Written ==
  ASSUME NEW memory, DOMAIN memory = Cells, NEW c \in Cells, NEW object
  PROVE  /\ [memory EXCEPT ![c] = object][c] = object
         /\ \A x \in Cells : x # c => [memory EXCEPT ![c] = object][x] = memory[x]
OBVIOUS

LEMMA ChangeHeldKeeps ==
  ASSUME MetadataIInv, ChangeHeld
  PROVE  MetadataIInv'
<1>1. held # NoCell /\ Heap(objects) /\ held \in Cells /\ WellFormed(objects, held)
  BY DEF ChangeHeld, MetadataIInv, Kept
<1>2. PICK v, a, caps, d, deps, envs : MetadataAt(objects, held, v, a, caps, d, deps, envs)
  BY <1>1 DEF WellFormed
<1>3. /\ held \in Cells /\ a \in Cells /\ d \in Cells /\ a # d
      /\ objects[held] = Metadata(v, a, d)
      /\ objects[a] = Array(caps) /\ caps \in Seq(Capabilities)
      /\ objects[d] = Array(deps) /\ deps \in Seq(Cells)
      /\ envs \in Seq(Environments) /\ Len(envs) = Len(deps)
      /\ \A i \in 1..Len(deps) : objects[deps[i]] = Deployment(envs[i])
  BY <1>2 DEF MetadataAt
<1>4. /\ PartsOf(objects, held) = {held, a, d} \cup {deps[i] : i \in 1..Len(deps)}
      /\ Deployments(objects, held) = deps
      /\ held # a /\ held # d /\ {held, a, d} \cap {deps[i] : i \in 1..Len(deps)} = {}
  <2>1. ToSet(deps) = {deps[i] : i \in 1..Len(deps)} /\ Deployments(objects, held) = deps
    BY <1>2, PartsAt
  <2>2. /\ PartsOf(objects, held) = {held, a, d} \cup ToSet(deps)
        /\ held # a /\ held # d /\ {held, a, d} \cap ToSet(deps) = {}
    BY <1>2, PartsAt
  <2>3. QED
    BY <2>1, <2>2
<1>5. objects[held].capabilities = a /\ objects[held].deployments = d
  BY <1>3, Kinds
<1>6. \A i \in 1..Len(deps) : deps[i] \in Cells
  BY <1>3
<1>7. DOMAIN objects = Cells /\ held \in Cells /\ a \in Cells /\ d \in Cells
  BY <1>1, <1>3 DEF Heap
<1>8. ASSUME NEW c \in PartsOf(objects, held), NEW object, Change(c, object),
             object.kind \in {"metadata", "array", "deployment"},
             NEW v2, NEW caps2, NEW deps2, NEW envs2, Range(deps2) \subseteq Range(deps),
             DOMAIN deps = 1..Len(deps), DOMAIN deps2 = 1..Len(deps2),
             NEW m2, m2 = [objects EXCEPT ![c] = object],
             MetadataAt(m2, held, v2, a, caps2, d, deps2, envs2)
      PROVE  MetadataIInv'
  <2>1. WellFormed(m2, held)
    BY <1>8 DEF WellFormed
  <2>2. PartsOf(m2, held) = {held, a, d} \cup ToSet(deps2) /\ ToSet(deps2) = Range(deps2)
    <3>1. PartsOf(m2, held) = {held, a, d} \cup ToSet(deps2)
      BY <1>8, PartsAt
    <3>2. QED
      BY <3>1 DEF ToSet, Range
  <2>3. PartsOf(m2, held) \subseteq PartsOf(objects, held)
    BY <1>4, <1>8, <2>2 DEF Range
  <2>4. c \in Cells
    BY <1>1, PartsUsed
  <2>5. Heap(m2) /\ \A x \in Cells : x # c => m2[x] = objects[x]
    BY <1>1, <1>8, <2>4 DEF Heap
  <2>6. /\ objects' = Collected(m2, Roots(storedAt, held))
        /\ storedAt' = storedAt /\ held' = held /\ published' = published /\ revision' = revision
    BY <1>8 DEF Change
  <2>7. \A x \in Cells : x \notin PartsOf(objects, held) => m2[x] = objects[x]
    BY <1>8, <2>5
  <2>8. QED
    BY <1>1, <2>1, <2>3, <2>5, <2>6, <2>7, ChangeKeeps
<1>9. DOMAIN deps = 1..Len(deps) /\ Len(deps) \in Nat
  BY <1>3
<1>10. ASSUME NEW q \in SeqOf(Capabilities, 1), Change(a, Array(q))
       PROVE  MetadataIInv'
  <2> DEFINE m2 == [objects EXCEPT ![a] = Array(q)]
  <2>1. m2[a] = Array(q) /\ \A x \in Cells : x # a => m2[x] = objects[x]
    BY <1>7, Written
  <2> HIDE DEF m2
  <2>2. m2[held] = Metadata(v, a, d) /\ m2[d] = Array(deps)
    BY <1>3, <1>4, <2>1
  <2>3. \A i \in 1..Len(deps) : m2[deps[i]] = Deployment(envs[i])
    BY <1>3, <1>4, <1>6, <2>1
  <2>4. q \in Seq(Capabilities)
    BY SmallSeqs
  <2>5. MetadataAt(m2, held, v, a, q, d, deps, envs)
    BY <1>3, <2>1, <2>2, <2>3, <2>4 DEF MetadataAt
  <2>6. Array(q).kind = "array" /\ a \in PartsOf(objects, held)
    BY <1>4, Kinds
  <2>7. QED
    BY <1>8, <1>9, <1>10, <2>5, <2>6 DEF m2
<1>11. ASSUME Change(d, Array(<<>>))
       PROVE  MetadataIInv'
  <2> DEFINE m2 == [objects EXCEPT ![d] = Array(<<>>)]
  <2>1. m2[d] = Array(<<>>) /\ \A x \in Cells : x # d => m2[x] = objects[x]
    BY <1>7, Written
  <2> HIDE DEF m2
  <2>2. m2[held] = Metadata(v, a, d) /\ m2[a] = Array(caps)
    BY <1>3, <1>4, <2>1
  <2>3. /\ <<>> \in Seq(Cells) /\ <<>> \in Seq(Environments) /\ Len(<<>>) = 0
        /\ DOMAIN <<>> = 1..Len(<<>>) /\ Range(<<>>) = {}
    BY DEF Range
  <2>4. MetadataAt(m2, held, v, a, caps, d, <<>>, <<>>)
    BY <1>3, <2>1, <2>2, <2>3 DEF MetadataAt
  <2>5. Array(<<>>).kind = "array" /\ d \in PartsOf(objects, held)
    BY <1>4, Kinds
  <2>6. QED
    BY <1>8, <1>9, <1>11, <2>3, <2>4, <2>5 DEF m2
<1>12. ASSUME NEW i \in 1..Len(deps), NEW e \in Environments, Change(deps[i], Deployment(e))
       PROVE  MetadataIInv'
  <2> DEFINE m2 == [objects EXCEPT ![deps[i]] = Deployment(e)]
             envs2 == [j \in 1..Len(deps) |-> IF deps[j] = deps[i] THEN e ELSE envs[j]]
  <2>1. m2[deps[i]] = Deployment(e) /\ \A x \in Cells : x # deps[i] => m2[x] = objects[x]
    BY <1>6, <1>7, Written
  <2> HIDE DEF m2
  <2>2. deps[i] \notin {held, a, d}
    BY <1>4
  <2>3. m2[held] = Metadata(v, a, d) /\ m2[a] = Array(caps) /\ m2[d] = Array(deps)
    BY <1>3, <2>1, <2>2
  <2>4. \A j \in 1..Len(deps) : envs[j] \in Environments
    BY <1>3
  <2>5. envs2 \in Seq(Environments) /\ Len(envs2) = Len(deps)
    <3>1. envs2 \in [1..Len(deps) -> Environments]
      BY <2>4
    <3>2. QED
      BY <1>9, <3>1
  <2>6. ASSUME NEW j \in 1..Len(deps) PROVE m2[deps[j]] = Deployment(envs2[j])
    <3>1. CASE deps[j] = deps[i]
      BY <2>1, <3>1
    <3>2. CASE deps[j] # deps[i]
      BY <1>3, <1>6, <2>1, <3>2
    <3>3. QED
      BY <3>1, <3>2
  <2> HIDE DEF envs2
  <2>7. MetadataAt(m2, held, v, a, caps, d, deps, envs2)
    BY <1>3, <2>3, <2>5, <2>6 DEF MetadataAt
  <2>8. Deployment(e).kind = "deployment" /\ deps[i] \in PartsOf(objects, held)
    BY <1>4, Kinds
  <2>9. QED
    BY <1>8, <1>9, <1>12, <2>7, <2>8 DEF m2
<1>13. ASSUME Change(held, [objects[held] EXCEPT !.version = 0])
       PROVE  MetadataIInv'
  <2> DEFINE object == Metadata(0, a, d)
             m2 == [objects EXCEPT ![held] = object]
  <2>1. [objects[held] EXCEPT !.version = 0] = object
    BY <1>3 DEF Metadata
  <2>2. m2[held] = object /\ \A x \in Cells : x # held => m2[x] = objects[x]
    BY <1>7, Written
  <2>3. Change(held, object)
    BY <1>13, <2>1
  <2> HIDE DEF m2
  <2>4. m2[a] = Array(caps) /\ m2[d] = Array(deps)
    BY <1>3, <1>4, <2>2
  <2>5. \A j \in 1..Len(deps) : m2[deps[j]] = Deployment(envs[j])
    BY <1>3, <1>4, <1>6, <2>2
  <2>6. MetadataAt(m2, held, 0, a, caps, d, deps, envs)
    BY <1>3, <2>2, <2>4, <2>5 DEF MetadataAt
  <2>7. object.kind = "metadata" /\ held \in PartsOf(objects, held)
    BY <1>4, Kinds
  <2>8. QED
    BY <1>8, <1>9, <2>3, <2>6, <2>7 DEF m2
<1>14. QED
  BY <1>4, <1>5, <1>9, <1>10, <1>11, <1>12, <1>13 DEF ChangeHeld

LEMMA WriteKeeps ==
  ASSUME MetadataIInv, NEW environments \in SeqOf(Environments, 2),
         NEW capabilities \in SeqOf(Capabilities, 1), Write(environments, capabilities)
  PROVE  MetadataIInv'
<1> DEFINE memory == Collected(objects, Roots(storedAt, NoCell))
           n == Len(environments)
           cell(k) == NewCell(memory, k)
           deployments == [i \in 1..n |-> cell(i + 2)]
<1>1. /\ Heap(objects) /\ Kept(objects, storedAt, held, published) /\ storedAt \in Stores
      /\ published = [m \in MetadataNames |-> published[m]] /\ revision \in 0..MaxRevisions
  BY DEF MetadataIInv
<1>2. Heap(memory) /\ Kept(memory, storedAt, NoCell, published)
  <2>1. Kept(objects, storedAt, NoCell, published)
    BY <1>1, NothingHeld
  <2>2. QED
    BY <1>1, <2>1, CollectedKeeps
<1>3. /\ environments \in Seq(Environments) /\ DOMAIN environments = 1..n /\ n \in Nat
      /\ capabilities \in Seq(Capabilities)
  BY SmallSeqs
<1>4. /\ HasRoom(memory, n + 3) /\ held' = cell(0)
      /\ objects' = [c \in Cells |->
           CASE c = cell(0) -> Metadata(revision + 1, cell(1), cell(2))
             [] c = cell(1) -> Array(capabilities)
             [] c = cell(2) -> Array(deployments)
             [] \E i \in 1..n : deployments[i] = c ->
                  Deployment(environments[CHOOSE i \in 1..n : deployments[i] = c])
             [] OTHER -> memory[c]]
      /\ storedAt' = storedAt /\ published' = published /\ revision' \in 0..MaxRevisions
  BY <1>1, <1>3, MetadataAssumption DEF Write
<1> HIDE DEF memory, n
<1>5. /\ \A k \in 0..(n + 2) : cell(k) \in FreeCells(memory)
      /\ \A j, k \in 0..(n + 2) : cell(j) = cell(k) => j = k
  <2>1. n + 3 \in Nat /\ (n + 3) - 1 = n + 2
    BY <1>3
  <2>2. /\ \A k \in 0..((n + 3) - 1) : cell(k) \in FreeCells(memory)
        /\ \A j, k \in 0..((n + 3) - 1) : cell(j) = cell(k) => j = k
    BY <1>4, <2>1, NewCells
  <2>3. QED
    BY <2>1, <2>2
<1>6. /\ 0 \in 0..(n + 2) /\ 1 \in 0..(n + 2) /\ 2 \in 0..(n + 2)
      /\ \A i \in 1..n : i + 2 \in 0..(n + 2) /\ i + 2 \notin {0, 1, 2}
  BY <1>3
<1>7. /\ cell(0) # cell(1) /\ cell(0) # cell(2) /\ cell(1) # cell(2)
      /\ \A i \in 1..n : cell(i + 2) \notin {cell(0), cell(1), cell(2)}
  BY <1>5, <1>6
<1>8. ASSUME NEW i \in 1..n, NEW j \in 1..n, cell(i + 2) = cell(j + 2) PROVE i = j
  <2>1. i + 2 = j + 2
    BY <1>5, <1>6, <1>8
  <2>2. QED
    BY <2>1, <1>3
<1>9. /\ cell(0) \in FreeCells(memory) /\ cell(1) \in FreeCells(memory)
      /\ cell(2) \in FreeCells(memory) /\ \A i \in 1..n : cell(i + 2) \in FreeCells(memory)
      /\ FreeCells(memory) \subseteq Cells
  BY <1>5, <1>6 DEF FreeCells
<1>10. \A i \in 1..n : deployments[i] = cell(i + 2)
  OBVIOUS
<1>11. deployments \in Seq(Cells) /\ Len(deployments) = n
  <2>1. deployments \in [1..n -> Cells]
    BY <1>9
  <2>2. QED
    BY <1>3, <2>1
<1> HIDE DEF cell, deployments
<1>12. ASSUME NEW c \in Cells
       PROVE  objects'[c] =
           CASE c = cell(0) -> Metadata(revision + 1, cell(1), cell(2))
             [] c = cell(1) -> Array(capabilities)
             [] c = cell(2) -> Array(deployments)
             [] \E i \in 1..n : deployments[i] = c ->
                  Deployment(environments[CHOOSE i \in 1..n : deployments[i] = c])
             [] OTHER -> memory[c]
  BY <1>4
<1>13. \A i \in 1..n : deployments[i] \notin {cell(0), cell(1), cell(2)}
  BY <1>7, <1>10
<1>14. objects'[cell(0)] = Metadata(revision + 1, cell(1), cell(2))
  BY <1>7, <1>9, <1>12, <1>13
<1>15. objects'[cell(1)] = Array(capabilities)
  BY <1>7, <1>9, <1>12, <1>13
<1>16. objects'[cell(2)] = Array(deployments)
  BY <1>7, <1>9, <1>12, <1>13
<1>17. ASSUME NEW i \in 1..n PROVE objects'[deployments[i]] = Deployment(environments[i])
  <2>1. deployments[i] \in Cells
    BY <1>9, <1>10
  <2>2. \A j \in 1..n : deployments[j] = deployments[i] => j = i
    BY <1>8, <1>10
  <2>3. (CHOOSE j \in 1..n : deployments[j] = deployments[i]) = i
    BY <2>2
  <2>4. QED
    BY <1>12, <1>13, <2>1, <2>3
<1>18. ASSUME NEW c \in Cells, c \notin {cell(0), cell(1), cell(2)},
              \A i \in 1..n : deployments[i] # c
       PROVE  objects'[c] = memory[c]
  BY <1>12, <1>18
<1>19. \A c \in Cells \ FreeCells(memory) : objects'[c] = memory[c]
  BY <1>9, <1>10, <1>18
<1>20. MetadataAt(objects', cell(0), revision + 1, cell(1), capabilities, cell(2), deployments,
                  environments)
  BY <1>3, <1>7, <1>9, <1>11, <1>14, <1>15, <1>16, <1>17 DEF MetadataAt
<1>21. PartsOf(objects', cell(0)) \subseteq FreeCells(memory)
  <2>1. /\ PartsOf(objects', cell(0)) = {cell(0), cell(1), cell(2)} \cup ToSet(deployments)
        /\ ToSet(deployments) = {deployments[i] : i \in 1..Len(deployments)}
    BY <1>20, PartsAt
  <2>2. QED
    BY <1>9, <1>10, <1>11, <2>1
<1>22. WellFormed(objects', cell(0))
  BY <1>20 DEF WellFormed
<1>23. Kept(objects', storedAt, cell(0), published)
  BY <1>1, <1>2, <1>19, <1>21, <1>22, NewHeld
<1>24. Heap(objects')
  <2>1. objects' = [c \in Cells |-> objects'[c]]
    BY <1>4
  <2>2. ASSUME NEW c \in Cells
        PROVE  objects'[c].kind \in {"free", "metadata", "array", "deployment"}
    <3>1. CASE c \in {cell(0), cell(1), cell(2)}
      BY <1>14, <1>15, <1>16, <3>1, Kinds
    <3>2. CASE \E i \in 1..n : deployments[i] = c
      BY <1>17, <3>2, Kinds
    <3>3. CASE /\ c \notin {cell(0), cell(1), cell(2)}
               /\ \A i \in 1..n : deployments[i] # c
      BY <1>2, <1>18, <3>3 DEF Heap
    <3>4. QED
      BY <3>1, <3>2, <3>3
  <2>3. QED
    BY <2>1, <2>2 DEF Heap
<1>25. cell(0) \in Cells
  BY <1>9
<1>26. QED
  BY <1>1, <1>4, <1>23, <1>24, <1>25 DEF MetadataIInv

\* The heap after a clone.
LEMMA CloneHeap ==
  ASSUME NEW memory, Heap(memory), NEW r, WellFormed(memory, r), CloneHasRoom(memory, r)
  PROVE  Heap(Clone(memory, r).objects)
<1> DEFINE m2 == Clone(memory, r).objects
           c2 == Clone(memory, r).cell
<1>1. /\ WellFormed(m2, c2) /\ m2 = [c \in Cells |-> m2[c]]
      /\ \A c \in Cells : m2[c] = memory[c] \/ c \in PartsOf(m2, c2)
  BY CloneIsNew
<1> HIDE DEF m2, c2
<1>2. \A c \in PartsOf(m2, c2) : m2[c].kind \in {"metadata", "array", "deployment"}
  BY <1>1, PartsUsed
<1>3. Heap(m2)
  BY <1>1, <1>2 DEF Heap
<1>4. QED
  BY <1>3 DEF m2

LEMMA GetKeeps ==
  ASSUME MetadataIInv, NEW name \in MetadataNames, NEW environment, NEW capability,
         GetMetadata(name, environment, capability)
  PROVE  MetadataIInv'
<1> DEFINE memory == Collected(objects, Roots(storedAt, NoCell))
           r == storedAt[name]
<1>1. /\ Heap(objects) /\ Kept(objects, storedAt, held, published) /\ storedAt \in Stores
      /\ published = [m \in MetadataNames |-> published[m]] /\ revision \in 0..MaxRevisions
  BY DEF MetadataIInv
<1>2. Heap(memory) /\ Kept(memory, storedAt, NoCell, published)
  <2>1. Kept(objects, storedAt, NoCell, published)
    BY <1>1, NothingHeld
  <2>2. QED
    BY <1>1, <2>1, CollectedKeeps
<1>3. /\ r # NoCell /\ CloneHasRoom(memory, r)
      /\ objects' = Clone(memory, r).objects /\ held' = Clone(memory, r).cell
      /\ storedAt' = storedAt /\ published' = published /\ revision' = revision
  BY DEF GetMetadata
<1> HIDE DEF memory
<1>4. WellFormed(memory, r)
  BY <1>2, <1>3 DEF Kept
<1> HIDE DEF r
<1>5. /\ WellFormed(objects', held') /\ PartsOf(objects', held') \subseteq FreeCells(memory)
      /\ \A c \in Cells \ FreeCells(memory) : objects'[c] = memory[c]
  BY <1>3, <1>4, CloneIsNew
<1>6. Kept(objects', storedAt, held', published)
  BY <1>1, <1>2, <1>5, NewHeld
<1>7. Heap(objects')
  BY <1>2, <1>3, <1>4, CloneHeap
<1>8. held' \in Cells
  BY <1>5, PartsUsed
<1>9. QED
  BY <1>1, <1>3, <1>6, <1>7, <1>8 DEF MetadataIInv

LEMMA RegisterMetadataKeeps ==
  ASSUME MetadataIInv, NEW name \in MetadataNames, NEW keeps \in BOOLEAN,
         RegisterMetadata(name, keeps)
  PROVE  MetadataIInv'
<1> DEFINE m1 == Clone(objects, held).objects
           c1 == Clone(objects, held).cell
           store == [storedAt EXCEPT ![name] = c1]
           told == [published EXCEPT ![name] = Says(objects, held)]
           memory == Collected(m1, Roots(store, held))
           m2 == Clone(memory, c1).objects
           c2 == Clone(memory, c1).cell
<1>1. /\ Heap(objects) /\ Kept(objects, storedAt, held, published) /\ storedAt \in Stores
      /\ held \in Cells \cup {NoCell}
      /\ published = [m \in MetadataNames |-> published[m]] /\ revision \in 0..MaxRevisions
  BY DEF MetadataIInv
<1>2. /\ held # NoCell /\ ValidMetadata(Says(objects, held))
      /\ CloneHasRoom(objects, held) /\ CloneHasRoom(memory, c1)
      /\ storedAt' = store /\ published' = told /\ revision' = revision
      /\ held' = IF keeps THEN c2 ELSE held
      /\ objects' = Collected(m2, Roots(storedAt', held'))
  BY DEF RegisterMetadata, Normalized
<1>3. WellFormed(objects, held)
  BY <1>1, <1>2 DEF Kept
<1>4. /\ WellFormed(m1, c1) /\ PartsOf(m1, c1) \subseteq FreeCells(objects)
      /\ Says(m1, c1) = Says(objects, held)
      /\ \A c \in Cells \ FreeCells(objects) : m1[c] = objects[c]
      /\ Heap(m1)
  BY <1>1, <1>2, <1>3, CloneIsNew, CloneHeap
<1> HIDE DEF m1, c1
<1>5. c1 \in Cells
  BY <1>4, PartsUsed
<1>6. Kept(m1, store, held, told)
  BY <1>1, <1>2, <1>4, <1>5, NewStored
<1>7. /\ store \in Stores /\ store[name] = c1 /\ c1 # NoCell
      /\ told = [m \in MetadataNames |-> told[m]]
  BY <1>1, <1>5, MetadataAssumption DEF Stores
<1> HIDE DEF store, told
<1>8. Heap(memory) /\ Kept(memory, store, held, told)
  BY <1>4, <1>6, <1>7, CollectedKeeps
<1> HIDE DEF memory
<1>9. WellFormed(memory, c1)
  BY <1>7, <1>8 DEF Kept
<1>10. /\ WellFormed(m2, c2) /\ PartsOf(m2, c2) \subseteq FreeCells(memory)
       /\ \A c \in Cells \ FreeCells(memory) : m2[c] = memory[c]
       /\ Heap(m2)
  BY <1>2, <1>8, <1>9, CloneIsNew, CloneHeap
<1> HIDE DEF m2, c2
<1>11. c2 \in Cells
  BY <1>10, PartsUsed
<1>12. Kept(m2, store, c2, told)
  BY <1>7, <1>8, <1>10, NewHeld
<1>13. Kept(m2, store, held, told)
  BY <1>7, <1>8, <1>10, FreeCellsApart
<1>14. Kept(m2, storedAt', held', published') /\ held' \in Cells \cup {NoCell}
  BY <1>1, <1>2, <1>11, <1>12, <1>13
<1>15. /\ storedAt' \in Stores /\ published' = [m \in MetadataNames |-> published'[m]]
       /\ revision' \in 0..MaxRevisions
  BY <1>1, <1>2, <1>7
<1>16. QED
  BY <1>2, <1>10, <1>14, <1>15, CollectedState

LEMMA UnregisterMetadataKeeps ==
  ASSUME MetadataIInv, NEW name \in MetadataNames, UnregisterMetadata(name)
  PROVE  MetadataIInv'
<1> DEFINE store == [storedAt EXCEPT ![name] = NoCell]
           told == [published EXCEPT ![name] = NotPublished]
<1>1. /\ Heap(objects) /\ Kept(objects, storedAt, held, published) /\ storedAt \in Stores
      /\ held \in Cells \cup {NoCell}
      /\ published = [m \in MetadataNames |-> published[m]] /\ revision \in 0..MaxRevisions
  BY DEF MetadataIInv
<1>2. /\ storedAt' = store /\ published' = told /\ held' = held /\ revision' = revision
      /\ objects' = Collected(objects, Roots(storedAt', held'))
  BY DEF UnregisterMetadata
<1>3. Kept(objects, store, held, told)
  BY <1>1, Forgotten
<1>4. store \in Stores /\ told = [m \in MetadataNames |-> told[m]]
  BY <1>1 DEF Stores
<1> HIDE DEF store, told
<1>5. Kept(objects, storedAt', held', published')
  BY <1>2, <1>3
<1>6. QED
  BY <1>1, <1>2, <1>4, <1>5, CollectedState

LEMMA MetadataInvInit ==
  ASSUME MetadataInit
  PROVE  MetadataIInv
<1>1. Heap(objects)
  BY Kinds DEF MetadataInit, Heap
<1>2. storedAt \in Stores /\ \A n \in MetadataNames : storedAt[n] = NoCell
  BY DEF MetadataInit, Stores
<1>3. Kept(objects, storedAt, held, published)
  BY <1>2 DEF MetadataInit, Kept
<1>4. QED
  BY <1>1, <1>2, <1>3, MetadataAssumption DEF MetadataIInv, MetadataInit

LEMMA MetadataInvStep ==
  ASSUME MetadataIInv, [MetadataNext]_metadataVars
  PROVE  MetadataIInv'
<1>1. CASE \E environments \in SeqOf(Environments, 2), capabilities \in SeqOf(Capabilities, 1) :
             Write(environments, capabilities)
  BY <1>1, WriteKeeps
<1>2. CASE ChangeHeld
  BY <1>2, ChangeHeldKeeps
<1>3. CASE \E name \in MetadataNames, keeps \in BOOLEAN : RegisterMetadata(name, keeps)
  BY <1>3, RegisterMetadataKeeps
<1>4. CASE \E name \in MetadataNames, environment \in Environments \cup {NoCell},
              capability \in Capabilities \cup {NoCell} :
                GetMetadata(name, environment, capability)
  BY <1>4, GetKeeps
<1>5. CASE \E name \in MetadataNames : UnregisterMetadata(name)
  BY <1>5, UnregisterMetadataKeeps
<1>6. CASE UNCHANGED metadataVars
  <2>1. /\ objects' = objects /\ storedAt' = storedAt /\ held' = held
        /\ published' = published /\ revision' = revision
    BY <1>6 DEF metadataVars
  <2>2. QED
    BY <2>1 DEF MetadataIInv
<1>7. QED
  BY <1>1, <1>2, <1>3, <1>4, <1>5, <1>6 DEF MetadataNext

LEMMA MetadataInvSays ==
  ASSUME MetadataIInv
  PROVE  MetadataTypeOK /\ MetadataIsKept
<1>1. /\ Heap(objects) /\ Kept(objects, storedAt, held, published) /\ storedAt \in Stores
      /\ held \in Cells \cup {NoCell} /\ revision \in 0..MaxRevisions
  BY DEF MetadataIInv
<1>2. ASSUME NEW root \in Roots(storedAt, held) \ {NoCell}
      PROVE  /\ objects[root].kind = "metadata"
             /\ \A c \in ToSet(Deployments(objects, root)) : objects[c].kind = "deployment"
  <2>1. WellFormed(objects, root)
    BY <1>1, <1>2 DEF Roots, Kept
  <2>2. PICK v, a, caps, d, deps, envs : MetadataAt(objects, root, v, a, caps, d, deps, envs)
    BY <2>1 DEF WellFormed
  <2>3. QED
    BY <2>2, PartsAt
<1>3. MetadataTypeOK
  BY <1>1, <1>2 DEF MetadataTypeOK, Heap, Stores
<1>4. ASSUME NEW n \in MetadataNames, storedAt[n] # NoCell
      PROVE  /\ Says(objects, storedAt[n]) = published[n]
             /\ published[n].capabilities # <<>>
             /\ \A environment \in Environments :
                  Cardinality({i \in DOMAIN published[n].environments :
                                 published[n].environments[i] = environment}) <= 1
  <2>1. Says(objects, storedAt[n]) = published[n] /\ ValidMetadata(published[n])
    BY <1>1, <1>4 DEF Kept
  <2>2. published[n].capabilities # <<>> /\ IsInjective(published[n].environments)
    BY <2>1 DEF ValidMetadata
  <2>3. ASSUME NEW environment \in Environments
        PROVE  Cardinality({i \in DOMAIN published[n].environments :
                              published[n].environments[i] = environment}) <= 1
    <3> DEFINE at == {i \in DOMAIN published[n].environments :
                        published[n].environments[i] = environment}
    <3>1. \A i, j \in at : i = j
      BY <2>2 DEF IsInjective
    <3>2. at = {} \/ \E i : at = {i}
      BY <3>1
    <3> HIDE DEF at
    <3>3. Cardinality(at) <= 1
      <4>1. CASE at = {}
        BY <4>1, FS_EmptySet
      <4>2. CASE \E i : at = {i}
        <5>1. PICK i : at = {i}
          BY <4>2
        <5>2. Cardinality({i}) = 1
          BY FS_Singleton
        <5>3. QED
          BY <5>1, <5>2
      <4>3. QED
        BY <3>2, <4>1, <4>2
    <3>4. QED
      BY <3>3 DEF at
  <2>4. QED
    BY <2>1, <2>2, <2>3
<1>5. MetadataIsKept
  BY <1>4 DEF MetadataIsKept
<1>6. QED
  BY <1>3, <1>5

(* Whatever callers do to the metadata they passed in or were handed, the
   registry tells of each contract what was registered last, and it stays
   valid. (src/registry/contractMetadataRegistry.ts:65, 147) *)
THEOREM MetadataCorrect == MetadataSpec => [](MetadataTypeOK /\ MetadataIsKept)
<1>1. MetadataInit => MetadataIInv
  BY MetadataInvInit
<1>2. MetadataIInv /\ [MetadataNext]_metadataVars => MetadataIInv'
  BY MetadataInvStep
<1>3. MetadataIInv => MetadataTypeOK /\ MetadataIsKept
  BY MetadataInvSays
<1>4. QED
  BY <1>1, <1>2, <1>3, PTL DEF MetadataSpec

-----------------------------------------------------------------------------
(***************************************************************************)
(* TransactionLifecycle: whatever listeners do while emit() goes through   *)
(* them, everybody who stays subscribed hears every event once, and the    *)
(* first listener hears each record's history in order.                    *)
(*                                                                         *)
(* Most of it is what one step of the iteration does (AdvanceServes); the  *)
(* two callers of Advance, Emit and ListenerReturns, differ in the frames  *)
(* they leave below it.                                                    *)
(***************************************************************************)

(* The inductive invariant. *)

LifecycleEvent == RecordNumbers \X LifecycleStates
FrameType == [event : LifecycleEvent, at : 1..MaxSubscriptions]

LifecycleTyping ==
  /\ records \in [TxIds -> 0..Len(history)]
  /\ history \in Seq(Seq(LifecycleStates)) /\ Len(history) <= MaxRecords
  /\ nextSub \in 0..MaxSubscriptions
  /\ filterOf \in Seq(Filters \cup {{"removed"}}) /\ Len(filterOf) = nextSub
  /\ emits \in Seq(FrameType)
  /\ heard \in [1..MaxSubscriptions -> Seq(LifecycleEvent)]
  /\ emitted \in Seq([event : LifecycleEvent, subs : Nat])
  /\ unwound \in BOOLEAN

\* A record goes forward, step by step, and may fail in the end.
Path(states) ==
  /\ Len(states) \in 1..11
  /\ \A k \in 1..Len(states) :
       \/ k <= 10 /\ states[k] = Forward[k]
       \/ k > 1 /\ k = Len(states) /\ states[k] = "failed"
Paths == \A r \in 1..Len(history) : Path(history[r])

\* What was emitted has happened, and only what was emitted is told.
Emitted == {emitted[n].event : n \in 1..Len(emitted)}
Happened == \A e \in Emitted : e[1] \in 1..Len(history) /\ e[2] \in Range(history[e[1]])
OnlyEmitted ==
  /\ \A i \in 1..Len(emits) : emits[i].event \in Emitted /\ emits[i].at <= nextSub
  /\ \A s \in 1..MaxSubscriptions : Range(heard[s]) \subseteq Emitted
  /\ \A n \in 1..Len(emitted) : emitted[n].subs <= nextSub

\* No two emits under way are of one event.
Distinct(frames) ==
  \A i, j \in 1..Len(frames) : frames[i].event = frames[j].event => i = j

\* An emit under way has not called anybody behind the listener it is in.
InOrder(frames, told) ==
  \A i \in 1..Len(frames), s \in 1..MaxSubscriptions :
    frames[i].event \in Range(told[s]) => s <= frames[i].at

\* Nobody has heard an event twice, and nobody anything before he came.
HeardOnce(told) ==
  \A s \in 1..MaxSubscriptions :
    /\ IsInjective(told[s])
    /\ s > nextSub => told[s] = <<>>

\* Subscription s has heard event e, or an emit under way comes to it.
Served(e, s, frames, told) ==
  \/ e \in Range(told[s])
  \/ \E i \in 1..Len(frames) : frames[i].event = e /\ frames[i].at < s

AllServed ==
  ~unwound =>
    \A n \in 1..Len(emitted), s \in 1..nextSub :
      s <= emitted[n].subs /\ Matches(emitted[n].event[2], filterOf[s])
        => Served(emitted[n].event, s, emits, heard)

\* What a listener heard of record r is the end of the states it has had.
EndHeard(told, r, states) ==
  LET of == {i \in 1..Len(told) : told[i][1] = r}
  IN  /\ Cardinality(of) <= Len(states)
      /\ \A i \in of : told[i][2] = states[Len(states) - Cardinality({j \in of : j > i})]

FirstHears ==
  nextSub > 0 /\ filterOf[1] = {} =>
    \A r \in 1..Len(history) : EndHeard(heard[1], r, history[r])

LifecycleIInv == /\ LifecycleTyping /\ Paths /\ Happened /\ OnlyEmitted
        /\ Distinct(emits) /\ InOrder(emits, heard) /\ HeardOnce(heard)
        /\ AllServed /\ FirstHears

-----------------------------------------------------------------------------
(* Numbers and sequences. *)

\* Numbers that exist have a least one.
LEMMA LeastSub ==
  ASSUME NEW T \in SUBSET Nat, T # {}
  PROVE  \E n \in T : \A m \in T : n <= m
<1> DEFINE R == OpToRel(<, Nat)
<1>1. IsWellFoundedOn(R, Nat)
  BY NatLessThanWellFounded
<1>2. \A m, n \in Nat : <<m, n>> \in R <=> m < n
  BY DEF OpToRel
<1> HIDE DEF R
<1>3. PICK n \in T : \A m \in T : ~(<<m, n>> \in R)
  BY <1>1, WFMin
<1>4. \A m \in T : ~(m < n)
  BY <1>2, <1>3
<1>5. \A m \in T : n <= m
  BY <1>4
<1>6. QED
  BY <1>5

\* An element of a sequence.
LEMMA EventAt ==
  ASSUME NEW S, NEW q \in Seq(S), NEW i \in 1..Len(q)
  PROVE  q[i] \in S
OBVIOUS

\* The elements of a longer sequence.
LEMMA AppendRange ==
  ASSUME NEW S, NEW q \in Seq(S), NEW e \in S
  PROVE  /\ Append(q, e) \in Seq(S)
         /\ Range(Append(q, e)) = Range(q) \cup {e}
<1>1. /\ Append(q, e) \in Seq(S) /\ Len(Append(q, e)) = Len(q) + 1
      /\ \A i \in 1..Len(q) : Append(q, e)[i] = q[i]
      /\ Append(q, e)[Len(q) + 1] = e
  OBVIOUS
<1>2. DOMAIN q = 1..Len(q) /\ DOMAIN Append(q, e) = 1..(Len(q) + 1) /\ Len(q) \in Nat
  BY <1>1
<1>3. ASSUME NEW x \in Range(Append(q, e)) PROVE x \in Range(q) \cup {e}
  <2>1. PICK i \in 1..(Len(q) + 1) : x = Append(q, e)[i]
    BY <1>2, <1>3 DEF Range
  <2>2. i \in 1..Len(q) \/ i = Len(q) + 1
    BY <1>2
  <2>3. QED
    BY <1>1, <1>2, <2>1, <2>2 DEF Range
<1>4. ASSUME NEW x \in Range(q) PROVE x \in Range(Append(q, e))
  <2>1. PICK i \in 1..Len(q) : x = q[i]
    BY <1>2, <1>4 DEF Range
  <2>2. i \in 1..(Len(q) + 1) /\ Append(q, e)[i] = x
    BY <1>1, <1>2, <2>1
  <2>3. QED
    BY <1>2, <2>2 DEF Range
<1>5. e \in Range(Append(q, e))
  <2>1. Len(q) + 1 \in 1..(Len(q) + 1)
    BY <1>2
  <2>2. QED
    BY <1>1, <1>2, <2>1 DEF Range
<1>6. QED
  BY <1>1, <1>3, <1>4, <1>5

\* A new element does not make it repeat one.
LEMMA LongerInjective ==
  ASSUME NEW S, NEW q \in Seq(S), NEW e \in S, IsInjective(q), e \notin Range(q),
         NEW t, t = Append(q, e)
  PROVE  IsInjective(t)
<1>1. /\ Len(t) = Len(q) + 1 /\ t \in Seq(S)
      /\ \A i \in 1..Len(q) : t[i] = q[i]
      /\ t[Len(q) + 1] = e
  OBVIOUS
<1>2. DOMAIN q = 1..Len(q) /\ DOMAIN t = 1..(Len(q) + 1) /\ Len(q) \in Nat
  BY <1>1
<1>3. \A i \in 1..(Len(q) + 1) : i \in 1..Len(q) \/ i = Len(q) + 1
  BY <1>2
<1>4. \A i \in 1..Len(q) : q[i] # e
  BY <1>2 DEF Range
<1>5. \A a, b \in 1..Len(q) : q[a] = q[b] => a = b
  BY <1>2 DEF IsInjective
<1>6. ASSUME NEW a \in 1..(Len(q) + 1), NEW b \in 1..(Len(q) + 1), t[a] = t[b]
      PROVE  a = b
  <2>1. CASE a \in 1..Len(q) /\ b \in 1..Len(q)
    BY <1>1, <1>5, <1>6, <2>1
  <2>2. CASE a \in 1..Len(q) /\ b = Len(q) + 1
    BY <1>1, <1>4, <1>6, <2>2
  <2>3. CASE a = Len(q) + 1 /\ b \in 1..Len(q)
    BY <1>1, <1>4, <1>6, <2>3
  <2>4. QED
    BY <1>3, <2>1, <2>2, <2>3
<1>7. QED
  BY <1>2, <1>6 DEF IsInjective

-----------------------------------------------------------------------------
(* The iteration over the listeners. *)

\* What has been removed is called by no event.
LEMMA RemovedHearsNothing ==
  ASSUME NEW to \in LifecycleStates
  PROVE  ~Matches(to, {"removed"})
<1>1. EventType(to) # "removed"
  BY DEF EventType, TerminalStates
<1>2. QED
  BY <1>1 DEF Matches

\* NextListener finds the least of the later listeners, if there is one.
LEMMA NextIsLeast ==
  ASSUME LifecycleTyping, NEW to, NEW at \in Nat
  PROVE  /\ \A s \in NextListener(to, at) :
              /\ s \in 1..nextSub /\ s \in 1..MaxSubscriptions
              /\ s > at /\ Matches(to, filterOf[s])
              /\ \A t \in 1..nextSub : t > at /\ Matches(to, filterOf[t]) => s <= t
         /\ NextListener(to, at) = {} =>
              \A t \in 1..nextSub : ~(t > at /\ Matches(to, filterOf[t]))
<1> DEFINE later == {s \in DOMAIN filterOf : s > at /\ Matches(to, filterOf[s])}
<1>1. DOMAIN filterOf = 1..nextSub /\ nextSub \in Nat
  BY LifecycleAssumption DEF LifecycleTyping, LifecycleAssumption
<1>2. \A s \in 1..nextSub : s \in 1..MaxSubscriptions
  BY LifecycleAssumption DEF LifecycleTyping, LifecycleAssumption
<1>3. NextListener(to, at) = {s \in later : \A t \in later : s <= t}
  BY DEF NextListener
<1>4. later = {s \in 1..nextSub : s > at /\ Matches(to, filterOf[s])}
  BY <1>1
<1> HIDE DEF later
<1>5. ASSUME NEW t \in later PROVE NextListener(to, at) # {}
  <2>1. later \in SUBSET Nat /\ later # {}
    BY <1>1, <1>4, <1>5
  <2>2. QED
    BY <1>3, <2>1, LeastSub
<1>6. QED
  BY <1>1, <1>2, <1>3, <1>4, <1>5

\* What is left below the frame that moves: frames of other events.
BelowFrame(rest, event) ==
  /\ rest \in Seq(FrameType)
  /\ \A i \in 1..Len(rest) : rest[i].event # event
  /\ Distinct(rest) /\ InOrder(rest, heard)

LEMMA NumberedWithin ==
  ASSUME NEW m \in Nat, NEW k \in Nat, k <= m, NEW s \in 1..k
  PROVE  s \in 1..m /\ s > 0
OBVIOUS

\* An emit of `event' goes on from behind `at', or returns.
LEMMA AdvanceServes ==
  ASSUME LifecycleTyping, HeardOnce(heard), NEW rest, NEW event \in LifecycleEvent, NEW at \in Nat,
         BelowFrame(rest, event),
         \A s \in 1..MaxSubscriptions : event \in Range(heard[s]) => s <= at,
         Advance(rest, event, NextListener(event[2], at)),
         nextSub' = nextSub
  PROVE  /\ emits' \in Seq(FrameType) /\ heard' \in [1..MaxSubscriptions -> Seq(LifecycleEvent)]
         /\ Len(rest) <= Len(emits') /\ \A i \in 1..Len(rest) : emits'[i] = rest[i]
         /\ \A i \in 1..Len(emits') :
              i \in 1..Len(rest) \/ (emits'[i].event = event /\ emits'[i].at <= nextSub)
         /\ \A s \in 1..MaxSubscriptions :
              Range(heard'[s]) = Range(heard[s]) \/ Range(heard'[s]) = Range(heard[s]) \cup {event}
         /\ Distinct(emits)' /\ InOrder(emits, heard)' /\ HeardOnce(heard)'
         /\ \A s \in 1..nextSub :
              s > at /\ Matches(event[2], filterOf[s]) => Served(event, s, emits, heard)'
         /\ at > 0 => heard'[1] = heard[1]
         /\ at = 0 /\ nextSub > 0 /\ filterOf[1] = {} =>
              heard'[1] = Append(heard[1], event)
<1> DEFINE next == NextListener(event[2], at)
<1>1. /\ \A s \in next : /\ s \in 1..nextSub /\ s \in 1..MaxSubscriptions
                         /\ s > at /\ Matches(event[2], filterOf[s])
                         /\ \A t \in 1..nextSub :
                              t > at /\ Matches(event[2], filterOf[t]) => s <= t
      /\ next = {} => \A t \in 1..nextSub : ~(t > at /\ Matches(event[2], filterOf[t]))
  BY NextIsLeast
<1>2. /\ nextSub \in Nat /\ MaxSubscriptions \in Nat /\ nextSub <= MaxSubscriptions
      /\ heard \in [1..MaxSubscriptions -> Seq(LifecycleEvent)]
  BY LifecycleAssumption DEF LifecycleTyping, LifecycleAssumption
<1>3. /\ rest \in Seq(FrameType) /\ Distinct(rest) /\ InOrder(rest, heard)
      /\ \A i \in 1..Len(rest) : rest[i].event # event
      /\ Len(rest) \in Nat
  BY DEF BelowFrame
<1>4. Advance(rest, event, next)
  OBVIOUS
<1> HIDE DEF next
<1>5. nextSub > 0 /\ filterOf[1] = {} /\ at = 0 => next = {1}
  <2> SUFFICES ASSUME nextSub > 0, filterOf[1] = {}, at = 0 PROVE next = {1}
    OBVIOUS
  <2>1. 1 \in 1..nextSub /\ 1 > at /\ Matches(event[2], filterOf[1])
    BY <1>2 DEF Matches
  <2>2. next # {}
    BY <1>1, <2>1
  <2>3. ASSUME NEW s \in next PROVE s = 1
    <3>1. s \in 1..nextSub /\ s <= 1
      BY <1>1, <2>1
    <3>2. QED
      BY <1>2, <3>1
  <2>4. QED
    BY <2>2, <2>3
<1>6. CASE next = {}
  <2>1. emits' = rest /\ heard' = heard
    BY <1>4, <1>6 DEF Advance
  <2>2. Distinct(emits)' /\ InOrder(emits, heard)'
    BY <1>3, <2>1 DEF Distinct, InOrder
  <2>3. HeardOnce(heard)'
    BY <2>1 DEF HeardOnce
  <2>4. \A s \in 1..nextSub : ~(s > at /\ Matches(event[2], filterOf[s]))
    BY <1>1, <1>6
  <2>5. ~(nextSub > 0 /\ filterOf[1] = {} /\ at = 0)
    BY <1>5, <1>6
  <2>6. QED
    BY <1>2, <1>3, <2>1, <2>2, <2>3, <2>4, <2>5
<1>7. CASE next # {}
  <2>1. PICK s \in next : /\ emits' = Append(rest, [event |-> event, at |-> s])
                          /\ heard' = [heard EXCEPT ![s] = Append(heard[s], event)]
    BY <1>4, <1>7 DEF Advance
  <2>2. /\ s \in 1..nextSub /\ s \in 1..MaxSubscriptions /\ s \in Nat
        /\ s > at /\ Matches(event[2], filterOf[s])
        /\ \A t \in 1..nextSub : t > at /\ Matches(event[2], filterOf[t]) => s <= t
    BY <1>1, <1>2
  <2>3. [event |-> event, at |-> s] \in FrameType
    BY <2>2 DEF FrameType
  <2>4. /\ emits' \in Seq(FrameType) /\ Len(emits') = Len(rest) + 1
        /\ \A i \in 1..Len(rest) : emits'[i] = rest[i]
        /\ emits'[Len(rest) + 1].event = event /\ emits'[Len(rest) + 1].at = s
    BY <1>3, <2>1, <2>3
  <2>5. \A i \in 1..Len(emits') : i \in 1..Len(rest) \/ i = Len(rest) + 1
    BY <1>3, <2>4
  <2>6. event \notin Range(heard[s])
    BY <2>2
  <2>7. heard[s] \in Seq(LifecycleEvent) /\ IsInjective(heard[s])
    BY <1>2, <2>2 DEF HeardOnce
  <2> DEFINE told == Append(heard[s], event)
  <2>8. told \in Seq(LifecycleEvent) /\ Range(told) = Range(heard[s]) \cup {event}
    BY <2>7, AppendRange
  <2>9. IsInjective(told)
    BY <2>6, <2>7, LongerInjective
  <2>10. /\ heard'[s] = told
         /\ \A t \in 1..MaxSubscriptions : t # s => heard'[t] = heard[t]
    BY <1>2, <2>1, <2>2
  <2>11. heard' \in [1..MaxSubscriptions -> Seq(LifecycleEvent)]
    BY <1>2, <2>1, <2>2, <2>8
  <2> HIDE DEF told
  <2>12. \A t \in 1..MaxSubscriptions :
           \/ Range(heard'[t]) = Range(heard[t])
           \/ Range(heard'[t]) = Range(heard[t]) \cup {event}
    BY <2>8, <2>10
  <2>13. Distinct(emits)'
    BY <1>3, <2>4, <2>5 DEF Distinct
  <2>14. ASSUME NEW i \in 1..Len(emits'), NEW t \in 1..MaxSubscriptions,
                emits'[i].event \in Range(heard'[t])
         PROVE  t <= emits'[i].at
    <3>1. CASE i \in 1..Len(rest)
      <4>1. rest[i].event \in Range(heard[t])
        BY <1>3, <2>4, <2>12, <2>14, <3>1
      <4>2. QED
        BY <1>3, <2>4, <3>1, <4>1 DEF InOrder
    <3>2. CASE i = Len(rest) + 1 /\ t = s
      BY <2>2, <2>4, <3>2
    <3>3. CASE i = Len(rest) + 1 /\ t # s
      <4>1. event \in Range(heard[t])
        BY <2>4, <2>10, <2>14, <3>3
      <4>2. t <= at
        BY <4>1
      <4>3. QED
        BY <2>2, <2>4, <3>3, <4>2
    <3>4. QED
      BY <2>5, <3>1, <3>2, <3>3
  <2>15. InOrder(emits, heard)'
    BY <2>14 DEF InOrder
  <2>16. HeardOnce(heard)'
    <3>1. \A t \in 1..MaxSubscriptions : IsInjective(heard'[t])
      BY <2>9, <2>10 DEF HeardOnce
    <3>2. \A t \in 1..MaxSubscriptions : t > nextSub => heard'[t] = <<>>
      BY <1>2, <2>2, <2>10 DEF HeardOnce
    <3>3. QED
      BY <3>1, <3>2 DEF HeardOnce
  <2>17. ASSUME NEW t \in 1..nextSub, t > at, Matches(event[2], filterOf[t])
         PROVE  Served(event, t, emits, heard)'
    <3>1. s <= t
      BY <2>2, <2>17
    <3>2. CASE t = s
      BY <2>8, <2>10, <3>2 DEF Served
    <3>3. CASE t # s
      <4>1. s < t
        BY <2>2, <3>1, <3>3
      <4>2. Len(rest) + 1 \in 1..Len(emits')
        BY <1>3, <2>4
      <4>3. QED
        BY <2>4, <4>1, <4>2 DEF Served
    <3>4. QED
      BY <3>2, <3>3
  <2>18. at > 0 => heard'[1] = heard[1]
    <3> SUFFICES ASSUME at > 0 PROVE heard'[1] = heard[1]
      OBVIOUS
    <3>1. 1 # s /\ 1 \in 1..MaxSubscriptions
      BY <1>2, <2>2
    <3>2. QED
      BY <2>10, <3>1
  <2>19. at = 0 /\ nextSub > 0 /\ filterOf[1] = {} => heard'[1] = Append(heard[1], event)
    <3> SUFFICES ASSUME at = 0, nextSub > 0, filterOf[1] = {}
                 PROVE  heard'[1] = Append(heard[1], event)
      OBVIOUS
    <3>1. s = 1
      BY <1>5
    <3>2. QED
      BY <2>10, <3>1 DEF told
  <2>20. Len(rest) <= Len(emits')
    BY <1>3, <2>4
  <2>21. \A i \in 1..Len(emits') :
           i \in 1..Len(rest) \/ (emits'[i].event = event /\ emits'[i].at <= nextSub)
    BY <1>2, <2>2, <2>4, <2>5
  <2>22. QED
    BY <2>4, <2>11, <2>12, <2>13, <2>15, <2>16, <2>17, <2>18, <2>19, <2>20, <2>21
<1>8. QED
  BY <1>6, <1>7

-----------------------------------------------------------------------------
(* The states of a record. *)

\* No state comes twice on the way to "completed".
LEMMA ForwardDistinct ==
  /\ \A j, k \in 1..10 : Forward[j] = Forward[k] => j = k
  /\ \A k \in 1..10 : Forward[k] # "failed"
  /\ Len(Forward) = 10 /\ Forward[1] = "created" /\ Forward[10] = "completed"
  /\ \A k \in 1..10 : Forward[k] \in LifecycleStates
<1>1. Len(Forward) = 10 /\ Forward[1] = "created" /\ Forward[10] = "completed"
  BY DEF Forward
<1>2. \A k \in 1..10 : k = 1 \/ k = 2 \/ k = 3 \/ k = 4 \/ k = 5 \/ k = 6 \/ k = 7 \/ k = 8
                       \/ k = 9 \/ k = 10
  OBVIOUS
<1>3. \A k \in 1..10 : Forward[k] # "failed"
  BY <1>2 DEF Forward
<1>4. \A j, k \in 1..10 : Forward[j] = Forward[k] => j = k
  BY <1>2 DEF Forward
<1>5. DOMAIN Forward = 1..10
  BY DEF Forward
<1>6. \A k \in 1..10 : Forward[k] \in LifecycleStates
  BY <1>5 DEF LifecycleStates, Range
<1>7. QED
  BY <1>1, <1>3, <1>4, <1>6

\* A state machine goes on to a state it has not been in.
LEMMA PathGrows ==
  ASSUME NEW states \in Seq(LifecycleStates), Path(states),
         NEW to \in AllowedNext(Last(states))
  PROVE  /\ to \in LifecycleStates /\ to \notin Range(states)
         /\ Path(Append(states, to))
<1> DEFINE n == Len(states)
<1>1. /\ n \in 1..11 /\ DOMAIN states = 1..n
      /\ \A k \in 1..n : \/ k <= 10 /\ states[k] = Forward[k]
                         \/ k > 1 /\ k = n /\ states[k] = "failed"
  BY DEF Path
<1>2. Last(states) = states[n]
  BY DEF Last
<1>3. /\ \A t \in LifecycleStates : 
           /\ Len(Append(states, t)) = n + 1 /\ Append(states, t)[n + 1] = t
           /\ \A k \in 1..n : Append(states, t)[k] = states[k]
  OBVIOUS
<1> HIDE DEF n
<1>4. states[n] \notin TerminalStates
  BY <1>2 DEF AllowedNext
<1>5. states[n] # "failed" /\ states[n] # "completed"
  BY <1>4 DEF TerminalStates
<1>6. \A k \in 1..n : k <= 10 /\ states[k] = Forward[k]
  BY <1>1, <1>5
<1>7. n \in 1..9
  <2>1. n <= 10 /\ states[n] = Forward[n]
    BY <1>1, <1>6
  <2>2. n # 10
    BY <1>5, <2>1, ForwardDistinct
  <2>3. QED
    BY <1>1, <2>1, <2>2
<1>8. to = "failed" \/ to = Forward[n + 1]
  <2>1. to \in {Forward[i + 1] : i \in {j \in 1..(Len(Forward) - 1) : Forward[j] = states[n]}}
               \cup {"failed"}
    BY <1>2, <1>4 DEF AllowedNext
  <2>2. \A j \in 1..9 : Forward[j] = states[n] => j = n
    BY <1>6, <1>7, ForwardDistinct
  <2>3. Len(Forward) - 1 = 9
    BY ForwardDistinct
  <2>4. QED
    BY <2>1, <2>2, <2>3
<1>9. to \in LifecycleStates
  <2>1. "failed" \in LifecycleStates
    BY DEF LifecycleStates
  <2>2. n + 1 \in 1..10
    BY <1>7
  <2>3. QED
    BY <1>8, <2>1, <2>2, ForwardDistinct
<1>10. \A k \in 1..n : states[k] # to
  <2>1. \A k \in 1..n : k \in 1..10 /\ k # n + 1 /\ n + 1 \in 1..10
    BY <1>7
  <2>2. QED
    BY <1>6, <1>8, <2>1, ForwardDistinct
<1>11. to \notin Range(states)
  BY <1>1, <1>10 DEF Range
<1>12. Path(Append(states, to))
  <2>1. /\ Len(Append(states, to)) = n + 1 /\ Append(states, to)[n + 1] = to
        /\ \A k \in 1..n : Append(states, to)[k] = states[k]
    BY <1>9, <1>3
  <2>2. \A k \in 1..(n + 1) : k \in 1..n \/ k = n + 1
    BY <1>7
  <2>3. n + 1 \in 1..11 /\ n + 1 <= 10 /\ n + 1 > 1
    BY <1>7
  <2>4. QED
    BY <1>6, <1>8, <2>1, <2>2, <2>3 DEF Path
<1>13. QED
  BY <1>9, <1>11, <1>12

-----------------------------------------------------------------------------
(* The end of a history. *)

\* Fewer come after one of them than there are.
LEMMA LaterOnes ==
  ASSUME NEW n \in Nat, NEW of \in SUBSET (1..n)
  PROVE  /\ IsFiniteSet(of) /\ Cardinality(of) \in Nat
         /\ \A i \in of : /\ IsFiniteSet({j \in of : j > i})
                          /\ Cardinality({j \in of : j > i}) \in Nat
                          /\ Cardinality({j \in of : j > i}) < Cardinality(of)
<1>1. 1 \in Int /\ n \in Int
  OBVIOUS
<1>2. IsFiniteSet(1..n)
  BY <1>1, FS_Interval
<1>3. IsFiniteSet(of) /\ Cardinality(of) \in Nat
  BY <1>2, FS_Subset, FS_CardinalityType
<1>4. ASSUME NEW i \in of
      PROVE  /\ IsFiniteSet({j \in of : j > i})
             /\ Cardinality({j \in of : j > i}) \in Nat
             /\ Cardinality({j \in of : j > i}) < Cardinality(of)
  <2> DEFINE later == {j \in of : j > i}
  <2>1. later \subseteq of \ {i}
    OBVIOUS
  <2>2. IsFiniteSet(of \ {i}) /\ Cardinality(of \ {i}) = Cardinality(of) - 1
    BY <1>3, <1>4, FS_RemoveElement
  <2> HIDE DEF later
  <2>3. IsFiniteSet(later) /\ Cardinality(later) <= Cardinality(of \ {i})
    BY <2>1, <2>2, FS_Subset
  <2>4. Cardinality(later) \in Nat
    BY <2>3, FS_CardinalityType
  <2>5. Cardinality(later) < Cardinality(of)
    BY <1>3, <2>2, <2>3, <2>4
  <2>6. QED
    BY <2>3, <2>4, <2>5 DEF later
<1>5. QED
  BY <1>3, <1>4

\* The first listener hears of the next state of r.
LEMMA EndGrows ==
  ASSUME NEW told \in Seq(LifecycleEvent), NEW states \in Seq(LifecycleStates),
         NEW r, NEW to \in LifecycleStates, <<r, to>> \in LifecycleEvent,
         EndHeard(told, r, states)
  PROVE  EndHeard(Append(told, <<r, to>>), r, Append(states, to))
<1> DEFINE n == Len(told)
           m == Len(states)
           of == {i \in 1..n : told[i][1] = r}
           more == Append(told, <<r, to>>)
           longer == Append(states, to)
           now == {i \in 1..(n + 1) : more[i][1] = r}
<1>1. /\ n \in Nat /\ m \in Nat
      /\ Len(more) = n + 1 /\ Len(longer) = m + 1
      /\ \A i \in 1..n : more[i] = told[i]
      /\ \A i \in 1..m : longer[i] = states[i]
      /\ more[n + 1] = <<r, to>> /\ longer[m + 1] = to
  OBVIOUS
<1>2. more[n + 1][1] = r /\ more[n + 1][2] = to
  BY <1>1
<1>3. \A i \in 1..(n + 1) : i \in 1..n \/ i = n + 1
  BY <1>1
<1>4. /\ Cardinality(of) <= m
      /\ \A i \in of : told[i][2] = states[m - Cardinality({j \in of : j > i})]
  BY DEF EndHeard
<1>5. n + 1 \in 1..(n + 1) /\ \A i \in 1..n : i \in 1..(n + 1)
  BY <1>1
<1> HIDE DEF n, m, more, longer
<1>6. now = of \cup {n + 1}
  BY <1>1, <1>2, <1>3, <1>5
<1>7. of \in SUBSET (1..n)
  OBVIOUS
<1> HIDE DEF of, now
<1>8. /\ IsFiniteSet(of) /\ Cardinality(of) \in Nat
      /\ \A i \in of : /\ IsFiniteSet({j \in of : j > i})
                       /\ Cardinality({j \in of : j > i}) \in Nat
                       /\ Cardinality({j \in of : j > i}) < Cardinality(of)
  BY <1>1, <1>7, LaterOnes
<1>9. n + 1 \notin of
  BY <1>1, <1>7
<1>10. Cardinality(now) <= m + 1
  <2>1. Cardinality(now) = Cardinality(of) + 1
    BY <1>6, <1>8, <1>9, FS_AddElement
  <2>2. QED
    BY <1>1, <1>4, <1>8, <2>1
<1>11. ASSUME NEW i \in now
       PROVE  more[i][2] = longer[(m + 1) - Cardinality({j \in now : j > i})]
  <2>1. CASE i \in of
    <3> DEFINE later == {j \in of : j > i}
    <3>1. i \in 1..n /\ n + 1 > i
      BY <1>1, <1>7, <2>1
    <3>2. {j \in now : j > i} = later \cup {n + 1}
      BY <1>6, <3>1
    <3>3. n + 1 \notin later
      BY <1>9
    <3>4. /\ IsFiniteSet(later) /\ Cardinality(later) \in Nat
          /\ Cardinality(later) < Cardinality(of)
          /\ told[i][2] = states[m - Cardinality(later)]
      BY <1>4, <1>8, <2>1
    <3> HIDE DEF later
    <3>5. Cardinality({j \in now : j > i}) = Cardinality(later) + 1
      BY <3>2, <3>3, <3>4, FS_AddElement
    <3>6. m - Cardinality(later) \in 1..m
      BY <1>1, <1>4, <1>8, <3>4
    <3>7. (m + 1) - Cardinality({j \in now : j > i}) = m - Cardinality(later)
      BY <1>1, <3>4, <3>5
    <3>8. longer[m - Cardinality(later)] = told[i][2]
      BY <1>1, <3>4, <3>6
    <3>9. QED
      BY <1>1, <3>1, <3>7, <3>8
  <2>2. CASE i = n + 1
    <3>1. ASSUME NEW j \in now PROVE ~(j > n + 1)
      <4>1. CASE j = n + 1
        BY <1>1, <4>1
      <4>2. CASE j \in of
        <5>1. j \in 1..n
          BY <1>7, <4>2
        <5>2. QED
          BY <1>1, <5>1
      <4>3. QED
        BY <1>6, <4>1, <4>2
    <3>2. {j \in now : j > i} = {}
      BY <2>2, <3>1
    <3>3. Cardinality({j \in now : j > i}) = 0
      BY <3>2, FS_EmptySet
    <3>4. (m + 1) - 0 = m + 1
      BY <1>1
    <3>5. QED
      BY <1>1, <1>2, <2>2, <3>3, <3>4
  <2>3. QED
    BY <1>6, <2>1, <2>2
<1>12. now = {i \in 1..Len(more) : more[i][1] = r}
  BY <1>1 DEF now
<1>13. EndHeard(more, r, longer)
  BY <1>1, <1>10, <1>11, <1>12 DEF EndHeard
<1>14. QED
  BY <1>13 DEF more, longer

\* The first listener hears of another record.
LEMMA EndStays ==
  ASSUME NEW told \in Seq(LifecycleEvent), NEW e \in LifecycleEvent, NEW r, e[1] # r,
         NEW states \in Seq(LifecycleStates), EndHeard(told, r, states)
  PROVE  EndHeard(Append(told, e), r, states)
<1> DEFINE n == Len(told)
           of == {i \in 1..n : told[i][1] = r}
           more == Append(told, e)
<1>1. /\ n \in Nat /\ Len(more) = n + 1 /\ more[n + 1] = e
      /\ \A i \in 1..n : more[i] = told[i]
  OBVIOUS
<1>2. \A i \in 1..(n + 1) : i \in 1..n \/ i = n + 1
  BY <1>1
<1>3. \A i \in 1..n : i \in 1..(n + 1)
  BY <1>1
<1>4. /\ Cardinality(of) <= Len(states)
      /\ \A i \in of : told[i][2] = states[Len(states) - Cardinality({j \in of : j > i})]
  BY DEF EndHeard
<1> HIDE DEF n, more
<1>5. {i \in 1..Len(more) : more[i][1] = r} = of
  BY <1>1, <1>2, <1>3
<1>6. \A i \in of : more[i][2] = told[i][2]
  BY <1>1
<1> HIDE DEF of
<1>7. EndHeard(more, r, states)
  BY <1>4, <1>5, <1>6 DEF EndHeard
<1>8. QED
  BY <1>7 DEF more

\* Nothing heard of a record is the end of any history.
LEMMA EndOfNothing ==
  ASSUME NEW told \in Seq(LifecycleEvent), NEW r, \A i \in 1..Len(told) : told[i][1] # r,
         NEW states \in Seq(LifecycleStates)
  PROVE  EndHeard(told, r, states)
<1> DEFINE of == {i \in 1..Len(told) : told[i][1] = r}
<1>1. of = {}
  OBVIOUS
<1>2. Cardinality(of) <= Len(states)
  <2>1. Cardinality({}) = 0 /\ Len(states) \in Nat
    BY FS_EmptySet
  <2> HIDE DEF of
  <2>2. QED
    BY <1>1, <2>1
<1>3. \A i \in of : told[i][2] = states[Len(states) - Cardinality({j \in of : j > i})]
  BY <1>1
<1>4. QED
  BY <1>2, <1>3 DEF EndHeard

-----------------------------------------------------------------------------
(* Each action keeps the invariant. *)

\* What the types say of the numbers in them.
LEMMA Numbers ==
  ASSUME LifecycleTyping
  PROVE  /\ nextSub \in Nat /\ MaxSubscriptions \in Nat /\ nextSub <= MaxSubscriptions
         /\ Len(history) \in Nat /\ Len(emits) \in Nat /\ Len(emitted) \in Nat
         /\ \A i \in 1..Len(emits) : /\ emits[i] \in FrameType
                                     /\ emits[i].event \in LifecycleEvent
                                     /\ emits[i].at \in Nat /\ emits[i].at > 0
         /\ \A n \in 1..Len(emitted) : /\ emitted[n].event \in LifecycleEvent
                                       /\ emitted[n].subs \in Nat
                                       /\ emitted[n].event[2] \in LifecycleStates
         /\ \A s \in 1..MaxSubscriptions : heard[s] \in Seq(LifecycleEvent)
<1>1. /\ nextSub \in Nat /\ MaxSubscriptions \in Nat /\ nextSub <= MaxSubscriptions
      /\ Len(history) \in Nat /\ Len(emits) \in Nat /\ Len(emitted) \in Nat
  BY LifecycleAssumption DEF LifecycleTyping, LifecycleAssumption
<1>2. \A i \in 1..Len(emits) : emits[i] \in FrameType
  BY DEF LifecycleTyping
<1>3. \A n \in 1..Len(emitted) : emitted[n] \in [event : LifecycleEvent, subs : Nat]
  BY EventAt DEF LifecycleTyping
<1>4. \A i \in 1..Len(emits) : /\ emits[i].event \in LifecycleEvent
                               /\ emits[i].at \in Nat /\ emits[i].at > 0
  BY <1>1, <1>2 DEF FrameType
<1>5. \A n \in 1..Len(emitted) : /\ emitted[n].event \in LifecycleEvent /\ emitted[n].subs \in Nat
                                 /\ emitted[n].event[2] \in LifecycleStates
  BY <1>3 DEF LifecycleEvent
<1>6. \A s \in 1..MaxSubscriptions : heard[s] \in Seq(LifecycleEvent)
  BY DEF LifecycleTyping
<1>7. QED
  BY <1>1, <1>2, <1>4, <1>5, <1>6

\* Who has been told, or will be, still is when only more is told.
LEMMA ServedStays ==
  ASSUME NEW e, NEW s, Served(e, s, emits, heard),
         Range(heard[s]) \subseteq Range(heard'[s]),
         \A i \in 1..Len(emits) : emits[i].event = e /\ emits[i].at < s
           => \/ i \in 1..Len(emits') /\ emits'[i] = emits[i]
              \/ Served(e, s, emits, heard)'
  PROVE  Served(e, s, emits, heard)'
BY DEF Served

\* emit(): the record that has changed is `r', which was `old' before.
LEMMA EmitKeeps ==
  ASSUME LifecycleIInv, NEW r \in RecordNumbers, NEW to \in LifecycleStates,
         NEW old \in Seq(LifecycleStates), <<r, to>> \notin Emitted, Emit(r, to),
         nextSub' = nextSub, filterOf' = filterOf, unwound' = unwound,
         history' \in Seq(Seq(LifecycleStates)), Len(history') <= MaxRecords,
         records' \in [TxIds -> 0..Len(history')], Paths',
         r \in 1..Len(history'), history'[r] = Append(old, to),
         \A x \in 1..Len(history) : x \in 1..Len(history'),
         \A x \in 1..Len(history') :
           x # r => x \in 1..Len(history) /\ history'[x] = history[x],
         IF r \in 1..Len(history) THEN old = history[r] ELSE old = <<>>
  PROVE  LifecycleIInv'
<1> DEFINE e == <<r, to>>
<1>1. e \in LifecycleEvent /\ e[1] = r /\ e[2] = to
  BY DEF LifecycleEvent
<1>2. e \notin Emitted
  OBVIOUS
<1>3. /\ emitted' = Append(emitted, [event |-> e, subs |-> nextSub])
      /\ Advance(emits, e, NextListener(e[2], 0))
  BY <1>1 DEF Emit
<1> HIDE DEF e
<1>4. LifecycleTyping /\ HeardOnce(heard) /\ OnlyEmitted
  BY DEF LifecycleIInv
<1>5. /\ nextSub \in Nat /\ MaxSubscriptions \in Nat /\ nextSub <= MaxSubscriptions
      /\ Len(history) \in Nat /\ Len(emits) \in Nat /\ Len(emitted) \in Nat
      /\ \A s \in 1..MaxSubscriptions : heard[s] \in Seq(LifecycleEvent)
  BY <1>4, Numbers
<1>6. BelowFrame(emits, e)
  <2>1. \A i \in 1..Len(emits) : emits[i].event # e
    BY <1>2, <1>4 DEF OnlyEmitted
  <2>2. emits \in Seq(FrameType)
    BY <1>4 DEF LifecycleTyping
  <2>3. QED
    BY <2>1, <2>2 DEF BelowFrame, LifecycleIInv
<1>7. \A s \in 1..MaxSubscriptions : e \in Range(heard[s]) => s <= 0
  BY <1>2, <1>4 DEF OnlyEmitted
<1>8. /\ emits' \in Seq(FrameType) /\ heard' \in [1..MaxSubscriptions -> Seq(LifecycleEvent)]
      /\ Len(emits) <= Len(emits') /\ \A i \in 1..Len(emits) : emits'[i] = emits[i]
      /\ \A i \in 1..Len(emits') :
           i \in 1..Len(emits) \/ (emits'[i].event = e /\ emits'[i].at <= nextSub)
      /\ \A s \in 1..MaxSubscriptions :
           Range(heard'[s]) = Range(heard[s]) \/ Range(heard'[s]) = Range(heard[s]) \cup {e}
      /\ Distinct(emits)' /\ InOrder(emits, heard)' /\ HeardOnce(heard)'
      /\ \A s \in 1..nextSub :
           s > 0 /\ Matches(e[2], filterOf[s]) => Served(e, s, emits, heard)'
      /\ nextSub > 0 /\ filterOf[1] = {} => heard'[1] = Append(heard[1], e)
  BY <1>1, <1>3, <1>4, <1>6, <1>7, AdvanceServes
<1>9. /\ emitted' \in Seq([event : LifecycleEvent, subs : Nat]) /\ Len(emitted') = Len(emitted) + 1
      /\ \A n \in 1..Len(emitted) : emitted'[n] = emitted[n]
      /\ emitted'[Len(emitted) + 1].event = e /\ emitted'[Len(emitted) + 1].subs = nextSub
  <2>1. [event |-> e, subs |-> nextSub] \in [event : LifecycleEvent, subs : Nat]
    BY <1>1, <1>5
  <2>2. emitted \in Seq([event : LifecycleEvent, subs : Nat])
    BY <1>4 DEF LifecycleTyping
  <2>3. PICK x : x = [event |-> e, subs |-> nextSub]
    OBVIOUS
  <2>4. x.event = e /\ x.subs = nextSub
    BY <2>3
  <2>5. emitted' = Append(emitted, x) /\ x \in [event : LifecycleEvent, subs : Nat]
    BY <1>3, <2>1, <2>3
  <2>6. QED
    BY <2>2, <2>4, <2>5, Appended
<1>10. \A n \in 1..Len(emitted') : n \in 1..Len(emitted) \/ n = Len(emitted) + 1
  BY <1>5, <1>9
<1>11. Len(emitted) + 1 \in 1..Len(emitted') /\ \A n \in 1..Len(emitted) : n \in 1..Len(emitted')
  BY <1>5, <1>9
<1>12. Emitted' = Emitted \cup {e}
  <2>1. Emitted = {emitted[n].event : n \in 1..Len(emitted)}
    BY DEF Emitted
  <2>2. Emitted' = {emitted'[n].event : n \in 1..Len(emitted')}
    BY DEF Emitted
  <2>3. ASSUME NEW x \in Emitted' PROVE x \in Emitted \cup {e}
    <3>1. PICK n \in 1..Len(emitted') : x = emitted'[n].event
      BY <2>2, <2>3
    <3>2. CASE n = Len(emitted) + 1
      BY <1>9, <3>1, <3>2
    <3>3. CASE n \in 1..Len(emitted)
      <4>1. x = emitted[n].event
        BY <1>9, <3>1, <3>3
      <4>2. QED
        BY <2>1, <3>3, <4>1
    <3>4. QED
      BY <1>10, <3>1, <3>2, <3>3
  <2>4. ASSUME NEW x \in Emitted \cup {e} PROVE x \in Emitted'
    <3>1. CASE x = e
      <4>1. x = emitted'[Len(emitted) + 1].event
        BY <1>9, <3>1
      <4>2. QED
        BY <1>11, <2>2, <4>1
    <3>2. CASE x \in Emitted
      <4>1. PICK n \in 1..Len(emitted) : x = emitted[n].event
        BY <2>1, <3>2
      <4>2. x = emitted'[n].event
        BY <1>9, <4>1
      <4>3. QED
        BY <1>11, <2>2, <4>1, <4>2
    <3>3. QED
      BY <2>4, <3>1, <3>2
  <2>5. QED
    BY <2>3, <2>4
<1>13. LifecycleTyping'
  BY <1>4, <1>8, <1>9 DEF LifecycleTyping
<1>14. \A x \in 1..Len(history) : Range(history[x]) \subseteq Range(history'[x])
  <2> SUFFICES ASSUME NEW x \in 1..Len(history), x = r
               PROVE  Range(history[x]) \subseteq Range(history'[x])
    OBVIOUS
  <2>1. history[x] = old /\ history'[x] = Append(old, to)
    OBVIOUS
  <2>2. Range(Append(old, to)) = Range(old) \cup {to}
    BY AppendRange
  <2>3. QED
    BY <2>1, <2>2
<1>15. Happened'
  <2>1. to \in Range(history'[r])
    BY AppendRange
  <2>2. \A f \in Emitted : f[1] \in 1..Len(history) /\ f[2] \in Range(history[f[1]])
    BY DEF LifecycleIInv, Happened
  <2>3. \A f \in Emitted' : f[1] \in 1..Len(history') /\ f[2] \in Range(history'[f[1]])
    BY <1>1, <1>12, <1>14, <2>1, <2>2
  <2>4. QED
    BY <2>3 DEF Happened
<1>16. OnlyEmitted'
  <2>1. \A i \in 1..Len(emits') : emits'[i].event \in Emitted' /\ emits'[i].at <= nextSub'
    BY <1>4, <1>8, <1>12 DEF OnlyEmitted
  <2>2. \A s \in 1..MaxSubscriptions : Range(heard'[s]) \subseteq Emitted'
    BY <1>4, <1>8, <1>12 DEF OnlyEmitted
  <2>3. ASSUME NEW n \in 1..Len(emitted') PROVE emitted'[n].subs <= nextSub'
    <3>1. CASE n \in 1..Len(emitted)
      BY <1>4, <1>9, <3>1 DEF OnlyEmitted
    <3>2. CASE n = Len(emitted) + 1
      BY <1>5, <1>9, <3>2
    <3>3. QED
      BY <1>10, <3>1, <3>2
  <2>4. QED
    BY <2>1, <2>2, <2>3 DEF OnlyEmitted
<1>17. AllServed'
  <2> SUFFICES ASSUME ~unwound, NEW n \in 1..Len(emitted'), NEW s \in 1..nextSub',
                      s <= emitted'[n].subs, Matches(emitted'[n].event[2], filterOf[s])
               PROVE  Served(emitted'[n].event, s, emits', heard')
    BY DEF AllServed
  <2>1. s \in 1..nextSub /\ s \in 1..MaxSubscriptions /\ s > 0
    <3>1. s \in 1..nextSub
      OBVIOUS
    <3>2. QED
      BY <1>5, <3>1, NumberedWithin
  <2>2. CASE n \in 1..Len(emitted)
    <3>1. PICK f : f = emitted[n].event /\ emitted'[n] = emitted[n]
      BY <1>9, <2>2
    <3>2. Served(f, s, emits, heard)
      BY <2>1, <2>2, <3>1 DEF LifecycleIInv, AllServed
    <3>3. Range(heard[s]) \subseteq Range(heard'[s])
      BY <1>8, <2>1
    <3>4. \A i \in 1..Len(emits) : i \in 1..Len(emits') /\ emits'[i] = emits[i]
      <4>1. Len(emits') \in Nat /\ Len(emits) <= Len(emits')
        BY <1>8
      <4>2. QED
        BY <1>5, <1>8, <4>1
    <3>5. Served(f, s, emits, heard)'
      BY <3>2, <3>3, <3>4, ServedStays
    <3>6. QED
      BY <3>1, <3>5
  <2>3. CASE n = Len(emitted) + 1
    BY <1>8, <1>9, <2>1, <2>3
  <2>4. QED
    BY <1>10, <2>2, <2>3
<1>18. FirstHears'
  <2> SUFFICES ASSUME nextSub > 0, filterOf[1] = {}, NEW x \in 1..Len(history')
               PROVE  EndHeard(heard'[1], x, history'[x])
    BY DEF FirstHears
  <2>1. 1 \in 1..MaxSubscriptions /\ heard[1] \in Seq(LifecycleEvent)
    BY <1>5
  <2>2. heard'[1] = Append(heard[1], e)
    BY <1>8
  <2>3. \A z \in 1..Len(history) : EndHeard(heard[1], z, history[z])
    BY DEF LifecycleIInv, FirstHears
  <2>4. CASE x = r
    <3>1. EndHeard(heard[1], r, old)
      <4>1. CASE r \in 1..Len(history)
        BY <2>3, <4>1
      <4>2. CASE r \notin 1..Len(history)
        <5>1. \A i \in 1..Len(heard[1]) : heard[1][i] \in Emitted
          <6>1. Range(heard[1]) \subseteq Emitted
            BY <1>4, <2>1 DEF OnlyEmitted
          <6>2. \A i \in 1..Len(heard[1]) : heard[1][i] \in Range(heard[1])
            BY <2>1 DEF Range
          <6>3. QED
            BY <6>1, <6>2
        <5>2. \A f \in Emitted : f[1] \in 1..Len(history)
          BY DEF LifecycleIInv, Happened
        <5>3. \A i \in 1..Len(heard[1]) : heard[1][i][1] # r
          BY <4>2, <5>1, <5>2
        <5>4. QED
          BY <2>1, <5>3, EndOfNothing
      <4>3. QED
        BY <4>1, <4>2
    <3>2. EndHeard(Append(heard[1], <<r, to>>), r, Append(old, to))
      BY <1>1, <2>1, <3>1, EndGrows DEF e
    <3>3. QED
      BY <2>2, <2>4, <3>2 DEF e
  <2>5. CASE x # r
    <3>1. x \in 1..Len(history) /\ history'[x] = history[x]
      BY <2>5
    <3>2. history[x] \in Seq(LifecycleStates)
      BY <1>4, <3>1 DEF LifecycleTyping
    <3>3. EndHeard(Append(heard[1], e), x, history[x])
      BY <1>1, <2>1, <2>3, <2>5, <3>1, <3>2, EndStays
    <3>4. QED
      BY <2>2, <3>1, <3>3
  <2>6. QED
    BY <2>4, <2>5
<1>19. QED
  BY <1>8, <1>13, <1>15, <1>16, <1>17, <1>18 DEF LifecycleIInv

\* The running listener returns to emit().
LEMMA ReturnsKeeps ==
  ASSUME LifecycleIInv, ListenerReturns
  PROVE  LifecycleIInv'
<1> DEFINE n == Len(emits)
           rest == Front(emits)
<1>1. LifecycleTyping /\ HeardOnce(heard) /\ OnlyEmitted
  BY DEF LifecycleIInv
<1>2. /\ nextSub \in Nat /\ MaxSubscriptions \in Nat /\ nextSub <= MaxSubscriptions
      /\ n \in Nat /\ Len(emitted) \in Nat
      /\ \A i \in 1..n : /\ emits[i] \in FrameType /\ emits[i].event \in LifecycleEvent
                         /\ emits[i].at \in Nat /\ emits[i].at > 0
      /\ \A m \in 1..Len(emitted) : emitted[m].event \in LifecycleEvent
  BY <1>1, Numbers
<1>3. /\ history' = history /\ nextSub' = nextSub /\ filterOf' = filterOf
      /\ emitted' = emitted /\ records' = records /\ unwound' = unwound
      /\ emits # <<>>
  BY DEF ListenerReturns
<1>4. emits \in Seq(FrameType)
  BY <1>1 DEF LifecycleTyping
<1>5. n > 0
  BY <1>3, <1>4
<1>6. /\ rest \in Seq(FrameType) /\ Len(rest) = n - 1
      /\ \A i \in 1..(n - 1) : rest[i] = emits[i]
  <2>1. rest = SubSeq(emits, 1, Len(emits) - 1)
    BY DEF Front
  <2>2. Len(emits) \in Nat /\ Len(emits) > 0
    BY <1>2, <1>5
  <2> HIDE DEF rest
  <2>3. rest \in Seq(FrameType)
    BY <1>4, <2>1, <2>2
  <2>4. Len(rest) = Len(emits) - 1
    <3>1. PICK m \in Nat : m = Len(emits) - 1
      BY <2>2
    <3>2. rest = SubSeq(emits, 1, m) /\ m <= Len(emits)
      BY <2>1, <2>2, <3>1
    <3>3. Len(rest) = m
      BY <1>4, <3>2
    <3>4. QED
      BY <3>1, <3>3
  <2>5. \A i \in 1..(Len(emits) - 1) : rest[i] = emits[i]
    BY <1>4, <2>1, <2>2
  <2>6. QED
    BY <2>3, <2>4, <2>5
<1>7. n \in 1..n /\ \A i \in 1..(n - 1) : i \in 1..n /\ i # n
  BY <1>2, <1>5
<1>8. PICK event \in LifecycleEvent, at \in Nat :
        event = emits[n].event /\ at = emits[n].at /\ at > 0
  BY <1>2, <1>7
<1>9. Advance(rest, event, NextListener(event[2], at))
  BY <1>8 DEF ListenerReturns, Last
<1> HIDE DEF rest, n
<1>10. BelowFrame(rest, event)
  <2>1. \A i, j \in 1..n : emits[i].event = emits[j].event => i = j
    BY DEF LifecycleIInv, Distinct, n
  <2>2. \A i \in 1..Len(rest) : i \in 1..n /\ i # n /\ rest[i] = emits[i]
    BY <1>6, <1>7
  <2>3. \A i \in 1..Len(rest) : rest[i].event # event
    BY <1>7, <1>8, <2>1, <2>2
  <2>4. Distinct(rest)
    BY <2>1, <2>2 DEF Distinct
  <2>5. \A i \in 1..n, s \in 1..MaxSubscriptions :
          emits[i].event \in Range(heard[s]) => s <= emits[i].at
    BY DEF LifecycleIInv, InOrder, n
  <2>6. InOrder(rest, heard)
    BY <2>2, <2>5 DEF InOrder
  <2>7. QED
    BY <1>6, <2>3, <2>4, <2>6 DEF BelowFrame
<1>11. \A s \in 1..MaxSubscriptions : event \in Range(heard[s]) => s <= at
  BY <1>7, <1>8 DEF LifecycleIInv, InOrder, n
<1>12. /\ emits' \in Seq(FrameType) /\ heard' \in [1..MaxSubscriptions -> Seq(LifecycleEvent)]
       /\ Len(rest) <= Len(emits') /\ \A i \in 1..Len(rest) : emits'[i] = rest[i]
       /\ \A i \in 1..Len(emits') :
            i \in 1..Len(rest) \/ (emits'[i].event = event /\ emits'[i].at <= nextSub)
       /\ \A s \in 1..MaxSubscriptions :
            Range(heard'[s]) = Range(heard[s]) \/ Range(heard'[s]) = Range(heard[s]) \cup {event}
       /\ Distinct(emits)' /\ InOrder(emits, heard)' /\ HeardOnce(heard)'
       /\ \A s \in 1..nextSub :
            s > at /\ Matches(event[2], filterOf[s]) => Served(event, s, emits, heard)'
       /\ heard'[1] = heard[1]
  <2>1. nextSub' = nextSub /\ at > 0 /\ LifecycleTyping /\ HeardOnce(heard)
    BY <1>1, <1>3, <1>8
  <2>2. QED
    BY <1>9, <1>10, <1>11, <2>1, AdvanceServes
<1>13. LifecycleTyping'
  BY <1>1, <1>3, <1>12 DEF LifecycleTyping
<1>14. Paths' /\ Happened' /\ Emitted' = Emitted
  BY <1>3 DEF LifecycleIInv, Paths, Happened, Emitted
<1>15. event \in Emitted
  BY <1>1, <1>7, <1>8 DEF OnlyEmitted, n
<1>16. OnlyEmitted'
  <2>1. ASSUME NEW i \in 1..Len(emits')
        PROVE  emits'[i].event \in Emitted' /\ emits'[i].at <= nextSub'
    <3>1. CASE i \in 1..Len(rest)
      <4>1. i \in 1..Len(emits) /\ emits'[i] = emits[i]
        BY <1>6, <1>7, <1>12, <3>1 DEF n
      <4>2. QED
        BY <1>1, <1>3, <1>14, <4>1 DEF OnlyEmitted
    <3>2. CASE i \notin 1..Len(rest)
      BY <1>3, <1>12, <1>14, <1>15, <3>2
    <3>3. QED
      BY <3>1, <3>2
  <2>2. \A s \in 1..MaxSubscriptions : Range(heard'[s]) \subseteq Emitted'
    BY <1>1, <1>12, <1>14, <1>15 DEF OnlyEmitted
  <2>3. \A m \in 1..Len(emitted') : emitted'[m].subs <= nextSub'
    BY <1>1, <1>3 DEF OnlyEmitted
  <2>4. QED
    BY <2>1, <2>2, <2>3 DEF OnlyEmitted
<1>17. AllServed'
  <2> SUFFICES ASSUME ~unwound, NEW m \in 1..Len(emitted), NEW s \in 1..nextSub,
                      s <= emitted[m].subs, Matches(emitted[m].event[2], filterOf[s])
               PROVE  Served(emitted'[m].event, s, emits', heard')
    BY <1>3 DEF AllServed
  <2>1. PICK f : f = emitted[m].event
    OBVIOUS
  <2>2. Served(f, s, emits, heard)
    BY <2>1 DEF LifecycleIInv, AllServed
  <2>3. s \in 1..MaxSubscriptions
    BY <1>2
  <2>4. Range(heard[s]) \subseteq Range(heard'[s])
    BY <1>12, <2>3
  <2>5. ASSUME NEW i \in 1..Len(emits), emits[i].event = f, emits[i].at < s
        PROVE  \/ i \in 1..Len(emits') /\ emits'[i] = emits[i]
               \/ Served(f, s, emits, heard)'
    <3>1. CASE i = n
      <4>1. f = event /\ s > at
        BY <1>8, <2>5, <3>1
      <4>2. Served(event, s, emits, heard)'
        BY <1>12, <2>1, <4>1
      <4>3. QED
        BY <4>1, <4>2
    <3>2. CASE i # n
      <4>1. i \in 1..(n - 1)
        BY <1>2, <1>5, <3>2 DEF n
      <4>2. i \in 1..Len(rest) /\ emits'[i] = emits[i]
        BY <1>6, <1>12, <4>1
      <4>3. Len(emits') \in Nat /\ Len(rest) <= Len(emits') /\ Len(rest) \in Nat
        BY <1>6, <1>12
      <4>4. i \in 1..Len(emits')
        BY <4>2, <4>3
      <4>5. QED
        BY <4>2, <4>4
    <3>3. QED
      BY <3>1, <3>2
  <2>6. Served(f, s, emits, heard)'
    BY <2>2, <2>4, <2>5, ServedStays
  <2>7. QED
    BY <1>3, <2>1, <2>6
<1>18. FirstHears'
  BY <1>3, <1>12 DEF LifecycleIInv, FirstHears
<1>19. QED
  BY <1>12, <1>13, <1>14, <1>16, <1>17, <1>18 DEF LifecycleIInv

\* An exception ends the innermost emits.
LEMMA ThrowsKeeps ==
  ASSUME LifecycleIInv, NEW k \in 1..Len(emits), ListenerThrows(k)
  PROVE  LifecycleIInv'
<1>1. /\ history' = history /\ nextSub' = nextSub /\ filterOf' = filterOf /\ heard' = heard
      /\ emitted' = emitted /\ records' = records /\ unwound' = TRUE
      /\ emits' = SubSeq(emits, 1, Len(emits) - k)
  BY DEF ListenerThrows
<1>2. LifecycleTyping /\ OnlyEmitted
  BY DEF LifecycleIInv
<1>3. emits \in Seq(FrameType) /\ Len(emits) \in Nat
  BY <1>2 DEF LifecycleTyping
<1>4. /\ emits' \in Seq(FrameType) /\ Len(emits') = Len(emits) - k
      /\ \A i \in 1..Len(emits') : emits'[i] = emits[i]
  BY <1>1, <1>3
<1>5. \A i \in 1..Len(emits') : i \in 1..Len(emits) /\ emits'[i] = emits[i]
  BY <1>3, <1>4
<1>6. LifecycleTyping'
  BY <1>1, <1>2, <1>4 DEF LifecycleTyping
<1>7. Paths' /\ Happened' /\ Emitted' = Emitted
  BY <1>1 DEF LifecycleIInv, Paths, Happened, Emitted
<1>8. OnlyEmitted'
  BY <1>1, <1>2, <1>5, <1>7 DEF OnlyEmitted
<1>9. Distinct(emits)'
  BY <1>5 DEF LifecycleIInv, Distinct
<1>10. InOrder(emits, heard)'
  BY <1>1, <1>5 DEF LifecycleIInv, InOrder
<1>11. HeardOnce(heard)' /\ AllServed' /\ FirstHears'
  BY <1>1 DEF LifecycleIInv, HeardOnce, AllServed, FirstHears
<1>12. QED
  BY <1>6, <1>7, <1>8, <1>9, <1>10, <1>11 DEF LifecycleIInv

\* onEvent(): who comes is owed nothing yet.
LEMMA OnEventKeeps ==
  ASSUME LifecycleIInv, NEW filter \in Filters, OnEvent(filter)
  PROVE  LifecycleIInv'
<1>1. /\ history' = history /\ heard' = heard /\ emits' = emits
      /\ emitted' = emitted /\ records' = records /\ unwound' = unwound
      /\ nextSub < MaxSubscriptions /\ nextSub' = nextSub + 1
      /\ filterOf' = Append(filterOf, filter)
  BY DEF OnEvent
<1>2. LifecycleTyping /\ OnlyEmitted
  BY DEF LifecycleIInv
<1>3. /\ nextSub \in Nat /\ MaxSubscriptions \in Nat
      /\ \A i \in 1..Len(emits) : emits[i].at \in Nat
      /\ \A m \in 1..Len(emitted) : emitted[m].subs \in Nat
      /\ \A s \in 1..MaxSubscriptions : heard[s] \in Seq(LifecycleEvent)
  BY <1>2, Numbers
<1>4. /\ filterOf' \in Seq(Filters \cup {{"removed"}}) /\ Len(filterOf') = nextSub + 1
      /\ \A s \in 1..nextSub : filterOf'[s] = filterOf[s]
  BY <1>1, <1>2 DEF LifecycleTyping
<1>5. LifecycleTyping'
  <2>1. nextSub' \in 0..MaxSubscriptions
    BY <1>1, <1>3
  <2>2. QED
    BY <1>1, <1>2, <1>4, <2>1 DEF LifecycleTyping
<1>6. Paths' /\ Happened' /\ Emitted' = Emitted
  BY <1>1 DEF LifecycleIInv, Paths, Happened, Emitted
<1>7. OnlyEmitted'
  <2>1. \A i \in 1..Len(emits) : emits[i].event \in Emitted /\ emits[i].at <= nextSub + 1
    BY <1>2, <1>3 DEF OnlyEmitted
  <2>2. \A m \in 1..Len(emitted) : emitted[m].subs <= nextSub + 1
    BY <1>2, <1>3 DEF OnlyEmitted
  <2>3. \A s \in 1..MaxSubscriptions : Range(heard[s]) \subseteq Emitted
    BY <1>2 DEF OnlyEmitted
  <2>4. QED
    BY <1>1, <1>6, <2>1, <2>2, <2>3 DEF OnlyEmitted
<1>8. Distinct(emits)' /\ InOrder(emits, heard)'
  BY <1>1 DEF LifecycleIInv, Distinct, InOrder
<1>9. HeardOnce(heard)'
  BY <1>1, <1>3 DEF LifecycleIInv, HeardOnce
<1>10. AllServed'
  <2> SUFFICES ASSUME ~unwound, NEW m \in 1..Len(emitted), NEW s \in 1..(nextSub + 1),
                      s <= emitted[m].subs, Matches(emitted[m].event[2], filterOf'[s])
               PROVE  Served(emitted[m].event, s, emits, heard)
    BY <1>1 DEF AllServed, Served
  <2>1. emitted[m].subs <= nextSub /\ emitted[m].subs \in Nat
    BY <1>2, <1>3 DEF OnlyEmitted
  <2>2. s \in 1..nextSub
    BY <1>3, <2>1
  <2>3. filterOf'[s] = filterOf[s]
    BY <1>4, <2>2
  <2>4. QED
    BY <2>2, <2>3 DEF LifecycleIInv, AllServed
<1>11. FirstHears'
  <2> SUFFICES ASSUME filterOf'[1] = {}, NEW r \in 1..Len(history)
               PROVE  EndHeard(heard[1], r, history[r])
    BY <1>1 DEF FirstHears
  <2>1. CASE nextSub > 0
    <3>1. 1 \in 1..nextSub
      BY <1>3, <2>1
    <3>2. filterOf[1] = {}
      BY <1>4, <3>1
    <3>3. QED
      BY <2>1, <3>2 DEF LifecycleIInv, FirstHears
  <2>2. CASE nextSub = 0
    <3>1. 1 \in 1..MaxSubscriptions /\ 1 > nextSub
      BY <1>1, <1>3, <2>2
    <3>2. heard[1] = <<>> /\ heard[1] \in Seq(LifecycleEvent)
      BY <1>3, <3>1 DEF LifecycleIInv, HeardOnce
    <3>3. \A i \in 1..Len(heard[1]) : heard[1][i][1] # r
      BY <3>2
    <3>4. history[r] \in Seq(LifecycleStates)
      BY <1>2 DEF LifecycleTyping
    <3>5. QED
      BY <3>2, <3>3, <3>4, EndOfNothing
  <2>3. QED
    BY <1>3, <2>1, <2>2
<1>12. QED
  BY <1>5, <1>6, <1>7, <1>8, <1>9, <1>10, <1>11 DEF LifecycleIInv

\* offEvent(): who goes is owed nothing any more.
LEMMA OffEventKeeps ==
  ASSUME LifecycleIInv, NEW s \in DOMAIN filterOf, OffEvent(s)
  PROVE  LifecycleIInv'
<1>1. /\ history' = history /\ heard' = heard /\ emits' = emits
      /\ emitted' = emitted /\ records' = records /\ unwound' = unwound
      /\ nextSub' = nextSub
      /\ filterOf' = [filterOf EXCEPT ![s] = {"removed"}]
  BY DEF OffEvent
<1>2. LifecycleTyping /\ OnlyEmitted
  BY DEF LifecycleIInv
<1>3. /\ nextSub \in Nat
      /\ \A m \in 1..Len(emitted) : emitted[m].event[2] \in LifecycleStates
  BY <1>2, Numbers
<1>4. filterOf \in Seq(Filters \cup {{"removed"}}) /\ Len(filterOf) = nextSub
      /\ DOMAIN filterOf = 1..nextSub
  BY <1>2 DEF LifecycleTyping
<1>5. /\ filterOf' \in Seq(Filters \cup {{"removed"}}) /\ Len(filterOf') = nextSub
      /\ filterOf'[s] = {"removed"}
      /\ \A t \in 1..nextSub : t # s => filterOf'[t] = filterOf[t]
  BY <1>1, <1>4
<1>6. LifecycleTyping'
  BY <1>1, <1>2, <1>5 DEF LifecycleTyping
<1>7. Paths' /\ Happened' /\ Emitted' = Emitted
  BY <1>1 DEF LifecycleIInv, Paths, Happened, Emitted
<1>8. OnlyEmitted'
  BY <1>1, <1>2, <1>7 DEF OnlyEmitted
<1>9. Distinct(emits)' /\ InOrder(emits, heard)' /\ HeardOnce(heard)'
  BY <1>1 DEF LifecycleIInv, Distinct, InOrder, HeardOnce
<1>10. AllServed'
  <2> SUFFICES ASSUME ~unwound, NEW m \in 1..Len(emitted), NEW t \in 1..nextSub,
                      t <= emitted[m].subs, Matches(emitted[m].event[2], filterOf'[t])
               PROVE  Served(emitted[m].event, t, emits, heard)
    BY <1>1 DEF AllServed, Served
  <2>1. t # s
    BY <1>3, <1>5, RemovedHearsNothing
  <2>2. QED
    BY <1>5, <2>1 DEF LifecycleIInv, AllServed
<1>11. FirstHears'
  <2> SUFFICES ASSUME nextSub > 0, filterOf'[1] = {}
               PROVE  \A r \in 1..Len(history) : EndHeard(heard[1], r, history[r])
    BY <1>1 DEF FirstHears
  <2>1. 1 # s
    <3>1. {} # {"removed"}
      OBVIOUS
    <3>2. QED
      BY <1>5, <3>1
  <2>2. filterOf[1] = {}
    <3>1. 1 \in 1..nextSub
      BY <1>3
    <3>2. QED
      BY <1>5, <2>1, <3>1
  <2>3. QED
    BY <2>2 DEF LifecycleIInv, FirstHears
<1>12. QED
  BY <1>6, <1>7, <1>8, <1>9, <1>10, <1>11 DEF LifecycleIInv

\* create(): nothing was emitted of the new record.
LEMMA CreateKeeps ==
  ASSUME LifecycleIInv, NEW t \in TxIds, CreateRecord(t)
  PROVE  LifecycleIInv'
<1>1. PICK r \in Nat : r = Len(history) + 1
  BY Numbers DEF LifecycleIInv
<1>2. /\ Len(history) \in Nat /\ Len(history) < MaxRecords /\ MaxRecords \in Nat
      /\ history \in Seq(Seq(LifecycleStates)) /\ records \in [TxIds -> 0..Len(history)]
  BY LifecycleAssumption DEF LifecycleIInv, LifecycleTyping, CreateRecord, LifecycleAssumption
<1>3. /\ history' = Append(history, <<"created">>)
      /\ records' = [records EXCEPT ![t] = r]
      /\ Emit(r, "created")
      /\ nextSub' = nextSub /\ filterOf' = filterOf /\ unwound' = unwound
  BY <1>1 DEF CreateRecord
<1>4. r \in RecordNumbers
  BY <1>1, <1>2 DEF RecordNumbers
<1>5. "created" \in LifecycleStates
  BY ForwardDistinct
<1>6. <<"created">> \in Seq(LifecycleStates) /\ <<"created">> = Append(<<>>, "created")
  BY <1>5
<1>7. /\ history' \in Seq(Seq(LifecycleStates)) /\ Len(history') = r
      /\ history'[r] = Append(<<>>, "created")
      /\ \A x \in 1..Len(history) : history'[x] = history[x]
  BY <1>1, <1>2, <1>3, <1>6
<1>8. /\ r \in 1..Len(history') /\ r \notin 1..Len(history) /\ Len(history') <= MaxRecords
      /\ \A x \in 1..Len(history) : x \in 1..Len(history')
      /\ \A x \in 1..Len(history') : x # r => x \in 1..Len(history)
  BY <1>1, <1>2, <1>7
<1>9. records' \in [TxIds -> 0..Len(history')]
  <2>1. \A u \in TxIds : records[u] \in 0..Len(history')
    BY <1>1, <1>2, <1>7
  <2>2. r \in 0..Len(history')
    BY <1>7
  <2>3. QED
    BY <1>2, <1>3, <2>1, <2>2
<1>10. Path(<<"created">>)
  <2>1. Len(<<"created">>) = 1 /\ <<"created">>[1] = "created" /\ \A k \in 1..1 : k = 1
    OBVIOUS
  <2>2. QED
    BY <2>1, ForwardDistinct DEF Path
<1>11. Paths'
  BY <1>6, <1>7, <1>8, <1>10 DEF LifecycleIInv, Paths
<1>12. <<r, "created">> \notin Emitted
  BY <1>8 DEF LifecycleIInv, Happened
<1>13. <<>> \in Seq(LifecycleStates)
  OBVIOUS
<1>14. QED
  BY <1>3, <1>4, <1>5, <1>7, <1>8, <1>9, <1>11, <1>12, <1>13, EmitKeeps

\* transition(): the record has not been in its next state before.
LEMMA TransitionKeeps ==
  ASSUME LifecycleIInv, NEW t \in TxIds, NEW to, Transition(t, to)
  PROVE  LifecycleIInv'
<1>1. PICK r : r = records[t]
  OBVIOUS
<1>2. /\ Len(history) \in Nat /\ Len(history) <= MaxRecords /\ MaxRecords \in Nat
      /\ history \in Seq(Seq(LifecycleStates)) /\ records \in [TxIds -> 0..Len(history)]
  BY LifecycleAssumption DEF LifecycleIInv, LifecycleTyping, Transition, LifecycleAssumption
<1>3. /\ r # 0 /\ to \in AllowedNext(Last(history[r]))
      /\ history' = [history EXCEPT ![r] = Append(history[r], to)]
      /\ Emit(r, to)
      /\ records' = records
      /\ nextSub' = nextSub /\ filterOf' = filterOf /\ unwound' = unwound
  BY <1>1 DEF Transition, StateOf
<1>4. r \in 1..Len(history) /\ r \in RecordNumbers
  BY <1>1, <1>2, <1>3 DEF RecordNumbers
<1>5. history[r] \in Seq(LifecycleStates) /\ Path(history[r])
  BY <1>2, <1>4 DEF LifecycleIInv, Paths
<1>6. /\ to \in LifecycleStates /\ to \notin Range(history[r])
      /\ Path(Append(history[r], to))
  BY <1>3, <1>5, PathGrows
<1>7. Append(history[r], to) \in Seq(LifecycleStates)
  BY <1>5, <1>6
<1>8. /\ history' \in Seq(Seq(LifecycleStates)) /\ Len(history') = Len(history)
      /\ history'[r] = Append(history[r], to)
      /\ \A x \in 1..Len(history) : x # r => history'[x] = history[x]
  BY <1>2, <1>3, <1>4, <1>7
<1>9. Paths'
  BY <1>6, <1>8 DEF LifecycleIInv, Paths
<1>10. <<r, to>> \notin Emitted
  BY <1>6 DEF LifecycleIInv, Happened
<1>11. QED
  BY <1>2, <1>3, <1>4, <1>5, <1>6, <1>8, <1>9, <1>10, EmitKeeps

\* remove() and clear() tell nobody.
LEMMA RemoveRecordKeeps ==
  ASSUME LifecycleIInv, NEW ts, RemoveRecords(ts)
  PROVE  LifecycleIInv'
<1>1. /\ history' = history /\ heard' = heard /\ emits' = emits /\ emitted' = emitted
      /\ filterOf' = filterOf /\ nextSub' = nextSub /\ unwound' = unwound
      /\ records' = [t \in TxIds |-> IF t \in ts THEN 0 ELSE records[t]]
  BY DEF RemoveRecords
<1>2. records' \in [TxIds -> 0..Len(history)]
  BY <1>1, Numbers DEF LifecycleIInv, LifecycleTyping
<1>3. LifecycleTyping'
  BY <1>1, <1>2 DEF LifecycleIInv, LifecycleTyping
<1>4. Emitted' = Emitted /\ Paths' /\ Happened'
  BY <1>1 DEF LifecycleIInv, Paths, Happened, Emitted
<1>5. OnlyEmitted'
  BY <1>1, <1>4 DEF LifecycleIInv, OnlyEmitted
<1>6. QED
  BY <1>1, <1>3, <1>4, <1>5 DEF LifecycleIInv, Distinct, InOrder, HeardOnce, AllServed, Served,
                                  FirstHears

LEMMA LifecycleInvInit == LifecycleInit => LifecycleIInv
<1> SUFFICES ASSUME LifecycleInit PROVE LifecycleIInv
  OBVIOUS
<1>1. /\ records = [t \in TxIds |-> 0] /\ history = <<>> /\ nextSub = 0 /\ filterOf = <<>>
      /\ emits = <<>> /\ emitted = <<>> /\ unwound = FALSE
      /\ heard = [s \in 1..MaxSubscriptions |-> <<>>]
  BY DEF LifecycleInit
<1>2. Len(<<>>) = 0 /\ 1..0 = {}
  OBVIOUS
<1>3. LifecycleTyping
  <2>1. MaxRecords \in Nat /\ MaxSubscriptions \in Nat
    BY LifecycleAssumption DEF LifecycleAssumption
  <2>2. \A S : <<>> \in Seq(S)
    OBVIOUS
  <2>3. records \in [TxIds -> 0..Len(history)] /\ nextSub \in 0..MaxSubscriptions
    BY <1>1, <1>2, <2>1
  <2>4. heard \in [1..MaxSubscriptions -> Seq(LifecycleEvent)]
    BY <1>1, <2>2
  <2>5. Len(history) <= MaxRecords /\ Len(filterOf) = nextSub
    BY <1>1, <1>2, <2>1
  <2>6. unwound \in BOOLEAN
    BY <1>1
  <2>7. QED
    BY <1>1, <2>2, <2>3, <2>4, <2>5, <2>6 DEF LifecycleTyping
<1>4. Range(<<>>) = {} /\ IsInjective(<<>>)
  BY DEF Range, IsInjective
<1>5. Emitted = {}
  BY <1>1, <1>2 DEF Emitted
<1>6. Paths /\ Happened
  BY <1>1, <1>2, <1>5 DEF Paths, Happened
<1>7. OnlyEmitted
  BY <1>1, <1>2, <1>4 DEF OnlyEmitted
<1>8. Distinct(emits) /\ InOrder(emits, heard) /\ HeardOnce(heard)
  BY <1>1, <1>2, <1>4 DEF Distinct, InOrder, HeardOnce
<1>9. AllServed /\ FirstHears
  BY <1>1, <1>2 DEF AllServed, FirstHears
<1>10. QED
  BY <1>3, <1>6, <1>7, <1>8, <1>9 DEF LifecycleIInv

LEMMA LifecycleInvStep == LifecycleIInv /\ [LifecycleNext]_lifecycleVars => LifecycleIInv'
<1> SUFFICES ASSUME LifecycleIInv, [LifecycleNext]_lifecycleVars PROVE LifecycleIInv'
  OBVIOUS
<1>1. CASE \E t \in TxIds : CreateRecord(t)
  BY <1>1, CreateKeeps
<1>2. CASE \E t \in TxIds, to \in LifecycleStates : Transition(t, to)
  BY <1>2, TransitionKeeps
<1>3. CASE \E ts \in {{t} : t \in TxIds} \cup {TxIds} : RemoveRecords(ts)
  BY <1>3, RemoveRecordKeeps
<1>4. CASE \E f \in Filters : OnEvent(f)
  BY <1>4, OnEventKeeps
<1>5. CASE \E s \in DOMAIN filterOf : OffEvent(s)
  BY <1>5, OffEventKeeps
<1>6. CASE ListenerReturns
  BY <1>6, ReturnsKeeps
<1>7. CASE \E n \in 1..Len(emits) : ListenerThrows(n)
  BY <1>7, ThrowsKeeps
<1>8. CASE UNCHANGED lifecycleVars
  <2>1. /\ history' = history /\ heard' = heard /\ emits' = emits /\ emitted' = emitted
        /\ filterOf' = filterOf /\ nextSub' = nextSub /\ unwound' = unwound
        /\ records' = records
    BY <1>8 DEF lifecycleVars
  <2>2. Emitted' = Emitted
    BY <2>1 DEF Emitted
  <2>3. QED
    BY <2>1, <2>2 DEF LifecycleIInv, LifecycleTyping, Paths, Happened, OnlyEmitted, Distinct,
                      InOrder, HeardOnce, AllServed, Served, FirstHears
<1>9. QED
  BY <1>1, <1>2, <1>3, <1>4, <1>5, <1>6, <1>7, <1>8 DEF LifecycleNext

-----------------------------------------------------------------------------
(* Theorems. *)

\* The invariant holds in every state.
LEMMA LifecycleInvariance == LifecycleSpec => []LifecycleIInv
BY LifecycleInvInit, LifecycleInvStep, PTL DEF LifecycleSpec

LEMMA LifecycleInvTypes == LifecycleIInv => LifecycleTypeOK
<1> SUFFICES ASSUME LifecycleIInv PROVE LifecycleTypeOK
  OBVIOUS
<1>1. LifecycleTyping /\ OnlyEmitted
  BY DEF LifecycleIInv
<1>2. ASSUME NEW i \in DOMAIN emits PROVE emits[i].at \in 1..nextSub
  <2>1. i \in 1..Len(emits)
    BY <1>1 DEF LifecycleTyping
  <2>2. emits[i].at \in Nat /\ emits[i].at > 0 /\ emits[i].at <= nextSub /\ nextSub \in Nat
    BY <1>1, <2>1, Numbers DEF OnlyEmitted
  <2>3. QED
    BY <2>2
<1>3. QED
  BY <1>1, <1>2 DEF LifecycleTyping, LifecycleTypeOK

\* The types, the bounds on records and subscriptions, and that every emit()
\* under way is in a listener that has subscribed.
THEOREM LifecycleTyped == LifecycleSpec => []LifecycleTypeOK
<1>1. LifecycleIInv => LifecycleTypeOK
  BY LifecycleInvTypes
<1>2. QED
  BY <1>1, LifecycleInvariance, PTL

\* However listeners disturb the iteration that calls them
\* (src/events/lifecycleEvents.ts:54): once all emits have returned, everybody
\* still subscribed has heard every event since he came, once; and the first
\* listener has at any time heard the end of each record's history, in order.
THEOREM HistoryIsHeard == LifecycleSpec => []ListenersHearHistory
<1>1. LifecycleIInv => ListenersHearHistory
  <2> SUFFICES ASSUME LifecycleIInv PROVE ListenersHearHistory
    OBVIOUS
  <2>1. LifecycleTyping
    BY DEF LifecycleIInv
  <2>2. /\ nextSub \in Nat /\ nextSub <= MaxSubscriptions /\ MaxSubscriptions \in Nat
        /\ \A s \in 1..MaxSubscriptions : heard[s] \in Seq(LifecycleEvent)
    BY <2>1, Numbers
  <2>3. /\ DOMAIN emitted = 1..Len(emitted) /\ DOMAIN filterOf = 1..nextSub
        /\ DOMAIN history = 1..Len(history)
    BY <2>1 DEF LifecycleTyping
  <2>4. ASSUME emits = <<>>, ~unwound, NEW s \in DOMAIN filterOf
        PROVE  Owed(s) \subseteq Range(heard[s]) /\ IsInjective(heard[s])
    <3>1. s \in 1..nextSub /\ s \in 1..MaxSubscriptions
      BY <2>2, <2>3
    <3>2. ASSUME NEW e \in Owed(s) PROVE e \in Range(heard[s])
      <4>1. PICK n \in DOMAIN emitted :
              /\ e = emitted[n].event /\ emitted[n].subs >= s
              /\ Matches(emitted[n].event[2], filterOf[s])
        BY <3>2 DEF Owed
      <4>2. n \in 1..Len(emitted) /\ emitted[n].subs \in Nat
        BY <2>1, <2>3, Numbers
      <4>3. s <= emitted[n].subs
        BY <2>2, <3>1, <4>1, <4>2
      <4>4. Served(e, s, emits, heard)
        BY <2>4, <3>1, <4>1, <4>2, <4>3 DEF LifecycleIInv, AllServed
      <4>5. Len(emits) = 0 /\ 1..0 = {}
        BY <2>4
      <4>6. QED
        BY <4>4, <4>5 DEF Served
    <3>3. IsInjective(heard[s])
      BY <3>1 DEF LifecycleIInv, HeardOnce
    <3>4. QED
      BY <3>2, <3>3
  <2>5. ASSUME nextSub > 0, filterOf[1] = {}, NEW r \in DOMAIN history
        PROVE  LET told == About(1, r)
                   states == history[r]
               IN  /\ Cardinality(told) <= Len(states)
                   /\ \A i \in told :
                        heard[1][i][2] = states[Len(states) - Cardinality({j \in told : j > i})]
    <3>1. EndHeard(heard[1], r, history[r])
      BY <2>3, <2>5 DEF LifecycleIInv, FirstHears
    <3>2. heard[1] \in Seq(LifecycleEvent)
      BY <2>2, <2>5
    <3>3. DOMAIN heard[1] = 1..Len(heard[1])
      BY <3>2
    <3>4. About(1, r) = {i \in 1..Len(heard[1]) : heard[1][i][1] = r}
      BY <3>3 DEF About
    <3>5. QED
      BY <3>1, <3>4 DEF EndHeard
  <2>6. QED
    BY <2>4, <2>5 DEF ListenersHearHistory
<1>2. QED
  BY <1>1, LifecycleInvariance, PTL

=============================================================================
