--------------------------- MODULE SessionManager ---------------------------
(***************************************************************************)
(* src/session: the manager and the contract sessions it hands out.  The   *)
(* application keeps the session object, and calls both it and the manager *)
(* in any order.  Sessions are numbered as they are made; `session-n', the *)
(* id generateId() makes, is the number n, and may be asked for by name.   *)
(***************************************************************************)
EXTENDS Integers, Sequences, FiniteSets, SequencesExt

CONSTANTS
  SessionIds,     \* ids, among them the first generated ones 1, 2, ...
  ContractNames, ContractAddresses,
  maxSessions,    \* of the configuration
  MaxMade         \* bound on the sessions made

ASSUME SessionAssumption == maxSessions \in Nat \ {0} /\ MaxMade \in Nat

VARIABLES
  sessionsMade,   \* every session the manager has returned
  sessionMap,     \* _sessions: the numbers of those in the Map
  sessionCounter, \* of generateId()
  work            \* callbacks run() has started and not ended, per session

sessionVars == <<sessionsMade, sessionMap, sessionCounter, work>>

Generated == 0  \* no id is asked for
Made == DOMAIN sessionsMade
Open(n) == sessionsMade[n].status # "closed"
InMap(id) == {n \in sessionMap : sessionsMade[n].id = id}
FreshSession(id) == [id |-> id, status |-> "active", contracts |-> <<>>]

SessionInit ==
  sessionsMade = <<>> /\ sessionMap = {} /\ sessionCounter = 0 /\ work = <<>>

\* Mutant: only an id that is asked for is looked up in the Map.
CreateUnchecked(id) ==
  /\ Len(sessionsMade) < MaxMade /\ Cardinality(sessionMap) < maxSessions
  /\ id # Generated => InMap(id) = {}
  /\ id # Generated \/ sessionCounter + 1 \in SessionIds
  /\ sessionCounter' = IF id = Generated THEN sessionCounter + 1 ELSE sessionCounter
  /\ LET given == IF id = Generated THEN sessionCounter' ELSE id
     IN  /\ sessionsMade' = Append(sessionsMade, FreshSession(given))
         /\ sessionMap' = (sessionMap \ InMap(given)) \cup {Len(sessionsMade) + 1}
         /\ work' = Append(work, 0)

\* createSession().  A generated id that is in use is an error, and is used up.
\* Contracts given with the configuration are registered as by RegisterContract.
CreateSession(id) ==
  /\ Len(sessionsMade) < MaxMade
  /\ Cardinality(sessionMap) < maxSessions
  /\ id # Generated \/ sessionCounter + 1 \in SessionIds
  /\ sessionCounter' = IF id = Generated THEN sessionCounter + 1 ELSE sessionCounter
  /\ LET given == IF id = Generated THEN sessionCounter' ELSE id
     IN  IF InMap(given) # {} THEN UNCHANGED <<sessionsMade, sessionMap, work>>
         ELSE /\ sessionsMade' = Append(sessionsMade, FreshSession(given))
              /\ sessionMap' = sessionMap \cup {Len(sessionsMade) + 1}
              /\ work' = Append(work, 0)

SetStatus(n, status) ==
  /\ sessionsMade' = [sessionsMade EXCEPT ![n].status = status]
  /\ UNCHANGED <<sessionMap, sessionCounter, work>>

RegisterContract(n, name, address) ==
  /\ Open(n) /\ name \notin DOMAIN sessionsMade[n].contracts
  /\ sessionsMade' = [sessionsMade EXCEPT ![n].contracts =
       [x \in DOMAIN @ \cup {name} |-> IF x = name THEN address ELSE @[x]]]
  /\ UNCHANGED <<sessionMap, sessionCounter, work>>

UnregisterContract(n, name) ==
  /\ Open(n) /\ name \in DOMAIN sessionsMade[n].contracts
  /\ sessionsMade' = [sessionsMade EXCEPT ![n].contracts =
       [x \in DOMAIN @ \ {name} |-> @[x]]]
  /\ UNCHANGED <<sessionMap, sessionCounter, work>>

Suspend(n) == sessionsMade[n].status = "active" /\ SetStatus(n, "suspended")

Resume(n) == sessionsMade[n].status = "suspended" /\ SetStatus(n, "active")

Closed(ns) ==
  [n \in Made |-> IF n \in ns
     THEN [sessionsMade[n] EXCEPT !.status = "closed", !.contracts = <<>>] ELSE sessionsMade[n]]

\* close() of the session itself: the manager hears nothing of it.
CloseItself(n) ==
  /\ Open(n)
  /\ sessionsMade' = Closed({n})
  /\ UNCHANGED <<sessionMap, sessionCounter, work>>

\* closeSession()
CloseSession(id) ==
  /\ InMap(id) # {}
  /\ sessionsMade' = Closed(InMap(id))
  /\ sessionMap' = sessionMap \ InMap(id)
  /\ UNCHANGED <<sessionCounter, work>>

\* closeAll()
CloseAll ==
  /\ sessionMap # {}
  /\ sessionsMade' = Closed(sessionMap) /\ sessionMap' = {}
  /\ UNCHANGED <<sessionCounter, work>>

\* run(): the status is tested when the work starts, and not again.
RunStarts(n) ==
  /\ sessionsMade[n].status = "active" /\ work[n] = 0
  /\ work' = [work EXCEPT ![n] = @ + 1]
  /\ UNCHANGED <<sessionsMade, sessionMap, sessionCounter>>

RunEnds(n) ==
  /\ work[n] > 0
  /\ work' = [work EXCEPT ![n] = @ - 1]
  /\ UNCHANGED <<sessionsMade, sessionMap, sessionCounter>>

SessionNext ==
  \/ \E id \in SessionIds \cup {Generated} : CreateSession(id)
  \/ \E n \in Made :
       \/ \E name \in ContractNames : \/ UnregisterContract(n, name)
                                      \/ \E a \in ContractAddresses : RegisterContract(n, name, a)
       \/ Suspend(n) \/ Resume(n) \/ CloseItself(n) \/ RunStarts(n) \/ RunEnds(n)
  \/ \E id \in SessionIds : CloseSession(id)
  \/ CloseAll

SessionSpec == SessionInit /\ [][SessionNext]_sessionVars

-----------------------------------------------------------------------------
(* Properties *)

SessionTypeOK ==
  /\ sessionMap \subseteq Made /\ DOMAIN work = Made
  /\ \A n \in Made : /\ sessionsMade[n].id \in SessionIds
                     /\ sessionsMade[n].status \in {"active", "suspended", "closed"}
  /\ sessionCounter \in 0..MaxMade + Cardinality(SessionIds)

\* findByContract()
FindByContract(address) ==
  {n \in sessionMap : address \in Range(sessionsMade[n].contracts)}

(* `maxSessions' bounds the sessions that are open, not only those in the Map:
   the manager knows every open session it has made, under an id of its own,
   in whichever order sessions are closed by themselves, by id or all at once.
   And what is found by a contract can be used: a session that was closed holds
   none, though work that run() started in it may still be going on.
   (src/session/sessionManager.ts:71, 155; src/session/contractSession.ts:246) *)
SessionLimitKept ==
  /\ {n \in Made : Open(n)} \subseteq sessionMap
  /\ Cardinality(sessionMap) <= maxSessions
  /\ \A m, n \in sessionMap : sessionsMade[m].id = sessionsMade[n].id => m = n
  /\ \A a \in ContractAddresses : \A n \in FindByContract(a) : Open(n)
=============================================================================
