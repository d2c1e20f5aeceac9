------------------------ MODULE TransactionLifecycle ------------------------
(***************************************************************************)
(* src/transactions/transactionLifecycleManager.ts with its state machine  *)
(* (src/lifecycle) and its emitter (src/events/lifecycleEvents.ts).        *)
(*                                                                         *)
(* emit() calls the listeners synchronously, and a listener may call the   *)
(* manager again: `emits' is the stack of the emits that have not          *)
(* returned.  Each of them is inside one listener, the subscription `at'.  *)
(* A Map is iterated live and in insertion order, and subscriptions are    *)
(* numbered in that order: the next listener is the least subscription     *)
(* beyond `at' that is still there and whose filter matches.               *)
(***************************************************************************)
EXTENDS Integers, Sequences, FiniteSets, SequencesExt

CONSTANTS
  TxIds,            \* ids of transactions
  Filters,          \* filters listeners subscribe with: sets of types, all if empty
  MaxRecords,       \* bound on the records created
  MaxSubscriptions, \* bound on the subscriptions made
  MaxEmits          \* bound on the events emitted

ASSUME LifecycleAssumption ==
  /\ MaxRecords \in Nat /\ MaxSubscriptions \in Nat /\ MaxEmits \in Nat

VARIABLES
  records,   \* the Map from ids to records; record 0 is none
  history,   \* the states each record has had; the last one is its state
  nextSub,   \* nextId
  filterOf,  \* the filter of each subscription that is in the Map
  emits,     \* the emits under way, outermost first
  heard,     \* what each subscription has been called with
  emitted,   \* what was emitted, and how many subscriptions there were by then
  unwound    \* a listener has thrown through an emit

lifecycleVars == <<records, history, nextSub, filterOf, emits, heard, emitted, unwound>>

Forward == <<"created", "simulating", "simulated", "signing", "signed", "submitting",
             "submitted", "confirming", "confirmed", "completed">>
LifecycleStates == Range(Forward) \cup {"failed"}
TerminalStates == {"completed", "failed"}
RecordNumbers == 1..MaxRecords
StateOf(r) == Last(history[r])

\* getAllowedNext()
AllowedNext(from) ==
  IF from \in TerminalStates THEN {}
  ELSE {Forward[i + 1] : i \in {j \in 1..(Len(Forward) - 1) : Forward[j] = from}} \cup {"failed"}

\* The type of the event that tells of a transition to `to'.
EventType(to) == IF to \in TerminalStates \cup {"created"} THEN to ELSE "transition"

-----------------------------------------------------------------------------
(* emit() *)

Matches(to, filter) == filter = {} \/ EventType(to) \in filter

\* Mutant: the listeners are an array, and removing one makes the next move up.
NextListenerInArray(to, at) ==
  LET later == {s \in DOMAIN filterOf : /\ s > at /\ Matches(to, filterOf[s])
                                        /\ at > 0 /\ filterOf[at] = {"removed"} => s > at + 1}
  IN  {s \in later : \A t \in later : s <= t}

\* The listener after subscription `at' that hears of `to'; none if empty.
NextListener(to, at) ==
  LET later == {s \in DOMAIN filterOf : s > at /\ Matches(to, filterOf[s])}
  IN  {s \in later : \A t \in later : s <= t}

\* The top frame goes on to the listeners in `next', or returns if there is none.
Advance(rest, event, next) ==
  IF next = {} THEN /\ emits' = rest
                    /\ UNCHANGED heard
  ELSE \E s \in next : /\ emits' = Append(rest, [event |-> event, at |-> s])
                       /\ heard' = [heard EXCEPT ![s] = Append(@, event)]

Emit(r, to) ==
  /\ Len(emitted) < MaxEmits
  /\ emitted' = Append(emitted, [event |-> <<r, to>>, subs |-> nextSub])
  /\ Advance(emits, <<r, to>>, NextListener(to, 0))

-----------------------------------------------------------------------------
(* Calls of the manager, from outside or, while `emits' is not empty, from
   the listener that is running. *)

LifecycleInit ==
  /\ records = [t \in TxIds |-> 0] /\ history = <<>>
  /\ nextSub = 0 /\ filterOf = <<>>
  /\ emits = <<>> /\ emitted = <<>> /\ unwound = FALSE
  /\ heard = [s \in 1..MaxSubscriptions |-> <<>>]

\* create()
CreateRecord(t) ==
  /\ records[t] = 0 /\ Len(history) < MaxRecords
  /\ history' = Append(history, <<"created">>)
  /\ records' = [records EXCEPT ![t] = Len(history) + 1]
  /\ Emit(Len(history) + 1, "created")
  /\ UNCHANGED <<nextSub, filterOf, unwound>>

\* transition(), and with it the mark functions and fail(): the record is
\* changed, then everybody is told, while the caller waits.
Transition(t, to) ==
  /\ records[t] # 0 /\ to \in AllowedNext(StateOf(records[t]))
  /\ history' = [history EXCEPT ![records[t]] = Append(@, to)]
  /\ Emit(records[t], to)
  /\ UNCHANGED <<records, nextSub, filterOf, unwound>>

\* remove(); clear() removes all.
RemoveRecords(ts) ==
  /\ \E t \in ts : records[t] # 0
  /\ records' = [t \in TxIds |-> IF t \in ts THEN 0 ELSE records[t]]
  /\ UNCHANGED <<history, nextSub, filterOf, emits, heard, emitted, unwound>>

\* onEvent()
OnEvent(filter) ==
  /\ nextSub < MaxSubscriptions
  /\ nextSub' = nextSub + 1
  /\ filterOf' = Append(filterOf, filter)
  /\ UNCHANGED <<records, history, emits, heard, emitted, unwound>>

\* offEvent().  What was removed keeps its place, with a filter nothing matches.
OffEvent(s) ==
  /\ filterOf[s] # {"removed"}
  /\ filterOf' = [filterOf EXCEPT ![s] = {"removed"}]
  /\ UNCHANGED <<records, history, nextSub, emits, heard, emitted, unwound>>

\* The running listener returns, and emit() calls the next one or returns.
ListenerReturns ==
  /\ emits # <<>>
  /\ LET top == Last(emits)
     IN  Advance(Front(emits), top.event, NextListener(top.event[2], top.at))
  /\ UNCHANGED <<records, history, nextSub, filterOf, emitted, unwound>>

\* The running listener throws.  The exception ends the emits down to the
\* listener, or the caller outside, that catches it.
ListenerThrows(n) ==
  /\ emits' = SubSeq(emits, 1, Len(emits) - n)
  /\ unwound' = TRUE
  /\ UNCHANGED <<records, history, nextSub, filterOf, heard, emitted>>

LifecycleNext ==
  \/ \E t \in TxIds : \/ CreateRecord(t)
                      \/ \E to \in LifecycleStates : Transition(t, to)
  \/ \E ts \in {{t} : t \in TxIds} \cup {TxIds} : RemoveRecords(ts)
  \/ \E f \in Filters : OnEvent(f)
  \/ \E s \in DOMAIN filterOf : OffEvent(s)
  \/ ListenerReturns
  \/ \E n \in 1..Len(emits) : ListenerThrows(n)

LifecycleSpec == LifecycleInit /\ [][LifecycleNext]_lifecycleVars

-----------------------------------------------------------------------------
(* Properties *)

LifecycleTypeOK ==
  /\ records \in [TxIds -> 0..Len(history)]
  /\ history \in Seq(Seq(LifecycleStates)) /\ Len(history) <= MaxRecords
  /\ nextSub \in 0..MaxSubscriptions /\ Len(filterOf) = nextSub
  /\ \A i \in DOMAIN emits : emits[i].at \in 1..nextSub
  /\ unwound \in BOOLEAN

\* The events subscription s has to hear: since it was made, and of its types.
Owed(s) ==
  {emitted[n].event : n \in {k \in DOMAIN emitted :
     emitted[k].subs >= s /\ Matches(emitted[k].event[2], filterOf[s])}}

\* The places in what subscription s heard that tell of record r.
About(s, r) == {i \in DOMAIN heard[s] : heard[s][i][1] = r}

(* Listeners that call the manager from their callback, or subscribe and
   unsubscribe there, disturb the iteration that called them, and later
   listeners may hear of two transitions in the wrong order.  But once all
   emits have returned, and unless a listener threw, everybody who is still
   subscribed has heard every event since then, and none twice; and the first
   listener has at any time heard the end of each record's history, in order.
   (src/events/lifecycleEvents.ts:54,
   src/transactions/transactionLifecycleManager.ts:103-130) *)
ListenersHearHistory ==
  /\ emits = <<>> /\ ~unwound =>
       \A s \in DOMAIN filterOf : filterOf[s] # {"removed"} =>
         Owed(s) \subseteq Range(heard[s]) /\ IsInjective(heard[s])
  /\ nextSub > 0 /\ filterOf[1] = {} =>
       \A r \in DOMAIN history :
         LET told == About(1, r)
             states == history[r]
         IN  /\ Cardinality(told) <= Len(states)
             /\ \A i \in told :
                  heard[1][i][2] = states[Len(states) - Cardinality({j \in told : j > i})]
=============================================================================
