------------------------ MODULE ContractEventEmitter ------------------------
(***************************************************************************)
(* The emitter of src/contracts/ContractEventEmitter.ts: listeners of a    *)
(* contract's events, fed by a timer that polls getEvents() from a cursor, *)
(* and its registration in StellarClient (subscribeToEvents).              *)
(*                                                                         *)
(* A poll is one run of the async function poll(); it waits for            *)
(* getLatestLedger() or for getEvents().  The timer does not wait for it,  *)
(* so several may be in flight as far as the timer is concerned.  A        *)
(* listener is a function registered under one key; callbacks do not call  *)
(* the emitter themselves, except that the wrapper made by once() removes  *)
(* itself.  A cursor stands for the number of events before it.            *)
(***************************************************************************)
EXTENDS Integers, Sequences, FiniteSets

CONSTANTS
  Names,         \* names of events (the first symbol or string topic)
  Topics,        \* the names the emitter lets through; all if empty
  Listeners,     \* callbacks
  KeyOf,         \* the key a callback is registered under
  OnceListeners, \* those registered with once()
  Polls,         \* identities of runs of poll()
  MaxEvents,     \* bound on the events of the contract
  MaxLedger      \* bound on the ledgers of the network

NoName == "noName"        \* an event without a name
Prefixed == "event:name"  \* stands for `event:<name>'; nobody listens to it
Keys == Names \cup {"event", "*"}

ASSUME KeysAssumption ==
  /\ Topics \subseteq Names /\ {NoName, Prefixed} \cap Names = {}
  /\ KeyOf \in [Listeners -> Keys] /\ OnceListeners \subseteq Listeners
  /\ MaxEvents \in Nat /\ MaxLedger \in Nat \ {0}

VARIABLES
  ledger,     \* the network's latest ledger
  log,        \* the events of the contract on the network, oldest first
  listeners,  \* this.listeners
  interval,   \* this.interval is set
  lastLedger, \* this.lastLedger, or Unset
  lastCursor, \* this.lastCursor, or Unset
  isPolling,  \* this.isPolling
  isClosed,   \* this.isClosed
  registered, \* the emitter is in the client's eventEmitters
  polls,      \* what each run of poll() waits for
  calls,      \* how often each event was passed to each listener
  joined      \* the cursor when a listener was last added, Unset if before the first poll

vars == <<ledger, log, listeners, interval, lastLedger, lastCursor, isPolling,
          isClosed, registered, polls, calls, joined>>
network == <<ledger, log>>
feed == <<lastLedger, lastCursor, isPolling, polls, calls>>

Unset == -1
Idle == [wait |-> "none", from |-> 0]

Matches(e) == Topics = {} \/ e.name \in Topics

-----------------------------------------------------------------------------
(* Dispatch.  emit(k) calls the listeners of k, then those of `event', then
   those of `*': the three lists are joined, not united. *)

Count(b) == IF b THEN 1 ELSE 0

\* Mutant: the three lists are united.
CallsInOneList(k, l) == Count(KeyOf[l] \in {k, "event", "*"})

CallsIn(k, l) == Count(KeyOf[l] = k) + Count(KeyOf[l] = "event") + Count(KeyOf[l] = "*")

\* close(): no effect when closed.  s is the part of the state emit() changes.
Close(s) == [s EXCEPT !.listeners = {}, !.open = FALSE]

\* The calls there have been once every listener of s was called for event i.
CallsAfter(s, k, i) ==
  [l \in Listeners |-> [j \in 1..MaxEvents |->
     IF l \in s.listeners /\ j = i THEN s.calls[l][j] + CallsIn(k, l) ELSE s.calls[l][j]]]

\* Mutant: the wrapper of once() stays registered.
EmitKeepsOnce(s, k, i) == [s EXCEPT !.calls = CallsAfter(s, k, i)]

\* emit(k) of event i.  The wrapper of once() removes itself when called, and
\* removing the last listener closes the emitter.
Emit(s, k, i) ==
  LET fired == {l \in s.listeners \cap OnceListeners : CallsIn(k, l) > 0}
      after == [s EXCEPT !.listeners = @ \ fired, !.calls = CallsAfter(s, k, i)]
  IN  IF fired # {} /\ after.listeners = {} THEN Close(after) ELSE after

\* One event of the page.  `event:<name>' has no listeners of its own here and
\* reaches those of `event' and `*'.
DispatchEvent(s, i) ==
  LET name == log[i].name
      forAll == Emit(Emit(s, "event", i), "*", i)
  IN  IF ~Matches(log[i]) THEN s
      ELSE IF name = NoName THEN forAll
      ELSE Emit(Emit(forAll, name, i), Prefixed, i)

\* The loop of poll() over the events from first to last.
Dispatch(s, first, last) ==
  LET after[i \in 0..last] == IF i < first THEN s ELSE DispatchEvent(after[i - 1], i)
  IN  after[last]

-----------------------------------------------------------------------------
Init ==
  /\ ledger = 1
  /\ log = <<>>
  /\ listeners = {}
  /\ interval = TRUE      \* subscribeToEvents() calls start()
  /\ lastLedger = Unset /\ lastCursor = Unset
  /\ isPolling = FALSE /\ isClosed = FALSE /\ registered = TRUE
  /\ polls = [p \in Polls |-> Idle]
  /\ calls = [l \in Listeners |-> [i \in 1..MaxEvents |-> 0]]
  /\ joined = [l \in Listeners |-> Unset]

\* Mutant: on() does not look whether the emitter is closed.
OnIgnoringClosed(l) ==
  /\ l \notin listeners
  /\ listeners' = listeners \cup {l}
  /\ joined' = [joined EXCEPT ![l] = lastCursor]
  /\ interval' = TRUE
  /\ UNCHANGED <<network, feed, isClosed, registered>>

\* on() and once(); a closed emitter ignores them.
On(l) ==
  /\ ~isClosed
  /\ l \notin listeners
  /\ l \in OnceListeners => \A i \in 1..MaxEvents : calls[l][i] = 0
  /\ listeners' = listeners \cup {l}
  /\ joined' = [joined EXCEPT ![l] = lastCursor]
  /\ interval' = TRUE
  /\ UNCHANGED <<network, feed, isClosed, registered>>

\* Mutant: the timer of an emitter without listeners is not stopped.
OffLeaksTimer(ls) ==
  /\ listeners' = listeners \ ls
  /\ IF listeners \subseteq ls
       THEN isClosed' = TRUE /\ registered' = FALSE /\ UNCHANGED interval
       ELSE UNCHANGED <<interval, isClosed, registered>>
  /\ UNCHANGED <<network, feed, joined>>

\* Removing listeners closes an emitter that has none left, also when it had none.
Off(ls) ==
  /\ listeners' = listeners \ ls
  /\ IF listeners \subseteq ls
       THEN isClosed' = TRUE /\ registered' = FALSE /\ interval' = FALSE
       ELSE UNCHANGED <<interval, isClosed, registered>>
  /\ UNCHANGED <<network, feed, joined>>

\* removeAllListeners() for one key.
RemoveKey(k) == Off({l \in Listeners : KeyOf[l] = k})

\* close(), unsubscribe(), removeAllListeners(), and removeAllListeners() of
\* the client.
CloseEmitter == ~isClosed /\ Off(Listeners)

Stop == interval /\ interval' = FALSE
        /\ UNCHANGED <<network, feed, listeners, isClosed, registered, joined>>
Start == ~interval /\ ~isClosed /\ interval' = TRUE
         /\ UNCHANGED <<network, feed, listeners, isClosed, registered, joined>>

\* The request a run of poll() makes once it knows where to start.
Request == IF lastCursor # Unset THEN [wait |-> "events", from |-> lastCursor]
           ELSE IF lastLedger = Unset THEN [wait |-> "ledger", from |-> 0]
           ELSE [wait |-> "start", from |-> lastLedger]

\* Mutant: polls overlap.
PollOverlapping(p) ==
  /\ interval
  /\ polls[p] = Idle
  /\ isPolling' = TRUE
  /\ polls' = [polls EXCEPT ![p] = Request]
  /\ UNCHANGED <<network, listeners, interval, lastLedger, lastCursor, isClosed,
                 registered, calls, joined>>

\* The timer calls poll(), which does nothing while another runs.
Poll(p) ==
  /\ interval /\ ~isPolling /\ ~isClosed
  /\ polls[p] = Idle
  /\ isPolling' = TRUE
  /\ polls' = [polls EXCEPT ![p] = Request]
  /\ UNCHANGED <<network, listeners, interval, lastLedger, lastCursor, isClosed,
                 registered, calls, joined>>

\* Mutant: polling starts at the ledger after the latest.
LatestLedgerNext(p) ==
  /\ polls[p].wait = "ledger"
  /\ lastLedger' = ledger + 1
  /\ polls' = [polls EXCEPT ![p] = [wait |-> "start", from |-> ledger + 1]]
  /\ UNCHANGED <<network, listeners, interval, lastCursor, isPolling, isClosed,
                 registered, calls, joined>>

\* getLatestLedger() answers; poll() goes on to getEvents().
LatestLedger(p) ==
  /\ polls[p].wait = "ledger"
  /\ lastLedger' = ledger
  /\ polls' = [polls EXCEPT ![p] = [wait |-> "start", from |-> ledger]]
  /\ UNCHANGED <<network, listeners, interval, lastCursor, isPolling, isClosed,
                 registered, calls, joined>>

\* The first event a request asks for.
First(p) == IF polls[p].wait = "events" THEN polls[p].from + 1
            ELSE Cardinality({i \in DOMAIN log : log[i].ledger < polls[p].from}) + 1

\* getEvents() answers with a page that ends at last and the cursor behind it;
\* the events are passed to the listeners there are now.
Events(p, last) ==
  /\ polls[p].wait \in {"start", "events"}
  /\ lastCursor' = last
  /\ LET page == First(p)..last
         newest == IF page = {} THEN lastLedger ELSE log[last].ledger
         s == Dispatch([listeners |-> listeners, open |-> ~isClosed, calls |-> calls],
                       First(p), last)
     IN  /\ lastLedger' = IF newest > lastLedger THEN newest ELSE lastLedger
         /\ listeners' = s.listeners
         /\ calls' = s.calls
         /\ isClosed' = ~s.open
         /\ interval' = (interval /\ s.open)
         /\ registered' = (registered /\ s.open)
  /\ isPolling' = FALSE
  /\ polls' = [polls EXCEPT ![p] = Idle]
  /\ UNCHANGED <<network, joined>>

\* A page of any length, the empty one included.
AnyPage(p) == \E last \in (First(p) - 1)..Len(log) : Events(p, last)

\* A request fails: the error is logged and the next tick tries again.
PollFails(p) ==
  /\ polls[p] # Idle
  /\ isPolling' = FALSE
  /\ polls' = [polls EXCEPT ![p] = Idle]
  /\ UNCHANGED <<network, listeners, interval, lastLedger, lastCursor, isClosed,
                 registered, calls, joined>>

\* The contract emits an event, the network closes a ledger.
ContractEmits(n) ==
  /\ Len(log) < MaxEvents
  /\ log' = Append(log, [ledger |-> ledger, name |-> n])
  /\ UNCHANGED <<ledger, listeners, interval, feed, isClosed, registered, joined>>
LedgerCloses ==
  /\ ledger < MaxLedger
  /\ ledger' = ledger + 1
  /\ UNCHANGED <<log, listeners, interval, feed, isClosed, registered, joined>>

Next ==
  \/ \E l \in Listeners : On(l)
  \/ \E l \in listeners \ OnceListeners : Off({l})
  \/ \E k \in Keys : ~isClosed /\ RemoveKey(k)
  \/ CloseEmitter \/ Stop \/ Start
  \/ \E p \in Polls : Poll(p) \/ LatestLedger(p) \/ AnyPage(p) \/ PollFails(p)
  \/ \E n \in Names \cup {NoName} : ContractEmits(n)
  \/ LedgerCloses

Spec == Init /\ [][Next]_vars

-----------------------------------------------------------------------------
(* Every variable has its type. *)
TypeOK ==
  /\ ledger \in 1..MaxLedger
  /\ log \in Seq([ledger : 1..MaxLedger, name : Names \cup {NoName}])
  /\ listeners \subseteq Listeners
  /\ {interval, isPolling, isClosed, registered} \subseteq BOOLEAN
  /\ lastLedger \in {Unset} \cup 1..MaxLedger
  /\ lastCursor \in {Unset} \cup 0..MaxEvents
  /\ polls \in [Polls -> [wait : {"none", "ledger", "start", "events"}, from : Nat]]
  /\ calls \in [Listeners -> [1..MaxEvents -> Nat]]
  /\ joined \in [Listeners -> {Unset} \cup Nat]

\* How often emit() passes one event to a listener that stays registered:
\* once by name; a listener of every event is called for each key emitted, and
\* twice for its own.
Multiplicity(l, e) ==
  LET everyEvent == IF e.name = NoName THEN 3 ELSE 5
  IN  IF ~Matches(e) THEN 0
      ELSE Count(KeyOf[l] = e.name) + (IF KeyOf[l] \in {"event", "*"} THEN everyEvent ELSE 0)

(* The cursor loses and repeats nothing: whatever polls fail, overlap with
   calls of the interface or are answered with short pages, a listener has had
   every event between the poll after which it came and the cursor, as often as
   its key is emitted for it. *)
DeliveredExactly ==
  \A l \in listeners \ OnceListeners :
    joined[l] # Unset =>
      \A i \in (joined[l] + 1)..lastCursor : calls[l][i] = Multiplicity(l, log[i])

(* No event reaches a listener twice through two polls, not even one that was
   removed and added again; and a once() listener fires for one event only,
   though an event is emitted under several keys. *)
NeverTwice ==
  /\ \A l \in Listeners, i \in 1..MaxEvents :
       calls[l][i] > 0 => calls[l][i] <= (IF i <= Len(log) THEN Multiplicity(l, log[i]) ELSE 0)
  /\ \A l \in OnceListeners :
       /\ Cardinality({i \in 1..MaxEvents : calls[l][i] > 0}) <= 1
       /\ l \in listeners => \A i \in 1..MaxEvents : calls[l][i] = 0

(* A closed emitter holds no timer, no listener and no place in the client,
   however it came to be closed: tests/eventEmitterLeak.test.ts. *)
ClosedLeaksNothing == isClosed => ~interval /\ listeners = {} /\ ~registered

(* After close() no callback runs, though a poll may still be in flight. *)
ClosedIsSilent == [][isClosed => calls' = calls]_vars
=============================================================================
