------------------------------- MODULE MockRpc -------------------------------
(***************************************************************************)
(* MockRpcServer, the in-process server of applications' tests, as         *)
(* ScenarioBuilder and MockNetwork drive it.  Its methods run to their end *)
(* at once.  A snapshot copies the maps and not the transactions in them:  *)
(* the server and its snapshots share the entries, which polls change.     *)
(* `heap' holds the entries, and the maps refer to them.                   *)
(*                                                                         *)
(* The server's accounts, simulations, events and health are copied as     *)
(* they are set, like its ledger, which stands for them here.              *)
(***************************************************************************)
EXTENDS Integers, Sequences, FiniteSets, SequencesExt

CONSTANTS
  MockLedgers,   \* ledgers that tests set
  MockMethods,   \* methods that errors are injected into
  SeededPolls,   \* polls in vain that a seeded transaction is given
  MaxEntries,    \* bounds on the entries that are made,
  MaxSetUp       \*   and on those and the errors injected between two resets

ASSUME MockAssumption ==
  /\ MockLedgers \subseteq Nat \ {0} /\ MockLedgers # {}
  /\ SeededPolls \subseteq Nat /\ MaxEntries \in Nat /\ MaxSetUp \in Nat

VARIABLES
  mockLedger,
  heap,          \* transaction entries, in the order of their creation
  transactions,  \* hash -> its entry in the heap
  pendingErrors, \* [method, number]
  snapshotTaken, \* the snapshot a test keeps, or the one of an empty server
  injected,      \* errors injected since the last reset
  thrown,        \* errors thrown since
  sentHashes     \* the hashes sendTransaction() returned since

mockVars == <<mockLedger, heap, transactions, pendingErrors, snapshotTaken, injected,
              thrown, sentHashes>>

FirstLedger == CHOOSE l \in MockLedgers : \A k \in MockLedgers : l <= k

\* The hash of a transaction a test seeds, or `mock-hash-<ledger>-<number>'
SeededHash == [ledger |-> 0, number |-> 0]
SentHash(l, number) == [ledger |-> l, number |-> number]

NoTransactions == [hash \in {} |-> 0]

MockInit ==
  /\ mockLedger = FirstLedger
  /\ heap = <<>> /\ transactions = NoTransactions /\ pendingErrors = <<>>
  /\ snapshotTaken = [ledger |-> FirstLedger, transactions |-> NoTransactions,
                      heap |-> <<>>]
  /\ injected = <<>> /\ thrown = <<>> /\ sentHashes = <<>>

NewEntry(polls, finalStatus) ==
  [status |-> "PENDING", remaining |-> polls, finalStatus |-> finalStatus,
   asked |-> polls, pollsInVain |-> 0]

\* The map with an entry set, which is at the end of the heap
SetEntry(hash, entry) ==
  /\ heap' = Append(heap, entry)
  /\ transactions' = [h \in DOMAIN transactions \cup {hash} |->
                        IF h = hash THEN Len(heap) + 1 ELSE transactions[h]]

\* Mutant: the entry that is there is changed.
ResetEntry(polls) ==
  /\ Len(heap) < MaxEntries
  /\ IF SeededHash \in DOMAIN transactions
     THEN heap' = [heap EXCEPT ![transactions[SeededHash]] = NewEntry(polls, "FAILED")]
          /\ UNCHANGED transactions
     ELSE SetEntry(SeededHash, NewEntry(polls, "FAILED"))
  /\ UNCHANGED <<mockLedger, pendingErrors, snapshotTaken, injected, thrown, sentHashes>>

AddTransaction(polls) ==
  /\ Len(heap) < MaxEntries
  /\ SetEntry(SeededHash, NewEntry(polls, "FAILED"))
  /\ UNCHANGED <<mockLedger, pendingErrors, snapshotTaken, injected, thrown, sentHashes>>

SetLedger(l) ==
  /\ l # mockLedger /\ mockLedger' = l
  /\ UNCHANGED <<heap, transactions, pendingErrors, snapshotTaken, injected, thrown,
                 sentHashes>>

InjectError(method) ==
  /\ Len(heap) + Len(injected) < MaxSetUp
  /\ LET error == [method |-> method, number |-> Len(injected) + 1]
     IN  /\ pendingErrors' = Append(pendingErrors, error)
         /\ injected' = Append(injected, error)
  /\ UNCHANGED <<mockLedger, heap, transactions, snapshotTaken, thrown, sentHashes>>

ResetServer ==
  /\ mockLedger' = FirstLedger
  /\ transactions' = NoTransactions /\ pendingErrors' = <<>>
  /\ injected' = <<>> /\ thrown' = <<>> /\ sentHashes' = <<>>
  /\ UNCHANGED <<heap, snapshotTaken>>

\* The entries as they are now are history, to compare with.
TakeSnapshot ==
  /\ snapshotTaken' = [ledger |-> mockLedger, transactions |-> transactions,
                       heap |-> heap]
  /\ UNCHANGED <<mockLedger, heap, transactions, pendingErrors, injected, thrown,
                 sentHashes>>

Restore ==
  /\ mockLedger' = snapshotTaken.ledger
  /\ transactions' = snapshotTaken.transactions /\ pendingErrors' = <<>>
  /\ injected' = <<>> /\ thrown' = <<>> /\ sentHashes' = <<>>
  /\ UNCHANGED <<heap, snapshotTaken>>

ErrorsOf(method) == {i \in DOMAIN pendingErrors : pendingErrors[i].method = method}

\* Mutant: the error that waits first is thrown, whatever it was injected into.
ThrowFirst(method) ==
  /\ pendingErrors # <<>>
  /\ thrown' = Append(thrown, [Head(pendingErrors) EXCEPT !.method = method])
  /\ pendingErrors' = Tail(pendingErrors)

\* checkError(), when it throws
ThrowInjected(method) ==
  /\ ErrorsOf(method) # {}
  /\ LET i == CHOOSE j \in ErrorsOf(method) : \A k \in ErrorsOf(method) : j <= k
     IN  /\ thrown' = Append(thrown, pendingErrors[i])
         /\ pendingErrors' = RemoveAt(pendingErrors, i)

\* Any method, and in particular getHealth() and the others that only read
MethodThrows(method) ==
  /\ ThrowInjected(method)
  /\ UNCHANGED <<mockLedger, heap, transactions, snapshotTaken, injected, sentHashes>>

\* Mutant: the hash has the ledger alone.
HashOfLedger == SentHash(mockLedger, 0)

NextHash == SentHash(mockLedger, Cardinality(DOMAIN transactions))

SendToMock ==
  /\ ErrorsOf("sendTransaction") = {} /\ Len(heap) < MaxEntries
  /\ IF NextHash \in DOMAIN transactions THEN UNCHANGED <<heap, transactions>>
     ELSE SetEntry(NextHash, NewEntry(1, "SUCCESS"))
  /\ sentHashes' = Append(sentHashes, NextHash)
  /\ UNCHANGED <<mockLedger, pendingErrors, snapshotTaken, injected, thrown>>

\* Mutant: the poll that counts down to zero finds the end.
PollCounted(entry) ==
  IF entry.remaining > 1
  THEN [entry EXCEPT !.remaining = @ - 1, !.pollsInVain = @ + 1]
  ELSE [entry EXCEPT !.remaining = 0, !.status = entry.finalStatus]

\* getTransaction() of a pending entry: it is not found, or it is at its end.
Polled(entry) ==
  IF entry.remaining > 0
  THEN [entry EXCEPT !.remaining = @ - 1, !.pollsInVain = @ + 1]
  ELSE [entry EXCEPT !.status = entry.finalStatus]

\* The other answers change nothing.
PollMock(hash) ==
  /\ ErrorsOf("getTransaction") = {} /\ hash \in DOMAIN transactions
  /\ heap[transactions[hash]].status = "PENDING"
  /\ heap' = [heap EXCEPT ![transactions[hash]] = Polled(@)]
  /\ UNCHANGED <<mockLedger, transactions, pendingErrors, snapshotTaken, injected,
                 thrown, sentHashes>>

MockNext ==
  \/ \E polls \in SeededPolls : AddTransaction(polls)
  \/ \E l \in MockLedgers : SetLedger(l)
  \/ \E method \in MockMethods : InjectError(method) \/ MethodThrows(method)
  \/ \E hash \in DOMAIN transactions : PollMock(hash)
  \/ ResetServer \/ TakeSnapshot \/ Restore \/ SendToMock

MockSpec == MockInit /\ [][MockNext]_mockVars

-----------------------------------------------------------------------------
(* Properties *)

MockTypeOK ==
  /\ mockLedger \in MockLedgers
  /\ \A hash \in DOMAIN transactions : transactions[hash] \in DOMAIN heap
  /\ \A i \in DOMAIN heap : heap[i].remaining \in 0..heap[i].asked

(* A scenario plays as it was built.  Every error is thrown once, by the method
   it was injected into and in the order of injection; no two transactions that
   are sent get one hash; a transaction comes to its end after as many polls in
   vain as it was given; and what is seeded or sent after a snapshot neither
   replaces nor starts again a transaction that is in it.
   (src/testing/MockRpcServer.ts:132-171, 230-283) *)
MockPlaysScenario ==
  /\ LET errors == thrown \o pendingErrors
     IN  /\ Len(errors) = Len(injected) /\ Range(errors) = Range(injected)
         /\ \A i, j \in DOMAIN errors : i < j /\ errors[i].method = errors[j].method =>
              errors[i].number < errors[j].number
  /\ \A i, j \in DOMAIN sentHashes : sentHashes[i] = sentHashes[j] => i = j
  /\ \A i \in DOMAIN heap :
       /\ heap[i].pollsInVain = heap[i].asked - heap[i].remaining
       /\ heap[i].status # "PENDING" => heap[i].pollsInVain = heap[i].asked
  /\ \A i \in DOMAIN snapshotTaken.heap :
       LET then == snapshotTaken.heap[i]
       IN  /\ heap[i].asked = then.asked /\ heap[i].finalStatus = then.finalStatus
           /\ heap[i].pollsInVain >= then.pollsInVain
           /\ then.status # "PENDING" => heap[i] = then

(* The comment on restore() of MockNetwork (src/testing/MockNetwork.ts:95), "Restore
   server state from a previously taken snapshot", and the test that says
   "snapshot/restore preserves full scenario state" (tests/mockNetwork.test.ts:442):
   every transaction is again as it was when the snapshot was taken. *)
RestoredAsTaken ==
  [][Restore => \A hash \in DOMAIN transactions' :
       heap'[transactions'[hash]] = snapshotTaken.heap[transactions'[hash]]]_mockVars
=============================================================================
