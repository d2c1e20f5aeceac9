--------------------------- MODULE OfflinePackages ---------------------------
(***************************************************************************)
(* OfflineTransactionBuilder: a builder that was given an account's number *)
(* builds transactions without a network, which are carried in packages to *)
(* a device that signs, and back to be submitted.  A builder queues its    *)
(* operations for good, and keeps its number however often it builds; a    *)
(* package takes the network, the account and the number from the builder  *)
(* that exports, whoever built the transaction.                            *)
(*                                                                         *)
(* A signature is for a network: the ledger, whose network is LedgerNet,   *)
(* takes a transaction that was signed for it and has its account's next   *)
(* number.  Fees, memos and time bounds are those of the builder and are   *)
(* left out, as are packages of other versions, which import() refuses.    *)
(***************************************************************************)
EXTENDS Integers, Sequences, FiniteSets

CONSTANTS
  OfflineBuilders,     \* their options: [id, account, number, network]
  LedgerNet,
  MaxOperationsQueued, \* MAX_OPERATIONS_PER_TRANSACTION
  MaxQueued,           \* bounds on the operations queued,
  MaxBuilt             \*   and on transactions and packages

ASSUME OfflineAssumption ==
  /\ \A b \in OfflineBuilders : b.number \in Nat
  /\ \A b, c \in OfflineBuilders : b.id = c.id => b = c
  /\ {MaxOperationsQueued, MaxQueued, MaxBuilt} \subseteq Nat

VARIABLES
  operations,  \* number of operations of each builder
  built,       \* transactions, in the order they were built
  packages,    \* packages that were exported
  imported,    \* transactions the signing device reconstructed
  offlineLedger, \* transactions that were applied, in order
  lastUsed     \* the number each account used last

offlineVars == <<operations, built, packages, imported, offlineLedger, lastUsed>>

OfflineAccounts == {b.account : b \in OfflineBuilders}

\* The builders are constructed with the numbers of their accounts, as cached.
OfflineInit ==
  /\ operations = [b \in OfflineBuilders |-> 0]
  /\ built = <<>> /\ packages = {} /\ imported = {} /\ offlineLedger = <<>>
  /\ lastUsed \in [OfflineAccounts -> {b.number : b \in OfflineBuilders}]
  /\ \E b \in OfflineBuilders : lastUsed[b.account] = b.number

\* addOperation(), which counts nothing, and addContractCall()
AddOperation(b) ==
  /\ operations[b] < MaxQueued
  /\ operations' = [operations EXCEPT ![b] = @ + 1]
  /\ UNCHANGED <<built, packages, imported, offlineLedger, lastUsed>>

\* Mutant: a builder that builds again goes on counting.
NumberCounted(b) ==
  b.number + 1 + Cardinality({i \in DOMAIN built : built[i].builder = b.id})

NumberToUse(b) == b.number + 1

\* Mutant: only an empty builder is refused.
SomeOperations(count) == count > 0

\* validate() of a number of operations, in build() and in export()
ValidCount(count) == count \in 1..MaxOperationsQueued

\* The account of the transaction is made anew, of the number the builder was given.
BuildOffline(b) ==
  /\ Len(built) < MaxBuilt /\ ValidCount(operations[b])
  /\ built' = Append(built, [builder |-> b.id, account |-> b.account, number |-> NumberToUse(b),
                             count |-> operations[b], network |-> b.network])
  /\ UNCHANGED <<operations, packages, imported, offlineLedger, lastUsed>>

\* Mutant: what the builder has queued by now is counted.
PackageOfBuilder(b, tx) ==
  [envelope |-> [account |-> tx.account, number |-> tx.number, count |-> tx.count],
   network |-> b.network, account |-> b.account, sequence |-> b.number, count |-> operations[b],
   own |-> tx.builder = b.id]

\* The XDR of a transaction does not have the network.  `own' is history.
PackageOf(b, tx) ==
  [envelope |-> [account |-> tx.account, number |-> tx.number, count |-> tx.count],
   network |-> b.network, account |-> b.account, sequence |-> b.number, count |-> tx.count,
   own |-> tx.builder = b.id]

Export(b, i) ==
  /\ Cardinality(packages) < MaxBuilt /\ ValidCount(built[i].count)
  /\ packages' = packages \cup {PackageOf(b, built[i])}
  /\ UNCHANGED <<operations, built, imported, offlineLedger, lastUsed>>

\* import() and fromXDR(), and the signature for the network of the package
ImportAndSign(p) ==
  /\ imported' = imported \cup {[envelope |-> p.envelope, network |-> p.network]}
  /\ imported' # imported
  /\ UNCHANGED <<operations, built, packages, offlineLedger, lastUsed>>

\* The ledger takes a transaction.
SubmitSigned(t) ==
  /\ t.network = LedgerNet /\ t.envelope.number = lastUsed[t.envelope.account] + 1
  /\ offlineLedger' = Append(offlineLedger, t)
  /\ lastUsed' = [lastUsed EXCEPT ![t.envelope.account] = t.envelope.number]
  /\ UNCHANGED <<operations, built, packages, imported>>

OfflineNext ==
  \/ \E b \in OfflineBuilders :
       \/ AddOperation(b) \/ BuildOffline(b)
       \/ \E i \in DOMAIN built : Export(b, i)
  \/ \E p \in packages : ImportAndSign(p)
  \/ \E t \in imported : SubmitSigned(t)

OfflineSpec == OfflineInit /\ [][OfflineNext]_offlineVars

-----------------------------------------------------------------------------
(* Properties *)

OfflineTypeOK ==
  /\ operations \in [OfflineBuilders -> 0..MaxQueued] /\ Len(built) <= MaxBuilt
  /\ lastUsed \in [OfflineAccounts -> Nat]

(* What is applied is a transaction as it was built, with the operations that were
   queued by then; of all that one builder builds the ledger takes at most one.  A
   package says how many operations are in it, and whose account they are of, if
   the builder that exports it built it.
   (src/builders/offlineTransactionBuilder.ts:129-190) *)
PackagesTravel ==
  /\ \A i \in DOMAIN built : built[i].count \in 1..MaxOperationsQueued
  /\ \A m \in DOMAIN offlineLedger :
       \E i \in DOMAIN built :
         /\ [account |-> built[i].account, number |-> built[i].number, count |-> built[i].count]
              = offlineLedger[m].envelope
         /\ \A n \in DOMAIN offlineLedger : \A j \in DOMAIN built :
              n # m /\ built[j].builder = built[i].builder
                => offlineLedger[n].envelope.number # built[j].number
                   \/ offlineLedger[n].envelope.account # built[j].account
  /\ \A p \in packages :
       /\ p.count = p.envelope.count
       /\ p.own => p.account = p.envelope.account
=============================================================================
