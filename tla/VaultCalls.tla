----------------------------- MODULE VaultCalls -----------------------------
(***************************************************************************)
(* deposit(), withdraw() and claimRewards() of packages/core's Vault-      *)
(* Contract, down through invokeMethod() of BaseContract and the Trans-    *)
(* actionSigner to the ledger.  A call is a list of awaits; while it waits *)
(* the vault's rate moves, the user switches the wallet's account or its   *)
(* network, and other calls go on.                                         *)
(* The client is one of a subclass that implements the abstract method     *)
(* executeWithErrorHandling(), which StellarClient itself leaves open.     *)
(*                                                                         *)
(* A simulated amount is within the bound that a call gave, or is not: the *)
(* rate decides which.  The wallet signs for the account it is switched to,*)
(* and the ledger takes a transaction that is signed for its source and    *)
(* carries the account's next number.  Numbers come from the network here; *)
(* the cache that stands in for it is modelled in OfflineSubmission.       *)
(***************************************************************************)
EXTENDS Integers, Sequences, FiniteSets, SequencesExt

CONSTANTS
  VaultCallers,    \* calls of the application, numbered
  WalletAccounts,
  NoAccount,       \* in the place of an account
  MaxSwitches      \* bound on changes of the rate and of the wallet

ASSUME VaultAssumption ==
  /\ VaultCallers \subseteq Nat /\ MaxSwitches \in Nat
  /\ WalletAccounts # {} /\ NoAccount \notin WalletAccounts

VARIABLES
  vaultCalls,    \* the call of each caller
  composed,      \* operations of a builder that calls were given
  walletIn,      \* [account, network] the wallet is switched to
  rateIsGood,    \* whether a preview is within the bounds now
  ledgerNumbers, \* the number each account used last
  mempool,       \* callers whose transaction is submitted and not settled
  settled,       \* callers whose transaction was settled, in order
  switches       \* changes of the surroundings so far

vaultVars == <<vaultCalls, composed, walletIn, rateIsGood, ledgerNumbers, mempool, settled,
               switches>>
surroundings == <<walletIn, rateIsGood, switches>>
ledgerVars == <<ledgerNumbers, mempool, settled>>

\* `switched': whether the wallet's account changed since the call began;
\* `previewed': whether it saw a preview, and it was good.  Both are history.
NoVaultCall ==
  [todo |-> <<>>, outcome |-> "none", kind |-> "none", bounded |-> FALSE, given |-> FALSE,
   party |-> NoAccount, source |-> NoAccount, number |-> 0, signer |-> NoAccount,
   previewed |-> FALSE, switched |-> FALSE]

VaultInit ==
  /\ vaultCalls = [c \in VaultCallers |-> NoVaultCall]
  /\ composed = <<>>
  /\ walletIn = [account |-> CHOOSE a \in WalletAccounts : TRUE, sameNetwork |-> TRUE]
  /\ rateIsGood = TRUE /\ switches = 0
  /\ ledgerNumbers = [a \in WalletAccounts |-> 0] /\ mempool = {} /\ settled = <<>>

Needs(b, await) == IF b THEN <<await>> ELSE <<>>

\* Mutant: what the wallet is asked to sign was not checked.
AwaitsUnchecked(kind, path, bounded, given) ==
  Needs(kind # "claim" /\ ~given, "party") \o Needs(kind # "deposit", "source")
    \o (IF path = "builder" THEN <<"compose">>
        ELSE <<"account", "simulate", "sign", "send", "poll">>)

\* What a call awaits, in this order.  A deposit's source is its party.
Awaits(kind, path, bounded, given) ==
  Needs(kind # "claim" /\ ~given, "party") \o Needs(kind # "deposit", "source")
    \o Needs(bounded /\ path # "builder", "preview")
    \o (IF path = "builder" THEN <<"compose">>
        ELSE Needs(path = "standard", "network")
               \o <<"account", "simulate", "sign", "send", "poll">>)

\* Callers are numbered in the order in which they call.  A party that is given is
\* the account the wallet is switched to.
CallVault(c, kind, path, bounded, given) ==
  /\ vaultCalls[c] = NoVaultCall
  /\ \A d \in VaultCallers : d < c => vaultCalls[d] # NoVaultCall
  /\ kind = "claim" => ~bounded /\ ~given
  /\ vaultCalls' = [vaultCalls EXCEPT ![c] =
       [NoVaultCall EXCEPT !.todo = Awaits(kind, path, bounded, given), !.kind = kind,
          !.bounded = bounded /\ path # "builder", !.given = given,
          !.party = IF given THEN walletIn.account ELSE NoAccount,
          !.source = IF given /\ kind = "deposit" THEN walletIn.account ELSE NoAccount]]
  /\ UNCHANGED <<composed, surroundings, ledgerVars>>

Awaiting(c, await) == vaultCalls[c].todo # <<>> /\ Head(vaultCalls[c].todo) = await

\* The call goes on, as `call', to what it awaits next.
GoOn(c, call) ==
  vaultCalls' = [vaultCalls EXCEPT ![c] = [call EXCEPT !.todo = Tail(@)]]

\* getPublicKey(), for the party, which is the source of a deposit too.
GetParty(c) ==
  /\ Awaiting(c, "party")
  /\ GoOn(c, [vaultCalls[c] EXCEPT !.party = walletIn.account,
       !.source = IF vaultCalls[c].kind = "deposit" THEN walletIn.account ELSE @])
  /\ UNCHANGED <<composed, surroundings, ledgerVars>>

\* getPublicKey(), for the source
GetSource(c) ==
  /\ Awaiting(c, "source")
  /\ GoOn(c, [vaultCalls[c] EXCEPT !.source = walletIn.account])
  /\ UNCHANGED <<composed, surroundings, ledgerVars>>

\* simulateReadOnly(): the call throws if the amount is out of its bound.
Preview(c) ==
  /\ Awaiting(c, "preview") /\ rateIsGood
  /\ GoOn(c, [vaultCalls[c] EXCEPT !.previewed = TRUE])
  /\ UNCHANGED <<composed, surroundings, ledgerVars>>

\* validateNetworks()
ValidateNetworks(c) ==
  /\ Awaiting(c, "network") /\ walletIn.sameNetwork
  /\ GoOn(c, vaultCalls[c])
  /\ UNCHANGED <<composed, surroundings, ledgerVars>>

\* buildTransaction(): without the network the account is of the cache, which may
\* be one ahead.  (One that is behind makes a transaction that is never taken.)
GetAccount(c) ==
  /\ Awaiting(c, "account")
  /\ \E ahead \in {1, 2} :
       GoOn(c, [vaultCalls[c] EXCEPT !.number = ledgerNumbers[vaultCalls[c].source] + ahead])
  /\ UNCHANGED <<composed, surroundings, ledgerVars>>

\* simulateTransaction() and prepareTransaction() have succeeded.
Simulate(c) ==
  /\ Awaiting(c, "simulate")
  /\ GoOn(c, vaultCalls[c])
  /\ UNCHANGED <<composed, surroundings, ledgerVars>>

\* The wallet signs, for the client's network, as the account it is switched to.
Sign(c) ==
  /\ Awaiting(c, "sign")
  /\ GoOn(c, [vaultCalls[c] EXCEPT !.signer = walletIn.account])
  /\ UNCHANGED <<composed, surroundings, ledgerVars>>

\* sendTransaction(): an answer that is an error is polled for like another.
Send(c) ==
  /\ Awaiting(c, "send")
  /\ GoOn(c, vaultCalls[c])
  /\ mempool' \in {mempool, mempool \cup {c}}
  /\ UNCHANGED <<composed, surroundings, ledgerNumbers, settled>>

\* The ledger takes the transaction, or never will.
LedgerTakes(c) ==
  /\ c \in mempool
  /\ mempool' = mempool \ {c}
  /\ LET call == vaultCalls[c]
     IN  IF call.signer = call.source /\ call.number = ledgerNumbers[call.source] + 1
         THEN /\ ledgerNumbers' = [ledgerNumbers EXCEPT ![call.source] = @ + 1]
              /\ settled' = Append(settled, c)
         ELSE UNCHANGED <<ledgerNumbers, settled>>
  /\ UNCHANGED <<vaultCalls, composed, surroundings>>

\* pollTransaction() has found the transaction.
PollFinds(c) ==
  /\ Awaiting(c, "poll") /\ Contains(settled, c)
  /\ GoOn(c, [vaultCalls[c] EXCEPT !.outcome = "returned"])
  /\ UNCHANGED <<composed, surroundings, ledgerVars>>

\* With a builder the operation is added, and the builder returned.
Compose(c) ==
  /\ Awaiting(c, "compose")
  /\ vaultCalls' = [vaultCalls EXCEPT ![c] = [NoVaultCall EXCEPT !.outcome = "returned"]]
  /\ composed' = Append(composed, c)
  /\ UNCHANGED <<surroundings, ledgerVars>>

\* An await has failed: a preview or network that does not fit, the simulation,
\* the user, the RPC - which may have the transaction - or the time to poll.  What
\* the call knew is gone, unless its transaction is on its way.
CallThrows(c) ==
  /\ vaultCalls[c].todo # <<>> /\ ~Awaiting(c, "compose")
  /\ \E left \in SUBSET {c} :
       /\ left = {} \/ Awaiting(c, "send")
       /\ mempool' = mempool \cup left
  /\ LET sent == c \in mempool' \/ Contains(settled, c)
     IN  vaultCalls' = [vaultCalls EXCEPT ![c] =
           [(IF sent THEN @ ELSE NoVaultCall) EXCEPT !.todo = <<>>, !.outcome = "thrown"]]
  /\ UNCHANGED <<composed, surroundings, ledgerNumbers, settled>>

\* The user switches the wallet, or the vault's rate moves.
SwitchAccount(account) ==
  /\ switches < MaxSwitches /\ switches' = switches + 1
  /\ account # walletIn.account /\ walletIn' = [walletIn EXCEPT !.account = account]
  /\ vaultCalls' = [c \in VaultCallers |->
       [vaultCalls[c] EXCEPT !.switched = @ \/ vaultCalls[c].todo # <<>>]]
  /\ UNCHANGED <<composed, rateIsGood, ledgerVars>>

SwitchNetwork ==
  /\ switches < MaxSwitches /\ switches' = switches + 1
  /\ walletIn' = [walletIn EXCEPT !.sameNetwork = ~@]
  /\ UNCHANGED <<vaultCalls, composed, rateIsGood, ledgerVars>>

MoveRate ==
  /\ switches < MaxSwitches /\ switches' = switches + 1
  /\ rateIsGood' = ~rateIsGood
  /\ UNCHANGED <<vaultCalls, composed, walletIn, ledgerVars>>

VaultNext ==
  \/ \E c \in VaultCallers :
       \/ \E kind \in {"deposit", "withdraw", "claim"}, path \in {"standard", "auth", "builder"},
             bounded, given \in BOOLEAN : CallVault(c, kind, path, bounded, given)
       \/ GetParty(c) \/ GetSource(c) \/ Preview(c) \/ ValidateNetworks(c) \/ GetAccount(c)
       \/ Simulate(c) \/ Sign(c) \/ Send(c) \/ LedgerTakes(c) \/ PollFinds(c) \/ Compose(c)
       \/ CallThrows(c)
  \/ \E account \in WalletAccounts : SwitchAccount(account)
  \/ SwitchNetwork \/ MoveRate

VaultSpec == VaultInit /\ [][VaultNext]_vaultVars

-----------------------------------------------------------------------------
(* Properties *)

VaultTypeOK ==
  /\ mempool \subseteq VaultCallers /\ Range(settled) \subseteq VaultCallers
  /\ \A c \in VaultCallers :
       /\ vaultCalls[c].outcome \in {"none", "returned", "thrown"}
       /\ {vaultCalls[c].party, vaultCalls[c].source} \subseteq WalletAccounts \cup {NoAccount}

(* What a vault call comes to can be told from the ledger.  A call returns only
   when its transaction was settled, once, or its operation is in the builder;
   one that threw before the wallet had signed left nothing behind.  What is
   settled had, if the call gave a bound, a simulated amount within it; was
   signed for the account it is from; and moves the funds of that account to
   itself, unless the party was given or the user switched accounts meanwhile.
   Calls that took the same number are not both settled.
   (packages/core/src/contracts/VaultContract.ts:130-199, BaseContract.ts:97-168;
    packages/core/src/transaction/transactionSigner.ts:168-214) *)
VaultCallsAreGuarded ==
  /\ \A c \in VaultCallers : vaultCalls[c].outcome = "returned" =>
       Contains(settled, c) # Contains(composed, c)
  /\ \A i \in DOMAIN settled :
       LET call == vaultCalls[settled[i]]
       IN  /\ call.signer = call.source
           /\ call.bounded => call.previewed
           /\ call.kind # "claim" /\ ~call.given /\ ~call.switched => call.party = call.source
           /\ \A j \in DOMAIN settled :
                LET other == vaultCalls[settled[j]]
                IN  other.source = call.source /\ other.number = call.number => i = j
=============================================================================
