--------------------------- MODULE WalletDetection ---------------------------
(***************************************************************************)
(* WalletProvider of wallet-integration-203: the wallet a page is          *)
(* connected to, which is kept in localStorage too, and its balance, which *)
(* is fetched anew whenever the wallet, its account or its chain changes.  *)
(* All Ethereum wallets share one provider and its events; a Solana wallet *)
(* has one of its own, without events.                                     *)
(*                                                                         *)
(* A balance is known by the fetch that brought it; transactions come with *)
(* it.  React renders, and so replaces the handlers of the events, before  *)
(* the next event; what a handler has captured when it asks for the chain  *)
(* stays as it was.  The page has an Ethereum provider.                    *)
(***************************************************************************)
EXTENDS Integers, FiniteSets

CONSTANTS
  EthAccounts, SolAccount,
  EthChains,
  NoWallet,       \* null
  MaxFetches,     \* bounds on fetches,
  MaxConnects,    \*   connections,
  MaxEvents       \*   and the events of the Ethereum provider

ASSUME DetectionAssumption ==
  /\ SolAccount \notin EthAccounts /\ EthAccounts # {} /\ EthChains # {}
  /\ NoWallet \notin EthAccounts \cup {SolAccount} /\ "solana" \notin EthChains
  /\ MaxFetches \in Nat \ {0} /\ {MaxConnects, MaxEvents} \subseteq Nat

VARIABLES
  provider,    \* the Ethereum provider: its account and chain, and the number of its events
  connected, stored, \* the wallet that is shown and the one in localStorage
  kept,        \* history: localStorage took the last that was to be done to it
  connects,    \* wallets connect() waits for, and the number of calls made
  connecting, failed, \* `connecting' and `error'
  restoring,   \* the wallet found in localStorage, while the provider is asked for its accounts
  chainAsked,  \* the wallets captured by handlers that wait for the chain
  fetching,    \* fetches in flight
  fetches,     \* number of fetches so far
  loadingChain, balance

detectionVars == <<provider, connected, stored, kept, connects, connecting, failed, restoring,
                   chainAsked, fetching, fetches, loadingChain, balance>>

WalletIds == {"metamask", "phantom"}
EthWallet(account, chain) == [id |-> "metamask", account |-> account, chain |-> chain]
SolWallet == [id |-> "phantom", account |-> SolAccount, chain |-> "solana"]

SetProvider(account, chain) ==
  provider' = [account |-> account, chain |-> chain, events |-> provider.events + 1]

\* fetchOnChainData(); `late' is history: the wallet is not the one that is shown.
StartFetch(wallet, late) ==
  /\ fetches < MaxFetches /\ fetches' = fetches + 1
  /\ fetching' = fetching \cup {[number |-> fetches + 1, account |-> wallet.account, late |-> late]}
  /\ loadingChain' = TRUE

\* The effects of the first rendering
DetectionInit ==
  LET account == CHOOSE a \in EthAccounts : TRUE
      chain == CHOOSE c \in EthChains : TRUE
  IN  /\ provider = [account |-> account, chain |-> chain, events |-> 0]
      /\ stored \in {NoWallet, SolWallet} \cup {EthWallet(a, chain) : a \in EthAccounts}
      /\ connected \in {stored, NoWallet} \* It may not be readable.
      /\ kept = (connected = stored)
      /\ connects = [waiting |-> {}, made |-> 0] /\ connecting = "none" /\ failed = FALSE
      /\ chainAsked = {} /\ balance = [number |-> 0, account |-> NoWallet, late |-> FALSE]
      /\ restoring = (IF connected \in {NoWallet, SolWallet} THEN NoWallet ELSE connected)
      /\ fetches = (IF connected = SolWallet THEN 1 ELSE 0)
      /\ fetching = (IF connected = SolWallet
                     THEN {[number |-> 1, account |-> SolAccount, late |-> FALSE]} ELSE {})
      /\ loadingChain = (connected = SolWallet)

\* The accounts are there: the balance is fetched if the restored wallet's is one.
RestoreAnswered ==
  /\ restoring # NoWallet /\ restoring' = NoWallet
  /\ IF provider.account = restoring.account THEN StartFetch(restoring, connected # restoring)
     ELSE UNCHANGED <<fetching, fetches, loadingChain>>
  /\ UNCHANGED <<provider, connected, stored, kept, connects, connecting, failed, chainAsked, balance>>

ConnectWallet(id) ==
  /\ id \notin connects.waiting /\ connects.made < MaxConnects
  /\ connects' = [waiting |-> connects.waiting \cup {id}, made |-> connects.made + 1]
  /\ connecting' = id /\ failed' = FALSE
  /\ UNCHANGED <<provider, connected, stored, kept, restoring, chainAsked, fetching, fetches,
                 loadingChain, balance>>

\* persistWallet() and clearPersistedWallet(), which say nothing of a failure
Store(wallet) ==
  \E written \in BOOLEAN :
    kept' = written /\ stored' = IF written THEN wallet ELSE stored

\* Mutant: the wallet is not written down.
ShowOnly(wallet) == connected' = wallet /\ UNCHANGED <<stored, kept>>

\* setConnected() with persistWallet()
ShowAndStore(wallet) == connected' = wallet /\ Store(wallet)

\* The user gives access to the account; the chain is the one of that moment.
ConnectSucceeds(id) ==
  /\ id \in connects.waiting
  /\ \E a \in EthAccounts :
       LET wallet == IF id = "phantom" THEN SolWallet ELSE EthWallet(a, provider.chain)
       IN  /\ provider.account \in {a, NoWallet}
           /\ provider' = IF id = "phantom" THEN provider ELSE [provider EXCEPT !.account = a]
           /\ ShowAndStore(wallet) /\ StartFetch(wallet, FALSE)
  /\ connects' = [connects EXCEPT !.waiting = @ \ {id}] /\ connecting' = "none"
  /\ UNCHANGED <<failed, restoring, chainAsked, balance>>

ConnectFails(id) ==
  /\ id \in connects.waiting
  /\ connects' = [connects EXCEPT !.waiting = @ \ {id}] /\ connecting' = "none" /\ failed' = TRUE
  /\ UNCHANGED <<provider, connected, stored, kept, restoring, chainAsked, fetching, fetches,
                 loadingChain, balance>>

Forget ==
  /\ connected' = NoWallet /\ Store(NoWallet) /\ failed' = FALSE
  /\ balance' = [number |-> 0, account |-> NoWallet, late |-> FALSE]

DisconnectWallet ==
  /\ connected # NoWallet /\ Forget
  /\ UNCHANGED <<provider, connects, connecting, restoring, chainAsked, fetching, fetches,
                 loadingChain>>

\* Mutant: the balance stays that of the account before.
ShowOtherAccount(account) ==
  /\ ShowAndStore([connected EXCEPT !.account = account])
  /\ UNCHANGED <<fetching, fetches, loadingChain>>

\* Whatever wallet is connected, it gets the account.
UseAccount(account) ==
  /\ ShowAndStore([connected EXCEPT !.account = account])
  /\ StartFetch([connected EXCEPT !.account = account], FALSE)

\* handleAccountsChanged()
AccountsChanged(account) ==
  /\ provider.events < MaxEvents /\ account # provider.account
  /\ SetProvider(account, provider.chain)
  /\ IF account = NoWallet THEN Forget /\ UNCHANGED <<fetching, fetches, loadingChain>>
     ELSE /\ UNCHANGED <<failed, balance>>
          /\ IF connected = NoWallet
             THEN UNCHANGED <<connected, stored, kept, fetching, fetches, loadingChain>>
             ELSE UseAccount(account)
  /\ UNCHANGED <<connects, connecting, restoring, chainAsked>>

\* handleChainChanged()
ChainChanged(chain) ==
  /\ provider.events < MaxEvents /\ chain # provider.chain
  /\ SetProvider(provider.account, chain)
  /\ chainAsked' = IF connected = NoWallet THEN chainAsked ELSE chainAsked \cup {connected}
  /\ UNCHANGED <<connected, stored, kept, connects, connecting, failed, restoring, fetching, fetches,
                 loadingChain, balance>>

\* and its answer, which shows the wallet of that time again.
ChainAnswered(wallet) ==
  /\ wallet \in chainAsked /\ chainAsked' = chainAsked \ {wallet}
  /\ ShowAndStore([wallet EXCEPT !.chain = provider.chain])
  /\ StartFetch(wallet, FALSE)
  /\ UNCHANGED <<provider, connects, connecting, failed, restoring, balance>>

\* A fetch brings a balance, or none that could be read.
FetchEnds(fetch, brings) ==
  /\ fetch \in fetching /\ fetching' = fetching \ {fetch}
  /\ loadingChain' = FALSE
  /\ balance' = IF brings THEN fetch ELSE balance
  /\ UNCHANGED <<provider, connected, stored, kept, connects, connecting, failed, restoring, chainAsked,
                 fetches>>

DetectionNext ==
  \/ RestoreAnswered \/ DisconnectWallet
  \/ \E id \in WalletIds : ConnectWallet(id) \/ ConnectSucceeds(id) \/ ConnectFails(id)
  \/ \E account \in EthAccounts \cup {NoWallet} : AccountsChanged(account)
  \/ \E chain \in EthChains : ChainChanged(chain)
  \/ \E wallet \in chainAsked : ChainAnswered(wallet)
  \/ \E fetch \in fetching, brings \in BOOLEAN : FetchEnds(fetch, brings)

DetectionSpec == DetectionInit /\ [][DetectionNext]_detectionVars

-----------------------------------------------------------------------------
(* Properties *)

DetectionTypeOK ==
  /\ fetches \in 0..MaxFetches /\ balance.number \in 0..fetches
  /\ connecting \in WalletIds \cup {"none"} /\ loadingChain \in BOOLEAN

(* The wallet that is shown is the one a reload of the page would restore, unless
   localStorage failed when it was to take that wallet, or to give it up.  The
   balance shown by the newest fetch is that of the account shown, unless the
   fetch was for the wallet restored, and came after the user had chosen another.
   `Loading' and `connecting' are shown only while something is in flight.
   (src/wallet-integration-203/src/hooks/useWalletDetection.jsx:147-173, 193-325) *)
DetectionTellsTruth ==
  /\ kept => stored = connected
  /\ connected # NoWallet /\ balance.number = fetches /\ balance.number > 0 /\ ~balance.late
       => balance.account = connected.account
  /\ loadingChain => fetching # {}
  /\ connecting # "none" => connecting \in connects.waiting
=============================================================================
