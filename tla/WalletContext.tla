---------------------------- MODULE WalletContext ----------------------------
(***************************************************************************)
(* packages/react's AxionveraProvider: the wallet the hooks show.  It is   *)
(* read when the provider mounts, on connect() and refresh() and when the  *)
(* window gets the focus, and a watcher of the Freighter extension reports *)
(* its changes.  Reads run together, each in several requests, and all of  *)
(* them and the watcher set the same state.                                *)
(*                                                                         *)
(* `connectorKind' says what the page has: the Freighter connector with    *)
(* its extension "installed", "absent", or with its module "broken", or a  *)
(* connector of the application's "own".  The extension has isConnected,   *)
(* isAllowed, requestAccess and getAddress.  The address of an extension   *)
(* that gave no permission reads as none.  React ignores what is set once  *)
(* the provider is unmounted, so the reads in flight are over with it.     *)
(***************************************************************************)
EXTENDS Integers, FiniteSets

CONSTANTS
  Reads,       \* calls of connect() and refresh()
  Accounts,
  NoAddress,   \* null
  MaxChanges   \* bound on the changes of the extension's account and permission

ASSUME WalletContextAssumption ==
  /\ Reads # {} /\ Accounts # {} /\ NoAddress \notin Accounts /\ MaxChanges \in Nat
  /\ (Accounts \cup {NoAddress}) \cap {"none", "error", "unavailable", "denied"} = {}

VARIABLES
  connectorKind,
  mounted,
  extension,   \* its account and whether the page is allowed, and the number of changes
  shownWallet, \* walletState
  walletReads, \* the calls in flight, and the answers that wait for them
  watcher,     \* "none", "loading", "on" or "stopped"
  reported,    \* the change of the extension the watcher reported last
  newest,      \* the last change of the extension that anything was shown of
  overtaken    \* whether what is shown was read before something shown earlier

walletVars == <<connectorKind, mounted, extension, shownWallet, walletReads, watcher, reported,
                newest, overtaken>>

ViaFreighter == connectorKind # "own"
AddressNow == IF extension.allowed \/ ~ViaFreighter THEN extension.account ELSE NoAddress

NoRead == [stage |-> "none", access |-> FALSE, answer |-> "none", at |-> 0]
ReadsInFlight == {r \in Reads : walletReads[r].stage # "none"}

\* As the provider mounts.  The first refresh and the watcher's module are under
\* way; reads are alike, and so are accounts.
WalletInit ==
  /\ connectorKind \in {"installed", "absent", "broken", "own"} /\ mounted = TRUE
  /\ extension \in [account : {CHOOSE a \in Accounts : TRUE}, allowed : BOOLEAN, changes : {0}]
  /\ shownWallet = [publicKey |-> NoAddress, available |-> TRUE, connected |-> FALSE,
                    loading |-> TRUE, error |-> FALSE]
  /\ walletReads = [r \in Reads |->
                      IF r = CHOOSE first \in Reads : TRUE
                      THEN [NoRead EXCEPT !.stage = IF ViaFreighter THEN "availability"
                                                    ELSE "address"]
                      ELSE NoRead]
  /\ watcher = (IF ViaFreighter THEN "loading" ELSE "none")
  /\ reported = -1 /\ newest = 0 /\ overtaken = FALSE

\* updateWalletState() with all fields, of what was read after the change `at'.
Show(publicKey, available, error, at) ==
  /\ shownWallet' = [publicKey |-> publicKey, available |-> available,
                     connected |-> publicKey # NoAddress, loading |-> FALSE, error |-> error]
  /\ overtaken' = (at < newest)
  /\ newest' = IF at > newest THEN at ELSE newest

\* connectWallet() and refreshWallet(), by the application or, in the case of the
\* latter, a focus event.
StartRead(r, access) ==
  /\ mounted /\ walletReads[r].stage = "none"
  /\ shownWallet' = [shownWallet EXCEPT !.loading = TRUE]
  /\ walletReads' = [walletReads EXCEPT ![r] =
       [NoRead EXCEPT !.stage = IF ViaFreighter THEN "availability" ELSE "address",
                      !.access = access]]
  /\ UNCHANGED <<connectorKind, mounted, extension, watcher, reported, newest, overtaken>>

\* What a request of a read is answered: "error" if the extension reports one, or
\* the user declines to give access.
Answers(r) ==
  LET read == walletReads[r]
  IN  IF read.stage = "address"
      THEN {"error"} \cup (IF read.access THEN {extension.account} ELSE {AddressNow})
      ELSE IF connectorKind \in {"absent", "broken"} THEN {"unavailable"}
      ELSE {"error", IF extension.allowed THEN "allowed" ELSE "denied"}

\* The wallet answers a request; access that was given is kept.  An answer that
\* lets readWalletState() ask for the address does so.
WalletAnswers(r) ==
  LET read == walletReads[r]
      grants(answer) == read.stage = "address" /\ read.access /\ answer # "error"
                        /\ ViaFreighter /\ ~extension.allowed
      goesOn(answer) == read.stage = "availability"
                        /\ (answer = "allowed" \/ (answer = "denied" /\ read.access))
  IN  /\ read.stage # "none" /\ read.answer = "none"
      /\ \E answer \in Answers(r) :
           /\ grants(answer) => extension.changes < MaxChanges
           /\ extension' = IF grants(answer)
                           THEN [extension EXCEPT !.allowed = TRUE, !.changes = @ + 1]
                           ELSE extension
           /\ walletReads' = [walletReads EXCEPT ![r] =
                IF goesOn(answer) THEN [read EXCEPT !.stage = "address"]
                ELSE [read EXCEPT !.answer = answer, !.at = extension'.changes]]
      /\ UNCHANGED <<connectorKind, mounted, shownWallet, watcher, reported, newest, overtaken>>

\* Mutant: a refresh that fails leaves what was shown.
KeepOnError(r) ==
  LET read == walletReads[r]
  IN  CASE read.answer = "error" ->
             /\ shownWallet' = [shownWallet EXCEPT !.error = TRUE]
             /\ UNCHANGED <<newest, overtaken>>
        [] read.answer \in {"unavailable", "denied"} ->
             Show(NoAddress, read.answer = "denied", FALSE, read.at)
        [] OTHER -> Show(read.answer, TRUE, FALSE, read.at)

\* The return of connectWallet() or refreshWallet(), or its catch
ShowAnswer(r) ==
  LET read == walletReads[r]
  IN  IF read.answer = "error" THEN Show(NoAddress, TRUE, TRUE, read.at)
      ELSE IF read.answer \in {"unavailable", "denied"}
           THEN Show(NoAddress, read.answer = "denied", FALSE, read.at)
           ELSE Show(read.answer, TRUE, FALSE, read.at)

EndRead(r) ==
  /\ walletReads[r].answer # "none"
  /\ ShowAnswer(r)
  /\ walletReads' = [walletReads EXCEPT ![r] = NoRead]
  /\ UNCHANGED <<connectorKind, mounted, extension, watcher, reported>>

\* Mutant: a watcher is started for a provider that has gone.
WatchAnyway == "on"

WatchIfMounted == IF mounted THEN "on" ELSE "none"

\* The module is loaded, and the watcher started
WatcherLoads ==
  /\ watcher = "loading" /\ connectorKind # "broken"
  /\ watcher' = WatchIfMounted
  /\ UNCHANGED <<connectorKind, mounted, extension, shownWallet, walletReads, reported,
                 newest, overtaken>>

\* or it cannot be: a part of the state is set, whatever reads are in flight.
WatcherFails ==
  /\ watcher = "loading" /\ connectorKind = "broken"
  /\ watcher' = "none"
  /\ shownWallet' = IF mounted THEN [shownWallet EXCEPT !.available = FALSE, !.loading = FALSE,
                                                        !.error = FALSE]
                    ELSE shownWallet
  /\ UNCHANGED <<connectorKind, mounted, extension, walletReads, reported, newest, overtaken>>

\* The watcher finds a change, and calls back.
WatcherReports ==
  /\ watcher = "on" /\ connectorKind = "installed" /\ reported # extension.changes
  /\ reported' = extension.changes
  /\ Show(AddressNow, TRUE, FALSE, extension.changes)
  /\ UNCHANGED <<connectorKind, mounted, extension, walletReads, watcher>>

\* The cleanup of the effect
Unmount ==
  /\ mounted /\ mounted' = FALSE
  /\ walletReads' = [r \in Reads |-> NoRead]
  /\ watcher' = IF watcher = "on" THEN "stopped" ELSE watcher
  /\ UNCHANGED <<connectorKind, extension, shownWallet, reported, newest, overtaken>>

\* The user selects another account, or takes the permission back, which nobody
\* looks at once the provider is unmounted.
SelectAccount(a) ==
  /\ mounted /\ extension.changes < MaxChanges /\ a # extension.account
  /\ extension' = [extension EXCEPT !.account = a, !.changes = @ + 1]
  /\ UNCHANGED <<connectorKind, mounted, shownWallet, walletReads, watcher, reported,
                 newest, overtaken>>

Revoke ==
  /\ mounted /\ extension.changes < MaxChanges /\ extension.allowed
  /\ extension' = [extension EXCEPT !.allowed = FALSE, !.changes = @ + 1]
  /\ UNCHANGED <<connectorKind, mounted, shownWallet, walletReads, watcher, reported,
                 newest, overtaken>>

WalletNext ==
  \/ \E r \in Reads :
       \/ \E access \in BOOLEAN : StartRead(r, access)
       \/ WalletAnswers(r) \/ EndRead(r)
  \/ WatcherLoads \/ WatcherFails \/ WatcherReports \/ Unmount \/ Revoke
  \/ \E a \in Accounts : SelectAccount(a)

WalletSpec == WalletInit /\ [][WalletNext]_walletVars

-----------------------------------------------------------------------------
(* Properties *)

WalletTypeOK ==
  /\ watcher \in {"none", "loading", "on", "stopped"} /\ reported \in -1..MaxChanges
  /\ shownWallet.publicKey \in Accounts \cup {NoAddress} /\ newest \in 0..MaxChanges

(* Once the reads are over and the watcher has reported the extension's last
   change, the hooks show the account the extension gives to the page, unless
   the last read failed, or was answered before what was shown and ended after
   it.  `Loading' is only shown while a wallet is read, a wallet that is not
   there is never connected, and no watcher outlives the provider.
   (packages/react/src/index.ts:131-190, 193-264) *)
WalletContextTellsTruth ==
  /\ mounted /\ ReadsInFlight = {} /\ watcher = "on" /\ reported = extension.changes =>
       shownWallet.publicKey = AddressNow \/ shownWallet.error \/ overtaken
  /\ mounted /\ shownWallet.loading => ReadsInFlight # {}
  /\ shownWallet.connected => shownWallet.available /\ shownWallet.publicKey # NoAddress
  /\ ~mounted => watcher # "on"
=============================================================================
