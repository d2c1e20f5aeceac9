------------------------------ MODULE VaultProofs ------------------------------
(***************************************************************************)
(* Theorems about the components that call the vault, follow its calls or  *)
(* try them out: UseVault, BatchTransactions, OfflinePackages, VaultCalls, *)
(* ValidatedVault, WalletContext, WalletDetection and Simulations, each    *)
(* for any values of its constants.                                        *)
(***************************************************************************)
EXTENDS UseVault, BatchTransactions, OfflinePackages, VaultCalls, ValidatedVault,
        WalletContext, WalletDetection, Simulations, FiniteSetTheorems, SequenceTheorems,
        WellFoundedInduction, TLAPS

-----------------------------------------------------------------------------
(* The hook useVault() *)

HookTyping ==
  /\ hookState \in [step : {"idle", "submitted", "confirmed"}, isLoading : BOOLEAN,
                    error : BOOLEAN, txHash : HookCalls \cup {NoHash}]
  /\ hookCalls \in [HookCalls -> {"none", "acting", "polling", "sleeping", "failed", "confirmed"}]
  /\ chain \in [HookCalls -> {"none", "pending", "SUCCESS", "FAILED"}]
  /\ succeeded \subseteq HookCalls /\ crossed \in BOOLEAN

\* A call that was not submitted has no transaction.
NothingEarly == \A c \in HookCalls : hookCalls[c] \in {"none", "acting"} => chain[c] = "none"

\* What the hook shows of the one call in flight
ShowsTheCall ==
  /\ \A c, d \in InFlight : c = d
  /\ \A c \in HookCalls : hookCalls[c] \in {"polling", "sleeping"} => hookState.txHash = c
  /\ hookState.isLoading <=> InFlight # {}
  /\ hookState.step = "confirmed" => hookState.txHash \in succeeded
  /\ hookState.step = "submitted" => hookState.txHash \in InFlight
  /\ hookState.error => InFlight = {} /\ hookState.step = "idle"

HookIInv ==
  /\ HookTyping
  /\ NothingEarly
  /\ \A c \in succeeded : chain[c] = "SUCCESS"
  /\ InFlight = {} => ~hookState.isLoading
  /\ ~crossed => ShowsTheCall

LEMMA HookInvInit == HookInit => HookIInv
<1> SUFFICES ASSUME HookInit PROVE HookIInv
  OBVIOUS
<1>1. HookTyping /\ NothingEarly
  BY DEF HookInit, HookTyping, NothingEarly, Quiet
<1>2. InFlight = {}
  BY DEF HookInit, InFlight
<1>3. ShowsTheCall
  BY <1>2 DEF ShowsTheCall, HookInit, Quiet
<1>4. QED
  BY <1>1, <1>2, <1>3 DEF HookIInv, HookInit, Quiet

\* How a step of one call changes who is in flight.
LEMMA OneCallMoves ==
  ASSUME HookTyping, NEW c \in HookCalls, NEW to, hookCalls' = [hookCalls EXCEPT ![c] = to]
  PROVE  /\ hookCalls'[c] = to /\ \A d \in HookCalls : d # c => hookCalls'[d] = hookCalls[d]
         /\ to \in {"acting", "polling", "sleeping"} => InFlight' = InFlight \cup {c}
         /\ to \in {"failed", "confirmed"} => InFlight' = InFlight \ {c}
<1>1. /\ hookCalls'[c] = to /\ \A d \in HookCalls : d # c => hookCalls'[d] = hookCalls[d]
  BY DEF HookTyping
<1>2. QED
  BY <1>1 DEF InFlight

LEMMA HookExecuteKeeps ==
  ASSUME HookIInv, NEW c \in HookCalls, Execute(c)
  PROVE  HookIInv'
<1>1. /\ HookTyping /\ NothingEarly /\ chain' = chain /\ succeeded' = succeeded
      /\ \A d \in succeeded : chain[d] = "SUCCESS"
      /\ hookCalls' = [hookCalls EXCEPT ![c] = "acting"] /\ hookCalls[c] = "none"
  BY DEF HookIInv, Execute
<1>2. InFlight' = InFlight \cup {c}
  BY <1>1, OneCallMoves
<1>3. HookTyping'
  BY <1>1 DEF Execute, HookTyping, Quiet
<1>4. NothingEarly'
  BY <1>1, OneCallMoves DEF NothingEarly
<1>5. ~crossed' => ShowsTheCall'
  <2> SUFFICES ASSUME ~crossed' PROVE ShowsTheCall'
    OBVIOUS
  <2>1. InFlight = {} /\ ~crossed
    BY DEF Execute
  <2>2. hookState' = [step |-> "idle", isLoading |-> TRUE, error |-> FALSE, txHash |-> NoHash]
    BY DEF Execute, Quiet
  <2>3. \A d \in HookCalls : hookCalls'[d] \notin {"polling", "sleeping"}
    BY <1>1, <2>1, OneCallMoves DEF InFlight
  <2>4. QED
    BY <1>2, <2>1, <2>2, <2>3 DEF ShowsTheCall
<1>6. QED
  BY <1>1, <1>2, <1>3, <1>4, <1>5 DEF HookIInv

LEMMA ActionReturnsKeeps ==
  ASSUME HookIInv, NEW c \in HookCalls, ActionReturns(c)
  PROVE  HookIInv'
<1>1. /\ HookTyping /\ NothingEarly /\ succeeded' = succeeded /\ crossed' = crossed
      /\ \A d \in succeeded : chain[d] = "SUCCESS"
      /\ hookCalls' = [hookCalls EXCEPT ![c] = "polling"] /\ hookCalls[c] = "acting"
      /\ chain' = [chain EXCEPT ![c] = "pending"]
      /\ hookState' = [hookState EXCEPT !.step = "submitted", !.txHash = c]
  BY DEF HookIInv, ActionReturns
<1>2. InFlight' = InFlight \cup {c} /\ c \in InFlight
  BY <1>1, OneCallMoves DEF InFlight
<1>3. HookTyping'
  BY <1>1 DEF HookTyping
<1>4. NothingEarly'
  BY <1>1, OneCallMoves DEF NothingEarly, HookTyping
<1>5. \A d \in succeeded' : chain'[d] = "SUCCESS"
  <2>1. chain[c] = "none"
    BY <1>1 DEF NothingEarly
  <2>2. c \notin succeeded
    BY <1>1, <2>1
  <2>3. QED
    BY <1>1, <2>2 DEF HookTyping
<1>6. /\ hookState'.step = "submitted" /\ hookState'.txHash = c
      /\ hookState'.isLoading = hookState.isLoading /\ hookState'.error = hookState.error
  BY <1>1 DEF HookTyping
<1>7. ~crossed' => ShowsTheCall'
  <2> SUFFICES ASSUME ~crossed PROVE ShowsTheCall'
    BY <1>1
  <2>1. ShowsTheCall
    BY DEF HookIInv
  <2>2. InFlight = {c} /\ InFlight' = {c}
    BY <1>2, <2>1 DEF ShowsTheCall
  <2>3. \A d \in HookCalls : hookCalls'[d] \in {"polling", "sleeping"} => d = c
    BY <2>2 DEF InFlight
  <2>4. hookState'.isLoading /\ ~hookState'.error
    BY <1>6, <2>1, <2>2 DEF ShowsTheCall, HookTyping
  <2>5. QED
    BY <1>6, <2>2, <2>3, <2>4 DEF ShowsTheCall
<1>8. InFlight' # {}
  BY <1>2
<1>9. QED
  BY <1>3, <1>4, <1>5, <1>7, <1>8 DEF HookIInv

\* The end of a call, with success or without
LEMMA SettleKeeps ==
  ASSUME HookIInv, NEW c \in HookCalls, NEW failed2 \in BOOLEAN,
          hookCalls[c] \in {"acting", "polling", "sleeping"},
         ~failed2 => hookCalls[c] = "polling" /\ chain[c] = "SUCCESS",
         hookState' = Settle(failed2), chain' = chain, crossed' = crossed,
         hookCalls' = [hookCalls EXCEPT ![c] = IF failed2 THEN "failed" ELSE "confirmed"],
         succeeded' = IF failed2 THEN succeeded ELSE succeeded \cup {c}
  PROVE  HookIInv'
<1>1. /\ HookTyping /\ NothingEarly /\ \A d \in succeeded : chain[d] = "SUCCESS"
  BY DEF HookIInv
<1>2. PICK to \in {"failed", "confirmed"} :
        to = (IF failed2 THEN "failed" ELSE "confirmed") /\ hookCalls' = [hookCalls EXCEPT ![c] = to]
  OBVIOUS
<1>3. /\ InFlight' = InFlight \ {c} /\ c \in InFlight /\ hookCalls'[c] = to
      /\ \A d \in HookCalls : d # c => hookCalls'[d] = hookCalls[d]
  BY <1>1, <1>2, OneCallMoves DEF InFlight
<1>4. HookTyping'
  BY <1>1, <1>2 DEF HookTyping, Settle
<1>5. NothingEarly' /\ \A d \in succeeded' : chain'[d] = "SUCCESS"
  BY <1>1, <1>2, <1>3 DEF NothingEarly
<1>6. /\ hookState'.step = (IF failed2 THEN "idle" ELSE "confirmed")
      /\ hookState'.txHash = hookState.txHash
      /\ hookState'.isLoading = FALSE
      /\ hookState'.error = (failed2 \/ hookState.error)
  BY <1>1 DEF HookTyping, Settle
<1>7. ~crossed' => ShowsTheCall'
  <2> SUFFICES ASSUME ~crossed PROVE ShowsTheCall'
    OBVIOUS
  <2>1. ShowsTheCall
    BY DEF HookIInv
  <2>2. InFlight' = {}
    BY <1>3, <2>1 DEF ShowsTheCall
  <2>3. \A d \in HookCalls : hookCalls'[d] \notin {"polling", "sleeping"}
    BY <2>2 DEF InFlight
  <2>4. ~hookState.error
    BY <1>3, <2>1 DEF ShowsTheCall
  <2>5. ~failed2 => hookState'.txHash \in succeeded'
    BY <1>6, <2>1 DEF ShowsTheCall
  <2>6. QED
    BY <1>6, <2>2, <2>3, <2>4, <2>5 DEF ShowsTheCall
<1>8. QED
  BY <1>4, <1>5, <1>6, <1>7 DEF HookIInv

\* The other steps leave what is shown, and who is in flight.
LEMMA PollKeeps ==
  ASSUME HookIInv, NEW c \in HookCalls, PollFindsNothing(c) \/ PollAgain(c) \/ ChainDecides(c)
  PROVE  HookIInv'
<1>1. /\ HookTyping /\ NothingEarly /\ \A d \in succeeded : chain[d] = "SUCCESS"
      /\ hookState' = hookState /\ succeeded' = succeeded /\ crossed' = crossed
  BY DEF HookIInv, PollFindsNothing, PollAgain, ChainDecides
<1>2. CASE PollFindsNothing(c) \/ PollAgain(c)
  <2>1. PICK to \in {"sleeping", "polling"} :
          hookCalls' = [hookCalls EXCEPT ![c] = to] /\ chain' = chain
          /\ hookCalls[c] \in {"sleeping", "polling"}
    BY <1>2 DEF PollFindsNothing, PollAgain
  <2>2. /\ InFlight' = InFlight \cup {c} /\ c \in InFlight /\ hookCalls'[c] = to
        /\ \A d \in HookCalls : d # c => hookCalls'[d] = hookCalls[d]
    BY <1>1, <2>1, OneCallMoves DEF InFlight
  <2>3. HookTyping'
    BY <1>1, <2>1 DEF HookTyping
  <2>4. NothingEarly'
    BY <1>1, <2>1, <2>2 DEF NothingEarly
  <2>5. InFlight' = InFlight
    BY <2>2
  <2>6. ~crossed => ShowsTheCall'
    BY <1>1, <2>1, <2>2, <2>5 DEF HookIInv, ShowsTheCall
  <2>7. QED
    BY <1>1, <2>1, <2>3, <2>4, <2>5, <2>6 DEF HookIInv
<1>3. CASE ChainDecides(c)
  <2>1. PICK status \in {"SUCCESS", "FAILED"} :
          chain' = [chain EXCEPT ![c] = status] /\ chain[c] = "pending" /\ hookCalls' = hookCalls
    BY <1>3 DEF ChainDecides
  <2>2. HookTyping' /\ NothingEarly' /\ \A d \in succeeded : chain'[d] = "SUCCESS"
    BY <1>1, <2>1 DEF HookTyping, NothingEarly
  <2>3. InFlight' = InFlight /\ (~crossed => ShowsTheCall')
    BY <1>1, <2>1 DEF InFlight, HookIInv, ShowsTheCall
  <2>4. QED
    BY <1>1, <2>2, <2>3 DEF HookIInv
<1>4. QED
  BY <1>2, <1>3

LEMMA ResetKeeps ==
  ASSUME HookIInv, Reset
  PROVE  HookIInv'
<1>1. /\ HookTyping /\ NothingEarly /\ \A d \in succeeded : chain[d] = "SUCCESS"
      /\ hookCalls' = hookCalls /\ chain' = chain /\ succeeded' = succeeded
      /\ hookState' = [step |-> "idle", isLoading |-> FALSE, error |-> FALSE, txHash |-> NoHash]
      /\ crossed' = (crossed \/ InFlight # {})
  BY DEF HookIInv, Reset, Quiet
<1>2. InFlight' = InFlight
  BY <1>1 DEF InFlight
<1>3. ~crossed' => ShowsTheCall'
  <2>1. ~crossed' => \A d \in HookCalls : hookCalls'[d] \notin {"polling", "sleeping"}
    BY <1>1 DEF InFlight
  <2>2. QED
    BY <1>1, <1>2, <2>1 DEF ShowsTheCall
<1>4. HookTyping' /\ NothingEarly'
  BY <1>1 DEF HookTyping, NothingEarly
<1>5. QED
  BY <1>1, <1>2, <1>3, <1>4 DEF HookIInv

LEMMA HookInvStep == HookIInv /\ [HookNext]_hookVars => HookIInv'
<1> SUFFICES ASSUME HookIInv, [HookNext]_hookVars PROVE HookIInv'
  OBVIOUS
<1>1. ASSUME NEW c \in HookCalls, Execute(c) PROVE HookIInv'
  BY <1>1, HookExecuteKeeps
<1>2. ASSUME NEW c \in HookCalls, ActionReturns(c) PROVE HookIInv'
  BY <1>2, ActionReturnsKeeps
<1>3. ASSUME NEW c \in HookCalls, Fails(c) PROVE HookIInv'
  <2>1. /\ hookCalls[c] \in {"acting", "polling", "sleeping"} /\ hookState' = Settle(TRUE)
        /\ chain' = chain /\ crossed' = crossed /\ succeeded' = succeeded
        /\ hookCalls' = [hookCalls EXCEPT ![c] = "failed"]
    BY <1>3 DEF Fails
  <2>2. QED
    BY <2>1, SettleKeeps
<1>4. ASSUME NEW c \in HookCalls, PollConfirms(c) PROVE HookIInv'
  <2>1. /\ hookCalls[c] = "polling" /\ chain[c] = "SUCCESS" /\ hookState' = Settle(FALSE)
        /\ chain' = chain /\ crossed' = crossed /\ succeeded' = succeeded \cup {c}
        /\ hookCalls' = [hookCalls EXCEPT ![c] = "confirmed"]
    BY <1>4 DEF PollConfirms
  <2>2. QED
    BY <2>1, SettleKeeps
<1>5. ASSUME NEW c \in HookCalls, PollFindsNothing(c) \/ PollAgain(c) \/ ChainDecides(c)
      PROVE  HookIInv'
  BY <1>5, PollKeeps
<1>6. CASE Reset
  BY <1>6, ResetKeeps
<1>7. CASE UNCHANGED hookVars
  <2>1. /\ hookState' = hookState /\ hookCalls' = hookCalls /\ chain' = chain
        /\ succeeded' = succeeded /\ crossed' = crossed
    BY <1>7 DEF hookVars
  <2>2. QED
    BY <2>1 DEF HookIInv, HookTyping, NothingEarly, InFlight, ShowsTheCall
<1>8. QED
  BY <1>1, <1>2, <1>3, <1>4, <1>5, <1>6, <1>7 DEF HookNext

LEMMA HookInvMeans == HookIInv => HookTypeOK /\ HookTellsTruth
BY DEF HookIInv, HookTyping, HookTypeOK, HookTellsTruth, ShowsTheCall

(* As long as calls come one at a time, useVault() shows what happens; whatever comes
   when, success is reported of calls that succeeded only, and nothing is loading after
   the last.  (packages/react/src/useVault.ts:36-140) *)
THEOREM HookShowsTruth == HookSpec => [](HookTypeOK /\ HookTellsTruth)
<1>1. HookSpec => []HookIInv
  BY HookInvInit, HookInvStep, PTL DEF HookSpec
<1>2. QED
  BY <1>1, HookInvMeans, PTL

-----------------------------------------------------------------------------
(* Batches of transactions *)

ItemType ==
  [stage : {"waiting", "account", "built", "polling", "over"}, number : Nat, unsure : BOOLEAN,
   result : {"none", "failed", "successful"},
   chain : {"none", "refused", "pending", "SUCCESS", "FAILED", "expired"}]

BatchTyping ==
  /\ batch \in [parallel : BOOLEAN, length : Nat]
  /\ items \in [Items -> ItemType]
  /\ foundOut \subseteq Items
  /\ cachedNumber \in Nat \cup {NoNumber} /\ accountNumber \in Nat
  /\ inLedger \in Seq(Items)
  /\ estimates \in Nat /\ skipped \in BOOLEAN

Decided(i) == items[i].chain \in {"SUCCESS", "FAILED"}

\* What a transaction's stage says of its result and of its place in the ledger
ItemSound(i) ==
  /\ items[i].stage \in {"waiting", "account", "built"} => items[i].chain = "none"
  /\ items[i].stage # "over" => items[i].result = "none"
  /\ i \in foundOut => /\ items[i].stage = "over" /\ Decided(i)
                       /\ items[i].result = "successful" <=> items[i].chain = "SUCCESS"
  /\ items[i].result = "successful" => i \in foundOut

LedgerSound == \A m \in 1..Len(inLedger) : Decided(inLedger[m])

\* The transactions of a parallel batch begin together.
Together ==
  \/ \A i \in Items : items[i].stage = "waiting"
  \/ \A i \in Items : items[i].stage # "waiting"

FoundBefore(i) == \A j \in 1..(i - 1) : j \in foundOut

\* Of the first transaction whose outcome is not known: how its number, the one that
\* is cached and the account's are related.
NumberFits(i) ==
  /\ items[i].stage \in {"waiting", "account"} /\ ~skipped /\ cachedNumber # NoNumber
       => cachedNumber = accountNumber - 1
  /\ items[i].stage = "built" /\ ~items[i].unsure => items[i].number = accountNumber + 1
  /\ items[i].stage \in {"built", "polling"} /\ ~skipped /\ cachedNumber # NoNumber
       => items[i].number = cachedNumber + 1
  /\ items[i].stage = "polling" /\ Decided(i) => accountNumber = items[i].number

\* A sequential batch
InTurn == \A i \in Items : items[i].stage # "waiting" => \A j \in 1..(i - 1) : items[j].stage = "over"
OnePending ==
  \A i \in Items : items[i].chain = "pending" =>
    /\ \A j \in Items : items[j].chain = "pending" => j = i
    /\ \A m \in 1..Len(inLedger) : inLedger[m] < i
LedgerInOrder == \A m, n \in 1..Len(inLedger) : m < n => inLedger[m] < inLedger[n]
NumbersFit == \A i \in Items : FoundBefore(i) => NumberFits(i)
RefusalsExplained ==
  \A i \in Items : items[i].chain = "refused" => items[i].unsure \/ ~FoundBefore(i)

Sequential == InTurn /\ OnePending /\ LedgerInOrder /\ NumbersFit /\ RefusalsExplained

BatchIInv ==
  /\ BatchTyping
  /\ \A i \in Items : ItemSound(i)
  /\ LedgerSound
  /\ batch.parallel => Together
  /\ ~batch.parallel => Sequential

LEMMA BatchInvInit == BatchInit => BatchIInv
<1> SUFFICES ASSUME BatchInit PROVE BatchIInv
  OBVIOUS
<1>1. batch \in [parallel : BOOLEAN, length : Nat]
  BY BatchAssumption DEF BatchAssumption, BatchInit
<1>2. /\ \A i \in Items : items[i] = [stage |-> "waiting", number |-> 0, unsure |-> FALSE,
                                      result |-> "none", chain |-> "none"]
      /\ items \in [Items -> ItemType] /\ foundOut = {} /\ inLedger = <<>>
  BY DEF BatchInit, ItemType
<1>3. BatchTyping
  <2>1. inLedger \in Seq(Items) /\ foundOut \subseteq Items
    BY <1>2
  <2>2. cachedNumber \in Nat \cup {NoNumber} /\ accountNumber \in Nat
    BY DEF BatchInit
  <2>3. estimates \in Nat /\ skipped \in BOOLEAN
    BY DEF BatchInit
  <2>4. QED
    BY <1>1, <1>2, <2>1, <2>2, <2>3 DEF BatchTyping
<1>4. (\A i \in Items : ItemSound(i)) /\ LedgerSound /\ Together
  BY <1>2 DEF ItemSound, LedgerSound, Together
<1>5. cachedNumber # NoNumber => cachedNumber = accountNumber - 1
  BY DEF BatchInit
<1>6. InTurn /\ OnePending /\ LedgerInOrder /\ RefusalsExplained
  BY <1>2 DEF InTurn, OnePending, LedgerInOrder, RefusalsExplained
<1>7. NumbersFit
  BY <1>2, <1>5 DEF NumbersFit, NumberFits
<1>8. QED
  BY <1>3, <1>4, <1>6, <1>7 DEF BatchIInv, Sequential

\* A step that changes one transaction.
LEMMA OneItemMoves ==
  ASSUME BatchTyping, NEW i \in Items, NEW item \in ItemType, items' = [items EXCEPT ![i] = item],
         batch' = batch
  PROVE  /\ Items' = Items /\ items' \in [Items -> ItemType] /\ items'[i] = item
         /\ \A j \in Items : j # i => items'[j] = items[j]
BY DEF BatchTyping, Items

\* What an unfinished transaction of a sequential batch knows of the others.
LEMMA OthersOfUnfinished ==
  ASSUME BatchIInv, ~batch.parallel, NEW i \in Items, items[i].stage # "over"
  PROVE  /\ \A j \in Items : j > i => items[j].stage = "waiting" /\ items[j].chain = "none"
         /\ \A j \in Items : FoundBefore(j) => j <= i
         /\ FoundBefore(i) => \A j \in Items : items[j].chain = "pending" => j = i
<1>1. batch.length \in Nat /\ Items = 1..batch.length
  BY DEF BatchIInv, BatchTyping, Items
<1>2. \A j \in Items : ItemSound(j)
  BY DEF BatchIInv
<1>3. ASSUME NEW j \in Items, j > i PROVE items[j].stage = "waiting" /\ items[j].chain = "none"
  <2>1. i \in 1..(j - 1)
    BY <1>1, <1>3
  <2>2. items[j].stage = "waiting"
    BY <2>1 DEF BatchIInv, Sequential, InTurn
  <2>3. QED
    BY <1>2, <2>2 DEF ItemSound
<1>4. i \notin foundOut
  BY <1>2 DEF ItemSound
<1>5. ASSUME NEW j \in Items, FoundBefore(j) PROVE j <= i
  BY <1>1, <1>4, <1>5 DEF FoundBefore
<1>6. ASSUME FoundBefore(i), NEW j \in Items, items[j].chain = "pending" PROVE j = i
  <2>1. j <= i
    BY <1>1, <1>3, <1>6
  <2>2. j \notin foundOut
    BY <1>2, <1>6 DEF ItemSound, Decided
  <2>3. QED
    BY <1>1, <1>6, <2>1, <2>2 DEF FoundBefore
<1>7. QED
  BY <1>3, <1>5, <1>6

\* What holds of the others holds on, and the order of turns.
LEMMA ItemMoveKeeps ==
  ASSUME BatchIInv, NEW i \in Items, NEW item \in ItemType, items' = [items EXCEPT ![i] = item],
         batch' = batch,
         \/ inLedger' = inLedger
         \/ inLedger' = Append(inLedger, i) /\ item.chain \in {"SUCCESS", "FAILED"} /\ items[i].chain = "pending",
         items[i].stage # "waiting", item.stage # "waiting", items[i].stage = "over" => item.stage = "over",
         Decided(i) => item.chain = items[i].chain,
         \A j \in Items : j # i => (j \in foundOut' <=> j \in foundOut),
         ItemSound(i)'
  PROVE  /\ \A j \in Items' : ItemSound(j)'
         /\ LedgerSound'
         /\ batch'.parallel => Together'
         /\ ~batch'.parallel => InTurn' /\ LedgerInOrder'
<1>1. BatchTyping
  BY DEF BatchIInv
<1>2. /\ Items' = Items /\ items'[i] = item
      /\ \A j \in Items : j # i => items'[j] = items[j]
  BY <1>1, OneItemMoves
<1>3. ASSUME NEW j \in Items PROVE ItemSound(j)'
  <2>1. CASE j = i
    BY <2>1
  <2>2. CASE j # i
    BY <1>2, <2>2 DEF BatchIInv, ItemSound, Decided
  <2>3. QED
    BY <2>1, <2>2
<1>4. ASSUME NEW j \in Items, Decided(j) PROVE Decided(j)'
  BY <1>2, <1>4 DEF Decided
<1>5. LedgerSound'
  <2>1. \A m \in 1..Len(inLedger) : inLedger[m] \in Items /\ Decided(inLedger[m])'
    BY <1>1, <1>4 DEF BatchTyping, BatchIInv, LedgerSound
  <2>2. CASE inLedger' = inLedger
    BY <2>1, <2>2 DEF LedgerSound
  <2>3. CASE inLedger' = Append(inLedger, i) /\ item.chain \in {"SUCCESS", "FAILED"}
    <3>1. Decided(i)'
      BY <1>2, <2>3 DEF Decided
    <3>2. \A m \in 1..Len(inLedger') :
            (m \in 1..Len(inLedger) /\ inLedger'[m] = inLedger[m]) \/ inLedger'[m] = i
      BY <1>1, <2>3 DEF BatchTyping
    <3>3. QED
      BY <2>1, <3>1, <3>2 DEF LedgerSound
  <2>4. QED
    BY <2>2, <2>3
<1>6. batch'.parallel => Together'
  BY <1>2 DEF BatchIInv, Together
<1>7. ~batch'.parallel => InTurn'
  <2> SUFFICES ASSUME ~batch.parallel, NEW k \in Items, items'[k].stage # "waiting",
                      NEW j \in 1..(k - 1)
               PROVE  items'[j].stage = "over"
    BY <1>2 DEF InTurn
  <2>1. items[k].stage # "waiting"
    BY <1>2
  <2>2. items[j].stage = "over" /\ j \in Items
    <3>1. j \in Items
      BY <1>1 DEF BatchTyping, Items
    <3>2. QED
      BY <2>1, <3>1 DEF BatchIInv, Sequential, InTurn
  <2>3. QED
    BY <1>2, <2>2
<1>8. ~batch'.parallel => LedgerInOrder'
  <2> SUFFICES ASSUME ~batch.parallel PROVE LedgerInOrder'
    OBVIOUS
  <2>1. LedgerInOrder /\ OnePending
    BY DEF BatchIInv, Sequential
  <2>2. CASE inLedger' = inLedger
    BY <2>1, <2>2 DEF LedgerInOrder
  <2>3. CASE inLedger' = Append(inLedger, i) /\ items[i].chain = "pending"
    <3>1. \A m \in 1..Len(inLedger) : inLedger[m] < i
      BY <2>1, <2>3 DEF OnePending
    <3>2. /\ Len(inLedger') = Len(inLedger) + 1 /\ Len(inLedger) \in Nat /\ inLedger'[Len(inLedger) + 1] = i
          /\ \A m \in 1..Len(inLedger) : inLedger'[m] = inLedger[m]
      BY <1>1, <2>3 DEF BatchTyping
    <3> HIDE <2>3
    <3>3. SUFFICES ASSUME NEW m \in 1..Len(inLedger'), NEW n \in 1..Len(inLedger'), m < n
                   PROVE  inLedger'[m] < inLedger'[n]
      BY DEF LedgerInOrder
    <3>4. m \in 1..Len(inLedger)
      BY <3>2, <3>3
    <3>5. CASE n = Len(inLedger) + 1
      BY <3>1, <3>2, <3>4, <3>5
    <3>6. CASE n # Len(inLedger) + 1
      <4>1. n \in 1..Len(inLedger)
        BY <3>2, <3>6
      <4>2. inLedger[m] < inLedger[n]
        BY <2>1, <3>3, <3>4, <4>1 DEF LedgerInOrder
      <4>3. QED
        BY <3>2, <3>4, <4>1, <4>2
    <3>7. QED
      BY <3>5, <3>6
  <2>4. QED
    BY <2>2, <2>3
<1>9. QED
  BY <1>2, <1>3, <1>5, <1>6, <1>7, <1>8

\* Steps of a transaction that the ledger does not have: it is built, or over.
LEMMA BuildKeeps ==
  ASSUME BatchIInv, NEW i \in Items, NEW item \in ItemType, items' = [items EXCEPT ![i] = item],
         batch' = batch, inLedger' = inLedger, foundOut' = foundOut, accountNumber' = accountNumber,
         items[i].stage \in {"account", "built"}, item.chain = "none",
         \/ item.stage = "over" /\ item.result = "failed" /\ cachedNumber' = cachedNumber /\ skipped' = skipped
         \/ item.stage = "built" /\ item.result = "none" /\ items[i].stage = "account"
            /\ cachedNumber' \in Nat /\ item.number = cachedNumber' + 1
            /\ \/ cachedNumber' = accountNumber /\ skipped' = FALSE
               \/ /\ cachedNumber # NoNumber /\ cachedNumber' = cachedNumber + 1 /\ skipped' = skipped
                  /\ item.unsure = skipped,
         estimates' = estimates
  PROVE  BatchIInv'
<1>1. BatchTyping /\ \A j \in Items : ItemSound(j)
  BY DEF BatchIInv
<1>2. /\ Items' = Items /\ items' \in [Items -> ItemType] /\ items'[i] = item
      /\ \A j \in Items : j # i => items'[j] = items[j]
  BY <1>1, OneItemMoves
<1>3. BatchTyping'
  BY <1>1, <1>2 DEF BatchTyping
<1>4. items[i].chain = "none" /\ i \notin foundOut
  BY <1>1 DEF ItemSound
<1>5. ItemSound(i)'
  BY <1>2, <1>4 DEF ItemSound
<1>6. /\ \A j \in Items' : ItemSound(j)'
      /\ LedgerSound'
      /\ batch'.parallel => Together'
      /\ ~batch'.parallel => InTurn' /\ LedgerInOrder'
  BY <1>4, <1>5, ItemMoveKeeps DEF Decided
<1>7. ASSUME ~batch.parallel PROVE OnePending' /\ RefusalsExplained' /\ NumbersFit'
  <2>1. OnePending /\ RefusalsExplained /\ NumbersFit
    BY <1>7 DEF BatchIInv, Sequential
  <2>2. OnePending'
    BY <1>2, <1>4, <2>1 DEF OnePending
  <2>3. RefusalsExplained'
    BY <1>2, <1>4, <2>1 DEF RefusalsExplained, FoundBefore
  <2>4. ASSUME NEW j \in Items, FoundBefore(j)' PROVE NumberFits(j)'
    <3>1. FoundBefore(j)
      BY <2>4 DEF FoundBefore
    <3>2. j <= i /\ NumberFits(j)
      BY <1>7, <2>1, <3>1, OthersOfUnfinished DEF NumbersFit
    <3>3. CASE j # i
      <4>1. items[j].stage = "over"
        <5>1. j \in 1..(i - 1)
          BY <3>2, <3>3 DEF Items
        <5>2. QED
          BY <1>7, <5>1 DEF BatchIInv, Sequential, InTurn
      <4>2. QED
        BY <1>2, <3>3, <4>1 DEF NumberFits
    <3>4. CASE j = i
      <4>1. CASE item.stage = "over"
        BY <1>2, <3>4, <4>1 DEF NumberFits
      <4>2. CASE item.stage = "built"
        <5>1. items'[j].number = cachedNumber' + 1 /\ items[j].stage = "account"
          BY <1>2, <3>4, <4>2
        <5>2. ~item.unsure => cachedNumber' = accountNumber
          BY <1>1, <3>2, <3>4, <4>2 DEF NumberFits, BatchTyping
        <5>3. QED
          BY <1>2, <3>4, <4>2, <5>1, <5>2 DEF NumberFits
      <4>3. QED
        BY <4>1, <4>2
    <3>5. QED
      BY <3>3, <3>4
  <2>5. QED
    BY <1>2, <2>2, <2>3, <2>4 DEF NumbersFit
<1>8. QED
  BY <1>3, <1>6, <1>7 DEF BatchIInv, Sequential

\* The next transaction begins, or all of a parallel batch.
LEMMA BeginKeeps == ASSUME BatchIInv, NEW i \in Items, Begin(i) PROVE BatchIInv'
<1>1. BatchTyping /\ \A j \in Items : ItemSound(j)
  BY DEF BatchIInv
<1>2. Items' = Items
  BY DEF Begin, Items
<1>3. ASSUME NEW j \in Items
      PROVE  items[j].stage = "waiting" =>
               items[j].chain = "none" /\ items[j].result = "none" /\ j \notin foundOut
  BY <1>1, <1>3 DEF ItemSound
<1>4. CASE batch.parallel
  <2>1. \A j \in Items : items[j].stage = "waiting"
    BY <1>4 DEF BatchIInv, Together, Begin
  <2>2. \A j \in Items : items'[j] = [items[j] EXCEPT !.stage = "account"]
    BY <1>4 DEF Begin
  <2>3. items' \in [Items -> ItemType]
    <3>1. \A j \in Items : [items[j] EXCEPT !.stage = "account"] \in ItemType
      BY <1>1 DEF BatchTyping, ItemType
    <3>2. QED
      BY <1>4, <3>1 DEF Begin
  <2>4. BatchTyping'
    BY <1>1, <1>2, <2>3 DEF Begin, BatchTyping
  <2>5. \A j \in Items :
           /\ items'[j].stage = "account"
           /\ items'[j].chain = items[j].chain
           /\ items'[j].result = items[j].result
    <3>1. \A j \in Items : items[j] \in ItemType
      BY <1>1 DEF BatchTyping
    <3>2. QED
      BY <2>2, <3>1 DEF ItemType
  <2>6. \A j \in Items' : ItemSound(j)'
    BY <1>2, <1>3, <2>1, <2>5 DEF ItemSound, Begin
  <2>7. LedgerSound'
    <3>1. \A m \in 1..Len(inLedger) : inLedger[m] \in Items /\ Decided(inLedger[m])
      BY <1>1 DEF BatchTyping, BatchIInv, LedgerSound
    <3>2. QED
      BY <2>5, <3>1 DEF LedgerSound, Decided, Begin
  <2>8. Together'
    BY <1>2, <2>5 DEF Together
  <2>9. QED
    BY <1>4, <2>4, <2>6, <2>7, <2>8 DEF BatchIInv, Begin
<1>5. CASE ~batch.parallel
  <2> DEFINE item == [items[i] EXCEPT !.stage = "account"]
  <2>1. items[i] \in ItemType /\ item \in ItemType
    BY <1>1 DEF BatchTyping, ItemType
  <2>2. items' = [items EXCEPT ![i] = item] /\ items[i].stage = "waiting"
    BY <1>5 DEF Begin
  <2>3. item.stage = "account" /\ item.chain = "none" /\ item.result = "none"
    BY <1>3, <2>1, <2>2 DEF ItemType
  <2> HIDE DEF item
  <2>4. /\ items' \in [Items -> ItemType] /\ items'[i] = item
        /\ \A j \in Items : j # i => items'[j] = items[j]
    BY <1>1, <2>1, <2>2, OneItemMoves DEF Begin
  <2>5. BatchTyping'
    BY <1>1, <1>2, <2>4 DEF Begin, BatchTyping
  <2>6. \A j \in Items' : ItemSound(j)'
    <3>1. ItemSound(i)'
      BY <1>3, <2>2, <2>3, <2>4 DEF ItemSound, Begin
    <3>2. foundOut' = foundOut
      BY DEF Begin
    <3>3. \A j \in Items : j # i => ItemSound(j)'
      BY <1>1, <2>4, <3>2 DEF ItemSound, Decided
    <3>4. QED
      BY <1>2, <3>1, <3>3
  <2>7. LedgerSound'
    <3>1. \A m \in 1..Len(inLedger) : inLedger[m] \in Items /\ Decided(inLedger[m])
      BY <1>1 DEF BatchTyping, BatchIInv, LedgerSound
    <3>2. ~Decided(i)
      BY <1>3, <2>2 DEF Decided
    <3>3. QED
      BY <2>4, <3>1, <3>2 DEF LedgerSound, Decided, Begin
  <2>8. InTurn /\ OnePending /\ LedgerInOrder /\ NumbersFit /\ RefusalsExplained
    BY <1>5 DEF BatchIInv, Sequential
  <2>9. InTurn'
    <3>1. \A j \in 1..(i - 1) : items[j].stage = "over" /\ j \in Items
      BY <1>1, <1>5 DEF Begin, Turn, Items, BatchTyping
    <3>2. SUFFICES ASSUME NEW k \in Items, items'[k].stage # "waiting", NEW j \in 1..(k - 1)
                   PROVE  items'[j].stage = "over"
      BY <1>2 DEF InTurn
    <3>3. items[j].stage = "over" /\ j \in Items
      <4>1. j \in Items
        BY <1>1 DEF BatchTyping, Items
      <4>2. QED
        BY <2>4, <2>8, <3>1, <3>2, <4>1 DEF InTurn
    <3>4. QED
      BY <2>2, <2>4, <3>3
  <2>10. OnePending' /\ LedgerInOrder' /\ RefusalsExplained'
    <3>1. \A j \in Items : items'[j].chain # "none" => items'[j] = items[j]
      BY <2>3, <2>4
    <3>2. OnePending'
      BY <1>2, <2>8, <3>1 DEF OnePending, Begin
    <3>3. LedgerInOrder'
      BY <2>8 DEF LedgerInOrder, Begin
    <3>4. RefusalsExplained'
      BY <1>2, <2>8, <3>1 DEF RefusalsExplained, FoundBefore, Begin
    <3>5. QED
      BY <3>2, <3>3, <3>4
  <2>11. NumbersFit'
    <3> SUFFICES ASSUME NEW j \in Items, FoundBefore(j)' PROVE NumberFits(j)'
      BY <1>2 DEF NumbersFit
    <3>1. NumberFits(j)
      BY <2>8 DEF NumbersFit, FoundBefore, Begin
    <3>2. QED
      BY <2>2, <2>3, <2>4, <3>1 DEF NumberFits, Decided, Begin
  <2>12. QED
    BY <1>5, <2>5, <2>6, <2>7, <2>9, <2>10, <2>11 DEF BatchIInv, Sequential, Begin
<1>6. QED
  BY <1>4, <1>5

\* What is submitted is refused only when the batch could not know its number.
LEMMA SubmitKeeps == ASSUME BatchIInv, NEW i \in Items, Submit(i) PROVE BatchIInv'
<1>1. BatchTyping /\ \A j \in Items : ItemSound(j)
  BY DEF BatchIInv
<1> DEFINE takes == LedgerTakesNumber(items[i].number)
           item == [items[i] EXCEPT !.stage = "polling", !.chain = IF takes THEN "pending" ELSE "refused"]
<1>2. items[i] \in ItemType /\ item \in ItemType
  BY <1>1 DEF BatchTyping, ItemType
<1>3. items' = [items EXCEPT ![i] = item] /\ items[i].stage = "built"
  BY DEF Submit
<1>4. items[i].chain = "none" /\ items[i].result = "none" /\ i \notin foundOut
  BY <1>1, <1>3 DEF ItemSound
<1>5. /\ item.stage = "polling" /\ item.result = "none" /\ item.number = items[i].number
      /\ item.chain = (IF takes THEN "pending" ELSE "refused") /\ item.unsure = items[i].unsure
  BY <1>2, <1>4 DEF ItemType
<1> HIDE DEF item
<1>6. /\ Items' = Items /\ items' \in [Items -> ItemType] /\ items'[i] = item
      /\ \A j \in Items : j # i => items'[j] = items[j]
  BY <1>1, <1>2, <1>3, OneItemMoves DEF Submit
<1>7. BatchTyping'
  BY <1>1, <1>6 DEF Submit, BatchTyping
<1>8. ItemSound(i)'
  BY <1>4, <1>5, <1>6 DEF ItemSound, Submit
<1>9. /\ \A j \in Items' : ItemSound(j)'
      /\ LedgerSound'
      /\ batch'.parallel => Together'
      /\ ~batch'.parallel => InTurn' /\ LedgerInOrder'
  <2>1. ~Decided(i) /\ UNCHANGED <<batch, inLedger, foundOut>>
    BY <1>4 DEF Decided, Submit
  <2>2. item.stage # "waiting" /\ items[i].stage # "waiting" /\ items[i].stage # "over"
    BY <1>3, <1>5
  <2>3. QED
    BY <1>2, <1>3, <1>8, <2>1, <2>2, ItemMoveKeeps
<1>10. ASSUME ~batch.parallel PROVE OnePending' /\ RefusalsExplained' /\ NumbersFit'
  <2>1. OnePending /\ RefusalsExplained /\ NumbersFit /\ InTurn
    BY <1>10 DEF BatchIInv, Sequential
  <2>2. /\ \A j \in Items : j > i => items[j].chain = "none"
        /\ \A j \in Items : FoundBefore(j) => j <= i
        /\ FoundBefore(i) => \A j \in Items : items[j].chain = "pending" => j = i
    BY <1>3, <1>10, OthersOfUnfinished
  <2>3. takes <=> items[i].number = accountNumber + 1 /\ \A j \in Items : items[j].chain # "pending"
    BY DEF LedgerTakesNumber
  <2> HIDE DEF takes
  <2>4. \A m \in 1..Len(inLedger) : inLedger[m] < i
    <3> SUFFICES ASSUME NEW m \in 1..Len(inLedger) PROVE inLedger[m] < i
      OBVIOUS
    <3>1. inLedger[m] \in Items /\ items[inLedger[m]].chain # "none"
      BY <1>1 DEF BatchTyping, BatchIInv, LedgerSound, Decided
    <3>2. inLedger[m] # i /\ ~(inLedger[m] > i)
      BY <1>4, <2>2, <3>1
    <3>3. inLedger[m] \in Int /\ i \in Int
      BY <3>1 DEF Items
    <3>4. QED
      BY <3>2, <3>3
  <2>5. OnePending'
    <3> SUFFICES ASSUME NEW j \in Items, items'[j].chain = "pending"
                 PROVE  /\ \A k \in Items : items'[k].chain = "pending" => k = j
                        /\ \A m \in 1..Len(inLedger) : inLedger[m] < j
      BY <1>6 DEF OnePending, Submit
    <3>1. CASE takes
      BY <1>6, <2>3, <2>4, <3>1
    <3>2. CASE ~takes
      <4>1. j # i
        BY <1>5, <1>6, <3>2
      <4>2. \A k \in Items : items'[k].chain = "pending" => items[k].chain = "pending"
        BY <1>5, <1>6, <3>2
      <4>3. QED
        BY <2>1, <4>2 DEF OnePending
    <3>3. QED
      BY <3>1, <3>2
  <2>6. RefusalsExplained'
    <3> SUFFICES ASSUME NEW j \in Items, items'[j].chain = "refused", FoundBefore(j)
                 PROVE  items'[j].unsure
      BY <1>6 DEF RefusalsExplained, FoundBefore, Submit
    <3>1. CASE j # i
      BY <1>6, <2>1, <3>1 DEF RefusalsExplained
    <3>2. CASE j = i
      <4>1. ~takes
        BY <1>5, <1>6, <3>2
      <4>2. items[i].number # accountNumber + 1
        BY <1>4, <2>2, <2>3, <3>2, <4>1
      <4>3. NumberFits(i)
        BY <2>1, <3>2 DEF NumbersFit
      <4>4. items[i].unsure
        BY <1>3, <4>2, <4>3 DEF NumberFits
      <4>5. QED
        BY <1>5, <1>6, <3>2, <4>4
    <3>3. QED
      BY <3>1, <3>2
  <2>7. NumbersFit'
    <3> SUFFICES ASSUME NEW j \in Items, FoundBefore(j) PROVE NumberFits(j)'
      BY <1>6 DEF NumbersFit, FoundBefore, Submit
    <3>1. j <= i /\ NumberFits(j)
      BY <2>1, <2>2 DEF NumbersFit
    <3>2. CASE j # i
      <4>1. j \in 1..(i - 1)
        BY <3>1, <3>2 DEF Items
      <4>2. items'[j].stage = "over"
        BY <1>3, <1>6, <2>1, <3>2, <4>1 DEF InTurn
      <4>3. QED
        BY <4>2 DEF NumberFits
    <3>3. CASE j = i
      <4>1. ~Decided(i)'
        BY <1>5, <1>6 DEF Decided
      <4>2. QED
        BY <1>3, <1>5, <1>6, <3>1, <3>3, <4>1 DEF NumberFits, Submit
    <3>4. QED
      BY <3>2, <3>3
  <2>8. QED
    BY <2>5, <2>6, <2>7
<1>11. QED
  BY <1>7, <1>9, <1>10 DEF BatchIInv, Sequential, Submit

\* The pending transaction is applied, or its time is over.
LEMMA LedgerDecidesKeeps == ASSUME BatchIInv, NEW k \in Items, LedgerDecides(k) PROVE BatchIInv'
<1>1. BatchTyping /\ \A j \in Items : ItemSound(j)
  BY DEF BatchIInv
<1>2. PICK outcome \in {"SUCCESS", "FAILED", "expired"} :
        /\ items' = [items EXCEPT ![k].chain = outcome]
        /\ IF outcome = "expired" THEN UNCHANGED <<accountNumber, inLedger>>
           ELSE accountNumber' = items[k].number /\ inLedger' = Append(inLedger, k)
  BY DEF LedgerDecides
<1> DEFINE item == [items[k] EXCEPT !.chain = outcome]
<1>3. items[k] \in ItemType /\ item \in ItemType /\ items' = [items EXCEPT ![k] = item]
  BY <1>1, <1>2 DEF BatchTyping, ItemType
<1>4. /\ item.stage = items[k].stage /\ item.result = items[k].result /\ item.number = items[k].number
      /\ item.chain = outcome
  BY <1>3 DEF ItemType
<1> HIDE DEF item
<1>5. /\ Items' = Items /\ items' \in [Items -> ItemType] /\ items'[k] = item
      /\ \A j \in Items : j # k => items'[j] = items[j]
  BY <1>1, <1>3, OneItemMoves DEF LedgerDecides
<1>6. items[k].chain = "pending" /\ k \notin foundOut /\ items[k].stage \in {"polling", "over"}
      /\ items[k].result # "successful"
  BY <1>1, <1>3 DEF LedgerDecides, ItemSound, Decided, ItemType
<1>7. BatchTyping'
  <2>1. accountNumber' \in Nat
    BY <1>1, <1>2, <1>3 DEF BatchTyping, ItemType
  <2>2. inLedger' \in Seq(Items')
    <3>1. inLedger \in Seq(Items) /\ (inLedger' = inLedger \/ inLedger' = Append(inLedger, k))
      BY <1>1, <1>2 DEF BatchTyping
    <3>2. Append(inLedger, k) \in Seq(Items)
      BY <3>1
    <3>3. QED
      BY <1>5, <3>1, <3>2
  <2>3. QED
    BY <1>1, <1>5, <2>1, <2>2 DEF LedgerDecides, BatchTyping
<1>8. ItemSound(k)'
  <2>1. items'[k].stage \in {"polling", "over"} /\ items'[k].result = items[k].result /\ k \notin foundOut'
    BY <1>4, <1>5, <1>6 DEF LedgerDecides
  <2>2. items[k].stage # "over" => items[k].result = "none"
    BY <1>1 DEF ItemSound
  <2>3. items'[k].stage = items[k].stage
    BY <1>4, <1>5
  <2>4. QED
    BY <1>6, <2>1, <2>2, <2>3 DEF ItemSound
<1>9. /\ \A j \in Items' : ItemSound(j)'
      /\ LedgerSound'
      /\ batch'.parallel => Together'
      /\ ~batch'.parallel => InTurn' /\ LedgerInOrder'
  <2>1. ~Decided(k) /\ UNCHANGED <<batch, foundOut>>
    BY <1>6 DEF Decided, LedgerDecides
  <2>2. items[k].stage # "waiting" /\ item.stage # "waiting" /\ items[k].stage = "over" => item.stage = "over"
    BY <1>4, <1>6
  <2>3. \/ inLedger' = inLedger
        \/ inLedger' = Append(inLedger, k) /\ item.chain \in {"SUCCESS", "FAILED"} /\ items[k].chain = "pending"
    BY <1>2, <1>4, <1>6
  <2>4. QED
    BY <1>3, <1>4, <1>6, <1>8, <2>1, <2>2, <2>3, ItemMoveKeeps
<1>10. ASSUME ~batch.parallel PROVE OnePending' /\ RefusalsExplained' /\ NumbersFit'
  <2>1. OnePending /\ RefusalsExplained /\ NumbersFit
    BY <1>10 DEF BatchIInv, Sequential
  <2>2. OnePending'
    <3>1. \A j \in Items : items'[j].chain # "pending"
      <4>1. \A j \in Items : items[j].chain = "pending" => j = k
        BY <1>6, <2>1 DEF OnePending
      <4>2. QED
        BY <1>4, <1>5, <4>1
    <3>2. QED
      BY <1>5, <3>1 DEF OnePending
  <2>3. RefusalsExplained'
    <3>1. \A j \in Items : items'[j].chain = "refused" => items'[j] = items[j]
      BY <1>4, <1>5
    <3>2. QED
      BY <1>5, <2>1, <3>1 DEF RefusalsExplained, FoundBefore, LedgerDecides
  <2>4. NumbersFit'
    <3> SUFFICES ASSUME NEW j \in Items, FoundBefore(j) PROVE NumberFits(j)'
      BY <1>5 DEF NumbersFit, FoundBefore, LedgerDecides
    <3>1. NumberFits(j)
      BY <2>1 DEF NumbersFit
    <3>2. CASE j # k
      <4>1. items[j].stage = "over"
        BY <1>6, <1>10, <3>2, OthersOfUnfinished
      <4>2. QED
        BY <1>5, <3>2, <4>1 DEF NumberFits
    <3>3. CASE j = k
      <4>1. Decided(k)' => accountNumber' = items'[k].number
        BY <1>2, <1>4, <1>5 DEF Decided
      <4>2. items'[k].stage = items[k].stage /\ items'[k].number = items[k].number
        BY <1>4, <1>5
      <4>3. UNCHANGED <<cachedNumber, skipped>>
        BY DEF LedgerDecides
      <4>4. QED
        BY <1>6, <3>1, <3>3, <4>1, <4>2, <4>3 DEF NumberFits
    <3>4. QED
      BY <3>2, <3>3
  <2>5. QED
    BY <2>2, <2>3, <2>4
<1>11. QED
  BY <1>7, <1>9, <1>10 DEF BatchIInv, Sequential, LedgerDecides

\* A poll finds out, or gives up: the next transaction goes on with the numbers.
LEMMA OutcomeKeeps ==
  ASSUME BatchIInv, NEW i \in Items, PollFindsOut(i) \/ PollThrows(i)
  PROVE  BatchIInv'
<1>1. BatchTyping /\ \A j \in Items : ItemSound(j)
  BY DEF BatchIInv
<1>2. PICK found \in {"successful", "failed"} :
        /\ Ended(i, found) /\ items[i].stage = "polling"
        /\ UNCHANGED <<batch, cachedNumber, accountNumber, inLedger, estimates, skipped>>
        /\ \/ found = "failed" /\ foundOut' = foundOut
           \/ Decided(i) /\ foundOut' = foundOut \cup {i} /\ (found = "successful" <=> items[i].chain = "SUCCESS")
  BY DEF PollFindsOut, PollThrows, Decided
<1> DEFINE item == [items[i] EXCEPT !.stage = "over", !.result = found]
<1>3. items[i] \in ItemType /\ item \in ItemType /\ items' = [items EXCEPT ![i] = item]
  BY <1>1, <1>2 DEF BatchTyping, ItemType, Ended
<1>4. item.stage = "over" /\ item.result = found /\ item.chain = items[i].chain
  BY <1>3 DEF ItemType
<1>5. \A j \in Items : (item.chain = items[j].chain /\ item.unsure = items[j].unsure) \/ j # i
  BY <1>3 DEF ItemType
<1> HIDE DEF item
<1>6. /\ Items' = Items /\ items' \in [Items -> ItemType] /\ items'[i] = item
      /\ \A j \in Items : j # i => items'[j] = items[j]
  BY <1>1, <1>2, <1>3, OneItemMoves
<1>7. BatchTyping'
  <2>1. foundOut' \subseteq Items'
    BY <1>1, <1>2, <1>6 DEF BatchTyping
  <2>2. QED
    BY <1>1, <1>2, <1>6, <2>1 DEF BatchTyping
<1>8. i \notin foundOut /\ items[i].result = "none"
  BY <1>1, <1>2 DEF ItemSound
<1>9. ItemSound(i)'
  <2>1. items'[i].chain = items[i].chain /\ items'[i].stage = "over" /\ items'[i].result = found
    BY <1>4, <1>6
  <2>2. CASE found = "failed" /\ foundOut' = foundOut
    BY <1>8, <2>1, <2>2 DEF ItemSound
  <2>3. CASE Decided(i) /\ foundOut' = foundOut \cup {i} /\ (found = "successful" <=> items[i].chain = "SUCCESS")
    BY <2>1, <2>3 DEF ItemSound, Decided
  <2>4. QED
    BY <1>2, <2>2, <2>3
<1>10. /\ \A j \in Items' : ItemSound(j)'
       /\ LedgerSound'
       /\ batch'.parallel => Together'
       /\ ~batch'.parallel => InTurn' /\ LedgerInOrder'
  <2>1. \A j \in Items : j # i => (j \in foundOut' <=> j \in foundOut)
    BY <1>2
  <2>2. item.stage # "waiting" /\ items[i].stage # "waiting" /\ items[i].stage # "over"
    BY <1>2, <1>4
  <2>3. QED
    BY <1>2, <1>3, <1>4, <1>9, <2>1, <2>2, ItemMoveKeeps
<1>11. ASSUME ~batch.parallel PROVE OnePending' /\ RefusalsExplained' /\ NumbersFit'
  <2>1. OnePending /\ RefusalsExplained /\ NumbersFit /\ InTurn
    BY <1>11 DEF BatchIInv, Sequential
  <2>2. /\ \A j \in Items : j > i => items[j].stage = "waiting" /\ items[j].chain = "none"
        /\ \A j \in Items : FoundBefore(j) => j <= i
    BY <1>2, <1>11, OthersOfUnfinished
  <2>3. \A j \in Items : items'[j].chain = items[j].chain /\ items'[j].unsure = items[j].unsure
    BY <1>5, <1>6
  <2>4. OnePending'
    BY <1>2, <1>6, <2>1, <2>3 DEF OnePending
  <2>5. \A j \in Items : j <= i \/ ~FoundBefore(j)' \/ (j = i + 1 /\ FoundBefore(i) /\ i \in foundOut')
    <3> SUFFICES ASSUME NEW j \in Items, j > i, FoundBefore(j)'
                 PROVE  j = i + 1 /\ FoundBefore(i) /\ i \in foundOut'
      BY DEF Items
    <3>1. i \in Nat /\ j \in Nat /\ \A n \in 1..(j - 1) : n \in Items
      BY <1>1 DEF Items, BatchTyping
    <3>2. \A n \in 1..(j - 1) : n \in foundOut \/ n = i
      BY <1>2 DEF FoundBefore
    <3>3. \A n \in 1..(j - 1) : n <= i
      BY <1>1, <2>2, <3>1, <3>2 DEF ItemSound
    <3>4. j = i + 1
      <4>1. j - 1 \in 1..(j - 1)
        BY <3>1 DEF Items
      <4>2. QED
        BY <3>1, <3>3, <4>1
    <3>5. i \in 1..(j - 1)
      BY <3>4 DEF Items
    <3>6. FoundBefore(i)
      <4>1. \A n \in 1..(i - 1) : n \in 1..(j - 1) /\ n # i
        BY <3>1, <3>4
      <4>2. QED
        BY <3>2, <4>1 DEF FoundBefore
    <3>7. QED
      BY <3>4, <3>5, <3>6 DEF FoundBefore
  <2>6. \A j \in Items : j <= i => (FoundBefore(j)' <=> FoundBefore(j))
    <3>1. \A j \in Items : j <= i => \A n \in 1..(j - 1) : n # i
      BY DEF Items
    <3>2. QED
      BY <1>2, <3>1 DEF FoundBefore
  <2>7. RefusalsExplained'
    <3> SUFFICES ASSUME NEW j \in Items, items'[j].chain = "refused", FoundBefore(j)'
                 PROVE  items'[j].unsure
      BY <1>6 DEF RefusalsExplained
    <3>1. j <= i
      BY <2>2, <2>3 DEF Items
    <3>2. QED
      BY <2>1, <2>3, <2>6, <3>1 DEF RefusalsExplained
  <2>8. NumbersFit'
    <3> SUFFICES ASSUME NEW j \in Items, FoundBefore(j)' PROVE NumberFits(j)'
      BY <1>6 DEF NumbersFit
    <3>1. CASE j <= i
      <4>1. j # i => items[j].stage = "over"
        <5>1. j # i => j \in 1..(i - 1)
          BY <3>1 DEF Items
        <5>2. QED
          BY <1>2, <2>1, <5>1 DEF InTurn
      <4>2. items'[j].stage = "over"
        BY <1>4, <1>6, <4>1
      <4>3. QED
        BY <4>2 DEF NumberFits
    <3>2. CASE j > i
      <4>1. j = i + 1 /\ FoundBefore(i) /\ i \in foundOut'
        BY <2>5, <3>2 DEF Items
      <4>2. NumberFits(i) /\ Decided(i)
        BY <1>2, <1>8, <2>1, <4>1 DEF NumbersFit
      <4>3. /\ accountNumber = items[i].number
            /\ ~skipped /\ cachedNumber # NoNumber => items[i].number = cachedNumber + 1
        BY <1>2, <4>2 DEF NumberFits
      <4>4. ~skipped /\ cachedNumber # NoNumber => cachedNumber = accountNumber - 1
        BY <1>1, <4>3 DEF BatchTyping
      <4>5. items'[j].stage = "waiting"
        <5>1. j # i
          BY <4>1 DEF Items
        <5>2. QED
          BY <1>6, <2>2, <3>2, <5>1
      <4>6. QED
        BY <1>2, <4>4, <4>5 DEF NumberFits
    <3>3. QED
      BY <3>1, <3>2 DEF Items
  <2>9. QED
    BY <2>4, <2>7, <2>8
<1>12. batch' = batch
  BY <1>2
<1>13. QED
  BY <1>7, <1>10, <1>11, <1>12 DEF BatchIInv, Sequential

\* Estimates and the age of the cache change the cached number alone.
LEMMA CacheMoves ==
  ASSUME BatchIInv, UNCHANGED <<batch, items, foundOut, accountNumber, inLedger>>,
         cachedNumber' \in Nat \cup {NoNumber}, estimates' \in Nat, skipped' \in BOOLEAN,
         \/ skipped'
         \/ cachedNumber' = NoNumber
         \/ UNCHANGED <<cachedNumber, skipped>>
  PROVE  BatchIInv'
<1>1. Items' = Items
  BY DEF Items
<1>2. BatchTyping'
  BY <1>1 DEF BatchIInv, BatchTyping
<1>3. (\A i \in Items' : ItemSound(i)') /\ LedgerSound'
  BY <1>1 DEF BatchIInv, ItemSound, LedgerSound, Decided
<1>4. batch'.parallel => Together'
  BY <1>1 DEF BatchIInv, Together
<1>5. ASSUME ~batch.parallel PROVE Sequential'
  <2>1. InTurn' /\ OnePending' /\ LedgerInOrder' /\ RefusalsExplained'
    BY <1>1, <1>5 DEF BatchIInv, Sequential, InTurn, OnePending, LedgerInOrder, RefusalsExplained, FoundBefore
  <2>2. NumbersFit'
    BY <1>1, <1>5 DEF BatchIInv, Sequential, NumbersFit, NumberFits, FoundBefore, Decided
  <2>3. QED
    BY <2>1, <2>2 DEF Sequential
<1>6. QED
  BY <1>2, <1>3, <1>4, <1>5 DEF BatchIInv

LEMMA BuiltItem ==
  ASSUME NEW item \in ItemType, NEW number \in Nat, NEW unsure \in BOOLEAN
  PROVE  /\ [item EXCEPT !.stage = "built", !.number = number] \in ItemType
         /\ [item EXCEPT !.stage = "built", !.number = number, !.unsure = unsure] \in ItemType
BY DEF ItemType

LEMMA BuildStepKeeps ==
  ASSUME BatchIInv, NEW i \in Items, AccountAnswers(i) \/ AccountFails(i) \/ Throws(i)
  PROVE  BatchIInv'
<1>1. BatchTyping /\ ItemSound(i)
  BY DEF BatchIInv
<1>2. items[i] \in ItemType /\ i \in Items
  BY <1>1 DEF BatchTyping
<1>3. items[i].stage \in {"account", "built"} /\ items[i].chain = "none" /\ items[i].result = "none"
  BY <1>1 DEF AccountAnswers, AccountFails, Throws, ItemSound
<1>4. UNCHANGED <<batch, inLedger, foundOut, accountNumber, estimates>>
  BY DEF AccountAnswers, AccountFails, Throws
<1>5. CASE Ended(i, "failed") /\ UNCHANGED <<cachedNumber, skipped>>
  <2> DEFINE item == [items[i] EXCEPT !.stage = "over", !.result = "failed"]
  <2>1. item \in ItemType /\ items' = [items EXCEPT ![i] = item]
    BY <1>2, <1>5 DEF ItemType, Ended
  <2>2. item.stage = "over" /\ item.result = "failed" /\ item.chain = "none"
    BY <1>2, <1>3 DEF ItemType
  <2> HIDE DEF item
  <2>3. QED
    BY <1>3, <1>4, <1>5, <2>1, <2>2, BuildKeeps
<1>6. CASE AccountAnswers(i)
  <2> DEFINE item == [items[i] EXCEPT !.stage = "built", !.number = accountNumber + 1]
  <2>1. items' = [items EXCEPT ![i] = item] /\ cachedNumber' = accountNumber /\ skipped' = FALSE
        /\ items[i].stage = "account"
    BY <1>2, <1>6 DEF AccountAnswers
  <2>2. accountNumber \in Nat /\ accountNumber + 1 \in Nat
    BY <1>1 DEF BatchTyping
  <2>3. item \in ItemType
    BY <1>2, <2>2, BuiltItem
  <2>4. item.stage = "built" /\ item.result = "none" /\ item.chain = "none" /\ item.number = accountNumber + 1
    BY <1>2, <1>3 DEF ItemType
  <2> HIDE DEF item
  <2>5. QED
    BY <1>3, <1>4, <2>1, <2>2, <2>3, <2>4, BuildKeeps
<1>7. CASE AccountFails(i) /\ cachedNumber # NoNumber
  <2> DEFINE item == [items[i] EXCEPT !.stage = "built", !.number = cachedNumber + 2, !.unsure = skipped]
  <2>1. items' = [items EXCEPT ![i] = item] /\ cachedNumber' = cachedNumber + 1 /\ skipped' = skipped
        /\ items[i].stage = "account"
    BY <1>2, <1>7 DEF AccountFails, NextCached
  <2>2. cachedNumber \in Nat /\ cachedNumber + 2 \in Nat /\ skipped \in BOOLEAN
    BY <1>1, <1>7 DEF BatchTyping
  <2>3. item \in ItemType
    BY <1>2, <2>2, BuiltItem
  <2>4. item.stage = "built" /\ item.result = "none" /\ item.chain = "none" /\ item.number = cachedNumber + 2
        /\ item.unsure = skipped
    BY <1>2, <1>3 DEF ItemType
  <2> HIDE DEF item
  <2>5. cachedNumber' \in Nat /\ item.number = cachedNumber' + 1
    BY <2>1, <2>2, <2>4
  <2>6. QED
    BY <1>3, <1>4, <1>7, <2>1, <2>2, <2>3, <2>4, <2>5, BuildKeeps
<1>8. QED
  BY <1>5, <1>6, <1>7 DEF AccountFails, Throws

LEMMA BatchInvStep == BatchIInv /\ [BatchNext]_batchVars => BatchIInv'
<1> SUFFICES ASSUME BatchIInv, [BatchNext]_batchVars PROVE BatchIInv'
  OBVIOUS
<1>1. BatchTyping
  BY DEF BatchIInv
<1>2. CASE UNCHANGED batchVars
  BY <1>1, <1>2, CacheMoves DEF batchVars, BatchTyping
<1>3. ASSUME NEW answers \in BOOLEAN, Estimate(answers) PROVE BatchIInv'
  <2>1. UNCHANGED <<batch, items, foundOut, accountNumber, inLedger>> /\ skipped' = TRUE
    BY <1>3 DEF Estimate
  <2>2. estimates' \in Nat
    BY <1>1, <1>3 DEF Estimate, BatchTyping
  <2>3. cachedNumber' \in Nat \cup {NoNumber}
    BY <1>1, <1>3 DEF Estimate, NextCached, BatchTyping
  <2>4. QED
    BY <2>1, <2>2, <2>3, CacheMoves
<1>4. CASE CacheExpires
  BY <1>1, <1>4, CacheMoves DEF CacheExpires, BatchTyping
<1>5. ASSUME NEW i \in Items, Begin(i) \/ Submit(i) \/ LedgerDecides(i) PROVE BatchIInv'
  BY <1>5, BeginKeeps, SubmitKeeps, LedgerDecidesKeeps
<1>6. ASSUME NEW i \in Items, PollFindsOut(i) \/ PollThrows(i) PROVE BatchIInv'
  BY <1>6, OutcomeKeeps
<1>7. ASSUME NEW i \in Items, AccountAnswers(i) \/ AccountFails(i) \/ Throws(i) PROVE BatchIInv'
  BY <1>7, BuildStepKeeps
<1>8. QED
  BY <1>2, <1>3, <1>4, <1>5, <1>6, <1>7 DEF BatchNext

LEMMA BatchInvMeans == BatchIInv => BatchTypeOK /\ BatchTellsTruth
<1> SUFFICES ASSUME BatchIInv PROVE BatchTypeOK /\ BatchTellsTruth
  OBVIOUS
<1>1. BatchTyping /\ \A i \in Items : ItemSound(i)
  BY DEF BatchIInv
<1>2. \A i \in Items : items[i] \in ItemType
  BY <1>1 DEF BatchTyping
<1>3. BatchTypeOK
  BY <1>1, <1>2 DEF BatchTyping, BatchTypeOK, ItemType
<1>4. ASSUME NEW i \in Items
      PROVE  /\ items[i].result = "successful" => items[i].chain = "SUCCESS"
             /\ items[i].chain = "SUCCESS" /\ items[i].result = "failed" => i \notin foundOut
  BY <1>1 DEF ItemSound
<1>5. ASSUME ~batch.parallel
      PROVE  /\ \A m, n \in DOMAIN inLedger : m < n => inLedger[m] < inLedger[n]
             /\ \A i \in Items :
                  items[i].chain = "refused" => items[i].unsure \/ \E j \in 1..i - 1 : j \notin foundOut
  <2>1. LedgerInOrder /\ RefusalsExplained
    BY <1>5 DEF BatchIInv, Sequential
  <2>2. DOMAIN inLedger = 1..Len(inLedger)
    BY <1>1 DEF BatchTyping
  <2>3. QED
    BY <2>1, <2>2 DEF LedgerInOrder, RefusalsExplained, FoundBefore
<1>6. QED
  BY <1>3, <1>4, <1>5 DEF BatchTellsTruth

(* The results of a batch are what became of its transactions, whatever batches
   are asked for: a sequential one is applied in its order, and none of its
   transactions is refused for its number unless an earlier outcome is not known
   or a number was spent on an estimate.
   (packages/core/src/transaction/enhancedTransactionBuilder.ts:97-141) *)
THEOREM BatchReportsTruth == BatchSpec => [](BatchTypeOK /\ BatchTellsTruth)
<1>1. BatchInit => BatchIInv
  BY BatchInvInit
<1>2. BatchIInv /\ [BatchNext]_batchVars => BatchIInv'
  BY BatchInvStep
<1>3. BatchIInv => BatchTypeOK /\ BatchTellsTruth
  BY BatchInvMeans
<1>4. QED
  BY <1>1, <1>2, <1>3, PTL DEF BatchSpec

-----------------------------------------------------------------------------
(* Packages of the offline builder *)

OfflineIds == {b.id : b \in OfflineBuilders}
OfflineNetworks == {b.network : b \in OfflineBuilders}
EnvelopeType == [account : OfflineAccounts, number : Nat, count : 1..MaxOperationsQueued]
BuiltType == [builder : OfflineIds, account : OfflineAccounts, number : Nat,
              count : 1..MaxOperationsQueued, network : OfflineNetworks]
PackageType == [envelope : EnvelopeType, network : OfflineNetworks, account : OfflineAccounts,
                sequence : Nat, count : 1..MaxOperationsQueued, own : BOOLEAN]
SignedType == [envelope : EnvelopeType, network : OfflineNetworks]

OfflineTyping ==
  /\ operations \in [OfflineBuilders -> 0..MaxQueued]
  /\ built \in Seq(BuiltType) /\ Len(built) <= MaxBuilt
  /\ packages \subseteq PackageType /\ imported \subseteq SignedType
  /\ offlineLedger \in Seq(SignedType) /\ lastUsed \in [OfflineAccounts -> Nat]

EnvelopeOf(tx) == [account |-> tx.account, number |-> tx.number, count |-> tx.count]
WasBuilt(envelope) == \E i \in 1..Len(built) : EnvelopeOf(built[i]) = envelope

BuiltByBuilders ==
  \A i \in 1..Len(built) : \E b \in OfflineBuilders :
    built[i].builder = b.id /\ built[i].account = b.account /\ built[i].number = b.number + 1

PackageSound(p) ==
  /\ WasBuilt(p.envelope) /\ p.count = p.envelope.count
  /\ p.own => p.account = p.envelope.account

\* No account's number is in the ledger twice: those that are there are used up.
NumbersUsedOnce ==
  /\ \A m \in 1..Len(offlineLedger) :
       /\ WasBuilt(offlineLedger[m].envelope)
       /\ offlineLedger[m].envelope.number <= lastUsed[offlineLedger[m].envelope.account]
  /\ \A m, n \in 1..Len(offlineLedger) :
       m # n => \/ offlineLedger[m].envelope.number # offlineLedger[n].envelope.number
                \/ offlineLedger[m].envelope.account # offlineLedger[n].envelope.account

OfflineIInv ==
  /\ OfflineTyping
  /\ BuiltByBuilders
  /\ \A p \in packages : PackageSound(p)
  /\ \A t \in imported : WasBuilt(t.envelope)
  /\ NumbersUsedOnce

LEMMA BuilderTypes ==
  ASSUME NEW b \in OfflineBuilders
  PROVE  /\ b.id \in OfflineIds /\ b.account \in OfflineAccounts /\ b.network \in OfflineNetworks
         /\ b.number \in Nat /\ b.number + 1 \in Nat
BY OfflineAssumption DEF OfflineAssumption, OfflineIds, OfflineAccounts, OfflineNetworks

LEMMA OfflineInvInit == OfflineInit => OfflineIInv
<1> SUFFICES ASSUME OfflineInit PROVE OfflineIInv
  OBVIOUS
<1>1. operations \in [OfflineBuilders -> 0..MaxQueued] /\ 0 <= MaxBuilt
  BY OfflineAssumption DEF OfflineAssumption, OfflineInit
<1>2. lastUsed \in [OfflineAccounts -> Nat]
  <2>1. {b.number : b \in OfflineBuilders} \subseteq Nat
    BY OfflineAssumption DEF OfflineAssumption
  <2>2. QED
    BY <2>1 DEF OfflineInit
<1>3. built = <<>> /\ packages = {} /\ imported = {} /\ offlineLedger = <<>>
  BY DEF OfflineInit
<1>4. OfflineTyping
  BY <1>1, <1>2, <1>3 DEF OfflineTyping
<1>5. BuiltByBuilders /\ NumbersUsedOnce
  BY <1>3 DEF BuiltByBuilders, NumbersUsedOnce
<1>6. QED
  BY <1>3, <1>4, <1>5 DEF OfflineIInv

\* A builder adds a transaction to those that are built.
LEMMA BuildOfflineKeeps ==
  ASSUME OfflineIInv, NEW b \in OfflineBuilders, BuildOffline(b)
  PROVE  OfflineIInv'
<1>1. OfflineTyping
  BY DEF OfflineIInv
<1>2. PICK tx \in BuiltType :
        built' = Append(built, tx) /\ tx.builder = b.id /\ tx.account = b.account /\ tx.number = b.number + 1
  <2> DEFINE new == [builder |-> b.id, account |-> b.account, number |-> NumberToUse(b),
                     count |-> operations[b], network |-> b.network]
  <2>1. new \in BuiltType
    BY BuilderTypes DEF BuildOffline, BuiltType, ValidCount, NumberToUse
  <2>2. built' = Append(built, new)
    BY DEF BuildOffline
  <2>3. new.builder = b.id /\ new.account = b.account /\ new.number = b.number + 1
    BY DEF NumberToUse
  <2> HIDE DEF new
  <2>4. QED
    BY <2>1, <2>2, <2>3
<1>3. UNCHANGED <<operations, packages, imported, offlineLedger, lastUsed>> /\ Len(built) < MaxBuilt
  BY DEF BuildOffline
<1>4. /\ Len(built') = Len(built) + 1 /\ Len(built) \in Nat /\ built'[Len(built) + 1] = tx
      /\ \A i \in 1..Len(built) : built'[i] = built[i]
  BY <1>1, <1>2 DEF OfflineTyping
<1>5. OfflineTyping'
  <2>1. built' \in Seq(BuiltType)
    BY <1>1, <1>2 DEF OfflineTyping
  <2>2. Len(built') <= MaxBuilt
    BY <1>3, <1>4, OfflineAssumption DEF OfflineAssumption
  <2>3. QED
    BY <1>1, <1>3, <2>1, <2>2 DEF OfflineTyping
<1>6. ASSUME NEW envelope, WasBuilt(envelope) PROVE WasBuilt(envelope)'
  <2>1. PICK i \in 1..Len(built) : EnvelopeOf(built[i]) = envelope
    BY <1>6 DEF WasBuilt
  <2>2. i \in 1..Len(built') /\ EnvelopeOf(built'[i]) = envelope
    BY <1>4, <2>1
  <2>3. QED
    BY <2>2 DEF WasBuilt
<1>7. BuiltByBuilders'
  <2> SUFFICES ASSUME NEW i \in 1..Len(built')
               PROVE  \E c \in OfflineBuilders :
                        built'[i].builder = c.id /\ built'[i].account = c.account /\ built'[i].number = c.number + 1
    BY DEF BuiltByBuilders
  <2>1. CASE i = Len(built) + 1
    BY <1>2, <1>4, <2>1
  <2>2. CASE i # Len(built) + 1
    <3>1. i \in 1..Len(built) /\ built'[i] = built[i]
      BY <1>4, <2>2
    <3>2. QED
      BY <3>1 DEF OfflineIInv, BuiltByBuilders
  <2>3. QED
    BY <2>1, <2>2
<1>8. \A p \in packages' : PackageSound(p)'
  BY <1>3, <1>6 DEF OfflineIInv, PackageSound
<1>9. \A t \in imported' : WasBuilt(t.envelope)'
  BY <1>3, <1>6 DEF OfflineIInv
<1>10. NumbersUsedOnce'
  BY <1>3, <1>6 DEF OfflineIInv, NumbersUsedOnce
<1>11. QED
  BY <1>5, <1>7, <1>8, <1>9, <1>10 DEF OfflineIInv

\* A package of a builder's own transaction has the account of it.
LEMMA ExportKeeps ==
  ASSUME OfflineIInv, NEW b \in OfflineBuilders, NEW i \in DOMAIN built, Export(b, i)
  PROVE  OfflineIInv'
<1>1. OfflineTyping /\ BuiltByBuilders
  BY DEF OfflineIInv
<1>2. i \in 1..Len(built) /\ built[i] \in BuiltType
  BY <1>1 DEF OfflineTyping
<1> DEFINE p == PackageOf(b, built[i])
<1>3. /\ p.envelope = EnvelopeOf(built[i]) /\ p.account = b.account
      /\ p.count = built[i].count /\ p.own = (built[i].builder = b.id) /\ p.envelope.count = p.count
      /\ p.envelope.account = built[i].account
  BY DEF PackageOf, EnvelopeOf
<1>4. p \in PackageType
  <2>1. EnvelopeOf(built[i]) \in EnvelopeType /\ built[i].count \in 1..MaxOperationsQueued
    BY <1>2 DEF EnvelopeOf, EnvelopeType, BuiltType
  <2>2. QED
    BY <2>1, BuilderTypes DEF PackageOf, PackageType, EnvelopeOf
<1>5. packages' = packages \cup {p} /\ UNCHANGED <<operations, built, imported, offlineLedger, lastUsed>>
  BY DEF Export
<1> HIDE DEF p
<1>6. OfflineTyping'
  BY <1>1, <1>4, <1>5 DEF OfflineTyping
<1>7. PackageSound(p)
  <2>1. WasBuilt(p.envelope)
    BY <1>2, <1>3 DEF WasBuilt
  <2>2. ASSUME p.own PROVE p.account = p.envelope.account
    <3>1. PICK c \in OfflineBuilders : built[i].builder = c.id /\ built[i].account = c.account
      BY <1>1, <1>2 DEF BuiltByBuilders
    <3>2. c = b
      BY <1>3, <2>2, <3>1, OfflineAssumption DEF OfflineAssumption
    <3>3. QED
      BY <1>3, <3>1, <3>2
  <2>3. QED
    BY <1>3, <2>1, <2>2 DEF PackageSound
<1>8. \A q \in packages' : PackageSound(q)'
  BY <1>5, <1>7 DEF OfflineIInv, PackageSound, WasBuilt
<1>9. BuiltByBuilders' /\ NumbersUsedOnce' /\ \A t \in imported' : WasBuilt(t.envelope)'
  BY <1>5 DEF OfflineIInv, BuiltByBuilders, NumbersUsedOnce, WasBuilt
<1>10. QED
  BY <1>6, <1>8, <1>9 DEF OfflineIInv

LEMMA ImportKeeps ==
  ASSUME OfflineIInv, NEW p \in packages, ImportAndSign(p)
  PROVE  OfflineIInv'
<1>1. OfflineTyping /\ PackageSound(p)
  BY DEF OfflineIInv
<1> DEFINE t == [envelope |-> p.envelope, network |-> p.network]
<1>2. t \in SignedType /\ t.envelope = p.envelope
  BY <1>1 DEF OfflineTyping, PackageType, SignedType
<1>3. imported' = imported \cup {t} /\ UNCHANGED <<operations, built, packages, offlineLedger, lastUsed>>
  BY DEF ImportAndSign
<1> HIDE DEF t
<1>4. OfflineTyping'
  BY <1>1, <1>2, <1>3 DEF OfflineTyping
<1>5. \A u \in imported' : WasBuilt(u.envelope)'
  BY <1>1, <1>2, <1>3 DEF OfflineIInv, PackageSound, WasBuilt
<1>6. BuiltByBuilders' /\ NumbersUsedOnce'
  BY <1>3 DEF OfflineIInv, BuiltByBuilders, NumbersUsedOnce, WasBuilt
<1>7. \A q \in packages' : PackageSound(q)'
  BY <1>3 DEF OfflineIInv, WasBuilt, PackageSound
<1>8. QED
  BY <1>4, <1>5, <1>6, <1>7 DEF OfflineIInv

\* The ledger takes a number once: the next one of the account.
LEMMA SubmitSignedKeeps ==
  ASSUME OfflineIInv, NEW t \in imported, SubmitSigned(t)
  PROVE  OfflineIInv'
<1>1. OfflineTyping /\ WasBuilt(t.envelope) /\ NumbersUsedOnce
  BY DEF OfflineIInv
<1> DEFINE a == t.envelope.account
           number == t.envelope.number
<1>2. t \in SignedType /\ a \in OfflineAccounts /\ number \in Nat
  BY <1>1 DEF OfflineTyping, SignedType, EnvelopeType
<1>3. /\ offlineLedger' = Append(offlineLedger, t) /\ number = lastUsed[a] + 1
      /\ lastUsed' = [lastUsed EXCEPT ![a] = number]
      /\ UNCHANGED <<operations, built, packages, imported>>
  BY DEF SubmitSigned
<1>4. \A m \in 1..Len(offlineLedger) : offlineLedger[m] \in SignedType
  BY <1>1 DEF OfflineTyping
<1>5. \A m \in 1..Len(offlineLedger) :
        /\ offlineLedger[m].envelope.account \in OfflineAccounts
        /\ offlineLedger[m].envelope.number \in Nat
        /\ WasBuilt(offlineLedger[m].envelope)
        /\ offlineLedger[m].envelope.number <= lastUsed[offlineLedger[m].envelope.account]
  BY <1>1, <1>4 DEF SignedType, EnvelopeType, NumbersUsedOnce
<1> HIDE DEF a, number
<1>6. /\ lastUsed' \in [OfflineAccounts -> Nat] /\ lastUsed'[a] = number
      /\ \A c \in OfflineAccounts : c # a => lastUsed'[c] = lastUsed[c]
      /\ lastUsed[a] \in Nat /\ lastUsed[a] < number
  BY <1>1, <1>2, <1>3 DEF OfflineTyping
<1>7. /\ Len(offlineLedger') = Len(offlineLedger) + 1 /\ Len(offlineLedger) \in Nat
      /\ offlineLedger'[Len(offlineLedger) + 1] = t
      /\ \A m \in 1..Len(offlineLedger) : offlineLedger'[m] = offlineLedger[m]
  BY <1>1, <1>3 DEF OfflineTyping
<1>8. OfflineTyping'
  <2>1. offlineLedger' \in Seq(SignedType)
    BY <1>1, <1>2, <1>3 DEF OfflineTyping
  <2>2. QED
    BY <1>1, <1>3, <1>6, <2>1 DEF OfflineTyping
<1>9. ASSUME NEW m \in 1..Len(offlineLedger)
      PROVE  /\ offlineLedger[m].envelope.number <= lastUsed'[offlineLedger[m].envelope.account]
             /\ offlineLedger[m].envelope.number # number \/ offlineLedger[m].envelope.account # a
  <2> DEFINE c == offlineLedger[m].envelope.account
             k == offlineLedger[m].envelope.number
  <2>1. c \in OfflineAccounts /\ k \in Nat /\ k <= lastUsed[c]
    BY <1>5, <1>9
  <2> HIDE DEF c, k
  <2>2. k <= lastUsed'[c] /\ (k # number \/ c # a)
    BY <1>2, <1>6, <2>1
  <2>3. QED
    BY <2>2 DEF c, k
<1>10. ASSUME NEW m \in 1..Len(offlineLedger')
       PROVE  m \in 1..Len(offlineLedger) \/ m = Len(offlineLedger) + 1
  BY <1>7, <1>10
<1>11. NumbersUsedOnce'
  <2>1. ASSUME NEW m \in 1..Len(offlineLedger')
        PROVE  /\ WasBuilt(offlineLedger'[m].envelope)
               /\ offlineLedger'[m].envelope.number <= lastUsed'[offlineLedger'[m].envelope.account]
    <3>1. CASE m \in 1..Len(offlineLedger)
      BY <1>5, <1>7, <1>9, <3>1
    <3>2. CASE m = Len(offlineLedger) + 1
      <4>1. offlineLedger'[m] = t
        BY <1>7, <3>2
      <4>2. t.envelope.number <= lastUsed'[t.envelope.account]
        BY <1>2, <1>6 DEF a, number
      <4>3. QED
        BY <1>1, <4>1, <4>2
    <3>3. QED
      BY <1>10, <3>1, <3>2
  <2>2. ASSUME NEW m \in 1..Len(offlineLedger'), NEW n \in 1..Len(offlineLedger'), m # n
        PROVE  \/ offlineLedger'[m].envelope.number # offlineLedger'[n].envelope.number
               \/ offlineLedger'[m].envelope.account # offlineLedger'[n].envelope.account
    <3>1. CASE m \in 1..Len(offlineLedger) /\ n \in 1..Len(offlineLedger)
      BY <1>1, <1>7, <2>2, <3>1 DEF NumbersUsedOnce
    <3>2. CASE m \in 1..Len(offlineLedger) /\ n = Len(offlineLedger) + 1
      BY <1>7, <1>9, <3>2 DEF a, number
    <3>3. CASE n \in 1..Len(offlineLedger) /\ m = Len(offlineLedger) + 1
      BY <1>7, <1>9, <3>3 DEF a, number
    <3>4. QED
      BY <1>10, <2>2, <3>1, <3>2, <3>3
  <2>3. (\A m \in 1..Len(offlineLedger) :
           /\ WasBuilt(offlineLedger[m].envelope)
           /\ offlineLedger[m].envelope.number <= lastUsed[offlineLedger[m].envelope.account])'
    <3>1. built' = built
      BY <1>3
    <3>2. QED
      BY <2>1, <3>1 DEF WasBuilt
  <2>4. QED
    BY <2>2, <2>3 DEF NumbersUsedOnce
<1>12. BuiltByBuilders' /\ (\A p \in packages' : PackageSound(p)') /\ \A u \in imported' : WasBuilt(u.envelope)'
  BY <1>3 DEF OfflineIInv, BuiltByBuilders, WasBuilt, PackageSound
<1>13. QED
  BY <1>8, <1>11, <1>12 DEF OfflineIInv

LEMMA OfflineInvStep == OfflineIInv /\ [OfflineNext]_offlineVars => OfflineIInv'
<1> SUFFICES ASSUME OfflineIInv, [OfflineNext]_offlineVars PROVE OfflineIInv'
  OBVIOUS
<1>1. ASSUME operations' \in [OfflineBuilders -> 0..MaxQueued],
             UNCHANGED <<built, packages, imported, offlineLedger, lastUsed>>
      PROVE  OfflineIInv'
  BY <1>1 DEF OfflineIInv, OfflineTyping, BuiltByBuilders, PackageSound, WasBuilt, NumbersUsedOnce
<1>2. CASE UNCHANGED offlineVars
  BY <1>1, <1>2 DEF offlineVars, OfflineIInv, OfflineTyping
<1>3. ASSUME NEW b \in OfflineBuilders, AddOperation(b) PROVE OfflineIInv'
  <2>1. operations[b] \in 0..MaxQueued /\ operations[b] < MaxQueued /\ MaxQueued \in Nat
    BY <1>3, OfflineAssumption DEF AddOperation, OfflineIInv, OfflineTyping, OfflineAssumption
  <2>2. operations[b] + 1 \in 0..MaxQueued
    BY <2>1
  <2>3. operations' \in [OfflineBuilders -> 0..MaxQueued]
    BY <1>3, <2>2 DEF AddOperation, OfflineIInv, OfflineTyping
  <2>4. QED
    BY <1>1, <1>3, <2>3 DEF AddOperation
<1>4. ASSUME NEW b \in OfflineBuilders, BuildOffline(b) \/ \E i \in DOMAIN built : Export(b, i)
      PROVE  OfflineIInv'
  BY <1>4, BuildOfflineKeeps, ExportKeeps
<1>5. ASSUME NEW p \in packages, ImportAndSign(p) PROVE OfflineIInv'
  BY <1>5, ImportKeeps
<1>6. ASSUME NEW t \in imported, SubmitSigned(t) PROVE OfflineIInv'
  BY <1>6, SubmitSignedKeeps
<1>7. QED
  BY <1>2, <1>3, <1>4, <1>5, <1>6 DEF OfflineNext

LEMMA OfflineInvMeans == OfflineIInv => OfflineTypeOK /\ PackagesTravel
<1> SUFFICES ASSUME OfflineIInv PROVE OfflineTypeOK /\ PackagesTravel
  OBVIOUS
<1>1. OfflineTyping /\ BuiltByBuilders /\ NumbersUsedOnce
  BY DEF OfflineIInv
<1>2. OfflineTypeOK
  BY <1>1 DEF OfflineTyping, OfflineTypeOK
<1>3. DOMAIN built = 1..Len(built) /\ DOMAIN offlineLedger = 1..Len(offlineLedger)
      /\ \A i \in 1..Len(built) : built[i] \in BuiltType
  BY <1>1 DEF OfflineTyping
<1>4. \A i \in DOMAIN built : built[i].count \in 1..MaxOperationsQueued
  BY <1>3 DEF BuiltType
<1>5. ASSUME NEW i \in 1..Len(built), NEW j \in 1..Len(built), built[j].builder = built[i].builder
      PROVE  built[j].number = built[i].number /\ built[j].account = built[i].account
  <2>1. PICK b \in OfflineBuilders :
          built[i].builder = b.id /\ built[i].account = b.account /\ built[i].number = b.number + 1
    BY <1>1 DEF BuiltByBuilders
  <2>2. PICK c \in OfflineBuilders :
          built[j].builder = c.id /\ built[j].account = c.account /\ built[j].number = c.number + 1
    BY <1>1 DEF BuiltByBuilders
  <2>3. b = c
    BY <1>5, <2>1, <2>2, OfflineAssumption DEF OfflineAssumption
  <2>4. QED
    BY <2>1, <2>2, <2>3
<1>6. ASSUME NEW m \in 1..Len(offlineLedger)
      PROVE  \E i \in 1..Len(built) :
               /\ EnvelopeOf(built[i]) = offlineLedger[m].envelope
               /\ \A n \in 1..Len(offlineLedger) : \A j \in 1..Len(built) :
                    n # m /\ built[j].builder = built[i].builder
                      => offlineLedger[n].envelope.number # built[j].number
                         \/ offlineLedger[n].envelope.account # built[j].account
  <2>1. PICK i \in 1..Len(built) : EnvelopeOf(built[i]) = offlineLedger[m].envelope
    BY <1>1 DEF NumbersUsedOnce, WasBuilt
  <2>2. built[i].number = offlineLedger[m].envelope.number /\ built[i].account = offlineLedger[m].envelope.account
    <3>1. EnvelopeOf(built[i]).number = built[i].number /\ EnvelopeOf(built[i]).account = built[i].account
      BY DEF EnvelopeOf
    <3>2. QED
      BY <2>1, <3>1
  <2>3. ASSUME NEW n \in 1..Len(offlineLedger), NEW j \in 1..Len(built), n # m, built[j].builder = built[i].builder
        PROVE  \/ offlineLedger[n].envelope.number # built[j].number
               \/ offlineLedger[n].envelope.account # built[j].account
    <3>1. built[j].number = built[i].number /\ built[j].account = built[i].account
      BY <1>5, <2>3
    <3>2. \/ offlineLedger[n].envelope.number # offlineLedger[m].envelope.number
          \/ offlineLedger[n].envelope.account # offlineLedger[m].envelope.account
      BY <1>1, <2>3 DEF NumbersUsedOnce
    <3>3. QED
      BY <2>2, <3>1, <3>2
  <2>4. QED
    BY <2>1, <2>3
<1>7. \A p \in packages :
        /\ p.count = p.envelope.count
        /\ p.own => p.account = p.envelope.account
  BY DEF OfflineIInv, PackageSound
<1>8. PackagesTravel
  <2>1. \A i \in 1..Len(built) :
          EnvelopeOf(built[i]) = [account |-> built[i].account, number |-> built[i].number, count |-> built[i].count]
    BY DEF EnvelopeOf
  <2>2. ASSUME NEW m \in DOMAIN offlineLedger
        PROVE  \E i \in DOMAIN built :
                 /\ [account |-> built[i].account, number |-> built[i].number, count |-> built[i].count]
                      = offlineLedger[m].envelope
                 /\ \A n \in DOMAIN offlineLedger : \A j \in DOMAIN built :
                      n # m /\ built[j].builder = built[i].builder
                        => offlineLedger[n].envelope.number # built[j].number
                           \/ offlineLedger[n].envelope.account # built[j].account
    BY <1>3, <1>6, <2>1
  <2>3. QED
    BY <1>4, <1>7, <2>2 DEF PackagesTravel
<1>9. QED
  BY <1>2, <1>8

(* What the offline builders' packages bring to the ledger is what was built, and
   of all that one builder builds the ledger takes at most one, whatever builders
   there are and however they share accounts.
   (src/builders/offlineTransactionBuilder.ts:129-190) *)
THEOREM PackagesArrive == OfflineSpec => [](OfflineTypeOK /\ PackagesTravel)
<1>1. OfflineInit => OfflineIInv
  BY OfflineInvInit
<1>2. OfflineIInv /\ [OfflineNext]_offlineVars => OfflineIInv'
  BY OfflineInvStep
<1>3. OfflineIInv => OfflineTypeOK /\ PackagesTravel
  BY OfflineInvMeans
<1>4. QED
  BY <1>1, <1>2, <1>3, PTL DEF OfflineSpec

-----------------------------------------------------------------------------
(* Calls of the vault *)

AwaitNames == {"party", "source", "preview", "network", "compose", "account", "simulate", "sign",
               "send", "poll"}
Prepend(await, todo) == <<await>> \o todo

\* What a call awaits, from one await on
FromPoll == Prepend("poll", <<>>)
FromSend == Prepend("send", FromPoll)
FromSign == Prepend("sign", FromSend)
FromSimulate == Prepend("simulate", FromSign)
FromAccount == Prepend("account", FromSimulate)
FromNetwork == Prepend("network", FromAccount)
FromCompose == Prepend("compose", <<>>)

Guarded == {FromPoll, FromSend, FromSign, FromSimulate, FromAccount, FromNetwork, FromCompose}
Previews == {Prepend("preview", FromAccount), Prepend("preview", FromNetwork)}
ReadyFor(bounded) == IF bounded THEN Previews ELSE {FromAccount, FromNetwork, FromCompose}
SourceFor(bounded) == {Prepend("source", todo) : todo \in ReadyFor(bounded)}

AccountOrNone == WalletAccounts \cup {NoAccount}
VaultKinds == {"deposit", "withdraw", "claim"}
VaultCallType ==
  [todo : Seq(AwaitNames), outcome : {"none", "returned", "thrown"}, kind : VaultKinds \cup {"none"},
   bounded : BOOLEAN, given : BOOLEAN, party : AccountOrNone, source : AccountOrNone, number : Nat,
   signer : AccountOrNone, previewed : BOOLEAN, switched : BOOLEAN]

\* Whether it is known to be for one account that the call was made for
OwnFunds(call) == call.kind # "claim" /\ ~call.given /\ ~call.switched
SourceKnown(call) ==
  call.source \in WalletAccounts /\ (OwnFunds(call) => call.party = call.source)
IsGuarded(call) == SourceKnown(call) /\ (call.bounded => call.previewed)

\* Where a call is, and what it knows by then
Under(call, account) ==
  /\ call.outcome = "none" /\ call.kind \in VaultKinds
  /\ \/ call.todo \in Guarded /\ IsGuarded(call)
     \/ call.todo \in Previews /\ SourceKnown(call)
     \/ /\ call.todo \in SourceFor(call.bounded) /\ call.kind # "deposit"
        /\ OwnFunds(call) => call.party = account
     \/ /\ call.kind = "deposit" /\ ~call.given
        /\ call.todo \in {Prepend("party", todo) : todo \in ReadyFor(call.bounded)}
     \/ /\ call.kind = "withdraw" /\ ~call.given
        /\ call.todo \in {Prepend("party", todo) : todo \in SourceFor(call.bounded)}
Staged(call, account) == call.todo = <<>> \/ Under(call, account)

IsSettled(c) == Contains(settled, c)
IsComposed(c) == Contains(composed, c)
IsSent(c) == c \in mempool \/ IsSettled(c)

VaultTyping ==
  /\ vaultCalls \in [VaultCallers -> VaultCallType]
  /\ composed \in Seq(VaultCallers) /\ settled \in Seq(VaultCallers) /\ mempool \subseteq VaultCallers
  /\ walletIn \in [account : WalletAccounts, sameNetwork : BOOLEAN]
  /\ ledgerNumbers \in [WalletAccounts -> Nat]

CallKept(c) ==
  LET call == vaultCalls[c]
  IN  /\ Staged(call, walletIn.account)
      /\ IsSent(c) => IsGuarded(call) /\ call.todo \in {<<>>, FromPoll} /\ ~IsComposed(c)
      /\ IsSettled(c) => call.signer = call.source /\ call.number <= ledgerNumbers[call.source]
      /\ IsComposed(c) => call.todo = <<>> /\ call.outcome = "returned"
      /\ call.outcome = "returned" => call.todo = <<>> /\ (IsSettled(c) \/ IsComposed(c))

NumbersTaken ==
  \A i, j \in 1..Len(settled) :
    vaultCalls[settled[i]].source = vaultCalls[settled[j]].source =>
      (vaultCalls[settled[i]].number = vaultCalls[settled[j]].number => i = j)

VaultIInv == VaultTyping /\ (\A c \in VaultCallers : CallKept(c)) /\ NumbersTaken

\* Lists of awaits
LEMMA PrependedAt ==
  ASSUME NEW s \in Seq(AwaitNames), NEW await \in AwaitNames
  PROVE  /\ Prepend(await, s) \in Seq(AwaitNames) /\ Len(Prepend(await, s)) = Len(s) + 1
         /\ Prepend(await, s)[1] = await
         /\ \A i \in 1..Len(s) : Prepend(await, s)[i + 1] = s[i]
<1>1. <<await>> \in Seq(AwaitNames) /\ Len(<<await>>) = 1 /\ <<await>>[1] = await
  OBVIOUS
<1>2. /\ <<await>> \o s \in Seq(AwaitNames) /\ Len(<<await>> \o s) = 1 + Len(s)
      /\ \A i \in 1..(1 + Len(s)) : (<<await>> \o s)[i] = IF i <= 1 THEN <<await>>[i] ELSE s[i - 1]
  <2>1. /\ <<await>> \o s \in Seq(AwaitNames)
        /\ Len(<<await>> \o s) = Len(<<await>>) + Len(s)
        /\ \A i \in 1..(Len(<<await>>) + Len(s)) :
             (<<await>> \o s)[i] = IF i <= Len(<<await>>) THEN <<await>>[i] ELSE s[i - Len(<<await>>)]
    BY <1>1, ConcatProperties
  <2>2. QED
    BY <1>1, <2>1
<1>3. Len(s) \in Nat
  OBVIOUS
<1> DEFINE u == <<await>> \o s
<1>4. Prepend(await, s) = u
  BY DEF Prepend
<1>5. /\ u \in Seq(AwaitNames) /\ Len(u) = Len(s) + 1 /\ u[1] = <<await>>[1]
      /\ \A i \in 1..Len(s) : u[i + 1] = s[i]
  <2> HIDE DEF u
  <2>1. /\ u \in Seq(AwaitNames) /\ Len(u) = 1 + Len(s)
        /\ \A i \in 1..(1 + Len(s)) : u[i] = IF i <= 1 THEN <<await>>[i] ELSE s[i - 1]
    BY <1>2 DEF u
  <2>2. u[1] = <<await>>[1]
    BY <1>3, <2>1
  <2>3. ASSUME NEW i \in 1..Len(s) PROVE u[i + 1] = s[i]
    <3>1. i + 1 \in 1..(1 + Len(s)) /\ ~(i + 1 <= 1) /\ (i + 1) - 1 = i
      BY <1>3
    <3>2. QED
      BY <2>1, <3>1
  <2>4. QED
    BY <1>3, <2>1, <2>2, <2>3
<1> HIDE DEF u
<1>6. QED
  BY <1>1, <1>4, <1>5

LEMMA Prepended ==
  ASSUME NEW s \in Seq(AwaitNames), NEW await \in AwaitNames
  PROVE  /\ Prepend(await, s) \in Seq(AwaitNames) /\ Prepend(await, s) # <<>>
         /\ Head(Prepend(await, s)) = await /\ Tail(Prepend(await, s)) = s
<1> DEFINE t == Prepend(await, s)
<1>1. /\ t \in Seq(AwaitNames) /\ Len(t) = Len(s) + 1 /\ t[1] = await
      /\ \A i \in 1..Len(s) : t[i + 1] = s[i]
  BY PrependedAt
<1>2. Len(s) \in Nat /\ <<>> \in Seq(AwaitNames) /\ Len(<<>>) = 0
  OBVIOUS
<1> HIDE DEF t
<1>3. t # <<>> /\ Head(t) = await
  <2>1. Len(t) # 0
    BY <1>1, <1>2
  <2>2. t # <<>>
    BY <1>2, <2>1
  <2>3. Head(t) = t[1]
    BY <1>1, <2>2
  <2>4. QED
    BY <1>1, <2>2, <2>3
<1>4. /\ Tail(t) \in Seq(AwaitNames) /\ Len(Tail(t)) = Len(s)
      /\ \A i \in 1..Len(Tail(t)) : Tail(t)[i] = s[i]
  <2>1. /\ Tail(t) \in Seq(AwaitNames) /\ Len(Tail(t)) = Len(t) - 1
        /\ \A i \in 1..Len(Tail(t)) : Tail(t)[i] = t[i + 1]
    BY <1>1, <1>3, HeadTailProperties
  <2>2. Len(Tail(t)) = Len(s)
    BY <1>1, <1>2, <2>1
  <2>3. QED
    BY <1>1, <2>1, <2>2
<1>5. Tail(t) = s
  BY <1>4, SeqEqual
<1>6. QED
  BY <1>1, <1>3, <1>5 DEF t

LEMMA AwaitLists ==
  /\ FromPoll \in Seq(AwaitNames) /\ FromPoll # <<>> /\ Head(FromPoll) = "poll" /\ Tail(FromPoll) = <<>>
  /\ FromSend \in Seq(AwaitNames) /\ FromSend # <<>> /\ Head(FromSend) = "send" /\ Tail(FromSend) = FromPoll
  /\ FromSign \in Seq(AwaitNames) /\ FromSign # <<>> /\ Head(FromSign) = "sign" /\ Tail(FromSign) = FromSend
  /\ FromSimulate \in Seq(AwaitNames) /\ FromSimulate # <<>> /\ Head(FromSimulate) = "simulate"
  /\ Tail(FromSimulate) = FromSign
  /\ FromAccount \in Seq(AwaitNames) /\ FromAccount # <<>> /\ Head(FromAccount) = "account"
  /\ Tail(FromAccount) = FromSimulate
  /\ FromNetwork \in Seq(AwaitNames) /\ FromNetwork # <<>> /\ Head(FromNetwork) = "network"
  /\ Tail(FromNetwork) = FromAccount
  /\ FromCompose \in Seq(AwaitNames) /\ FromCompose # <<>> /\ Head(FromCompose) = "compose"
  /\ Tail(FromCompose) = <<>>
<1>1. <<>> \in Seq(AwaitNames)
  OBVIOUS
<1>2. FromPoll \in Seq(AwaitNames) /\ FromPoll # <<>> /\ Head(FromPoll) = "poll" /\ Tail(FromPoll) = <<>>
  BY <1>1, Prepended DEF FromPoll, AwaitNames
<1>3. FromSend \in Seq(AwaitNames) /\ FromSend # <<>> /\ Head(FromSend) = "send" /\ Tail(FromSend) = FromPoll
  BY <1>2, Prepended DEF FromSend, AwaitNames
<1>4. FromSign \in Seq(AwaitNames) /\ FromSign # <<>> /\ Head(FromSign) = "sign" /\ Tail(FromSign) = FromSend
  BY <1>3, Prepended DEF FromSign, AwaitNames
<1>5. /\ FromSimulate \in Seq(AwaitNames) /\ FromSimulate # <<>> /\ Head(FromSimulate) = "simulate"
      /\ Tail(FromSimulate) = FromSign
  BY <1>4, Prepended DEF FromSimulate, AwaitNames
<1>6. /\ FromAccount \in Seq(AwaitNames) /\ FromAccount # <<>> /\ Head(FromAccount) = "account"
      /\ Tail(FromAccount) = FromSimulate
  BY <1>5, Prepended DEF FromAccount, AwaitNames
<1>7. /\ FromNetwork \in Seq(AwaitNames) /\ FromNetwork # <<>> /\ Head(FromNetwork) = "network"
      /\ Tail(FromNetwork) = FromAccount
  BY <1>6, Prepended DEF FromNetwork, AwaitNames
<1>8. /\ FromCompose \in Seq(AwaitNames) /\ FromCompose # <<>> /\ Head(FromCompose) = "compose"
      /\ Tail(FromCompose) = <<>>
  BY <1>1, Prepended DEF FromCompose, AwaitNames
<1>9. QED
  BY <1>2, <1>3, <1>4, <1>5, <1>6, <1>7, <1>8

LEMMA PreviewLists ==
  ASSUME NEW todo \in Previews
  PROVE  /\ todo \in Seq(AwaitNames) /\ todo # <<>> /\ Head(todo) = "preview"
         /\ Tail(todo) \in {FromAccount, FromNetwork}
<1>1. PICK rest \in {FromAccount, FromNetwork} : todo = Prepend("preview", rest)
  BY DEF Previews
<1>2. rest \in Seq(AwaitNames) /\ "preview" \in AwaitNames
  BY AwaitLists DEF AwaitNames
<1>3. QED
  BY <1>1, <1>2, Prepended

LEMMA EarlyLists ==
  ASSUME NEW bounded \in BOOLEAN
  PROVE  /\ \A todo \in ReadyFor(bounded) :
              /\ todo \in Seq(AwaitNames) /\ todo # <<>> /\ Head(todo) \notin {"party", "source"}
              /\ Prepend("party", todo) \in Seq(AwaitNames) /\ Prepend("party", todo) # <<>>
              /\ Head(Prepend("party", todo)) = "party" /\ Tail(Prepend("party", todo)) = todo
         /\ \A todo \in SourceFor(bounded) :
              /\ todo \in Seq(AwaitNames) /\ todo # <<>> /\ Head(todo) = "source"
              /\ Tail(todo) \in ReadyFor(bounded)
              /\ Prepend("party", todo) \in Seq(AwaitNames) /\ Prepend("party", todo) # <<>>
              /\ Head(Prepend("party", todo)) = "party" /\ Tail(Prepend("party", todo)) = todo
<1>1. ASSUME NEW todo \in ReadyFor(bounded)
      PROVE  todo \in Seq(AwaitNames) /\ todo # <<>> /\ Head(todo) \notin {"party", "source"}
  BY AwaitLists, PreviewLists DEF ReadyFor
<1>2. ASSUME NEW todo \in SourceFor(bounded)
      PROVE  /\ todo \in Seq(AwaitNames) /\ todo # <<>> /\ Head(todo) = "source"
             /\ Tail(todo) \in ReadyFor(bounded)
  <2>1. PICK ready \in ReadyFor(bounded) : todo = Prepend("source", ready)
    BY DEF SourceFor
  <2>2. ready \in Seq(AwaitNames) /\ "source" \in AwaitNames
    BY <1>1 DEF AwaitNames
  <2>3. QED
    BY <2>1, <2>2, Prepended
<1>3. ASSUME NEW todo \in Seq(AwaitNames)
      PROVE  /\ Prepend("party", todo) \in Seq(AwaitNames) /\ Prepend("party", todo) # <<>>
             /\ Head(Prepend("party", todo)) = "party" /\ Tail(Prepend("party", todo)) = todo
  <2>1. "party" \in AwaitNames
    BY DEF AwaitNames
  <2>2. QED
    BY <2>1, Prepended
<1>4. QED
  BY <1>1, <1>2, <1>3

\* What a call awaits tells which of its stages it is in.
LEMMA StageOfAwait ==
  ASSUME NEW call \in VaultCallType, NEW account, Staged(call, account), call.todo # <<>>,
         NEW await, await = Head(call.todo)
  PROVE  /\ Under(call, account)
         /\ await = "poll" => call.todo = FromPoll /\ IsGuarded(call)
         /\ await = "send" => call.todo = FromSend /\ IsGuarded(call)
         /\ await = "sign" => call.todo = FromSign /\ IsGuarded(call)
         /\ await = "simulate" => call.todo = FromSimulate /\ IsGuarded(call)
         /\ await = "account" => call.todo = FromAccount /\ IsGuarded(call)
         /\ await = "network" => call.todo = FromNetwork /\ IsGuarded(call)
         /\ await = "compose" => call.todo = FromCompose /\ IsGuarded(call)
         /\ await = "preview" => /\ SourceKnown(call)
                                 /\ Tail(call.todo) \in {FromAccount, FromNetwork}
         /\ await = "source" => /\ Tail(call.todo) \in ReadyFor(call.bounded) /\ call.kind # "deposit"
                                /\ OwnFunds(call) => call.party = account
         /\ await = "party" => \/ call.kind = "deposit" /\ ~call.given
                                  /\ Tail(call.todo) \in ReadyFor(call.bounded)
                               \/ call.kind = "withdraw" /\ ~call.given
                                  /\ Tail(call.todo) \in SourceFor(call.bounded)
<1>1. Under(call, account) /\ call.bounded \in BOOLEAN
  BY DEF Staged, VaultCallType
<1>2. CASE call.todo \in Guarded /\ IsGuarded(call)
  BY <1>1, <1>2, AwaitLists DEF Guarded
<1>3. CASE call.todo \in Previews /\ SourceKnown(call)
  BY <1>1, <1>3, PreviewLists
<1>4. CASE /\ call.todo \in SourceFor(call.bounded) /\ call.kind # "deposit"
           /\ OwnFunds(call) => call.party = account
  BY <1>1, <1>4, EarlyLists
<1>5. CASE /\ call.kind = "deposit" /\ ~call.given
           /\ call.todo \in {Prepend("party", todo) : todo \in ReadyFor(call.bounded)}
  <2>1. PICK todo \in ReadyFor(call.bounded) : call.todo = Prepend("party", todo)
    BY <1>5
  <2>2. Head(call.todo) = "party" /\ Tail(call.todo) = todo
    BY <1>1, <2>1, EarlyLists
  <2>3. QED
    BY <1>1, <1>5, <2>1, <2>2
<1>6. CASE /\ call.kind = "withdraw" /\ ~call.given
           /\ call.todo \in {Prepend("party", todo) : todo \in SourceFor(call.bounded)}
  <2>1. PICK todo \in SourceFor(call.bounded) : call.todo = Prepend("party", todo)
    BY <1>6
  <2>2. Head(call.todo) = "party" /\ Tail(call.todo) = todo
    BY <1>1, <2>1, EarlyLists
  <2>3. QED
    BY <1>1, <1>6, <2>1, <2>2
<1>7. QED
  BY <1>1, <1>2, <1>3, <1>4, <1>5, <1>6 DEF Under

\* With its source known, a call is ready for what it awaits then.
LEMMA ReadyIsUnder ==
  ASSUME NEW call \in VaultCallType, NEW account, call.outcome = "none", call.kind \in VaultKinds,
         call.todo \in ReadyFor(call.bounded), SourceKnown(call)
  PROVE  Staged(call, account)
<1>1. CASE call.bounded
  BY <1>1 DEF ReadyFor, Staged, Under
<1>2. CASE ~call.bounded
  BY <1>2 DEF ReadyFor, Staged, Under, IsGuarded, Guarded
<1>3. QED
  BY <1>1, <1>2

LEMMA AppendedContains ==
  ASSUME NEW S, NEW s \in Seq(S), NEW x \in S
  PROVE  \A y : Contains(Append(s, x), y) <=> Contains(s, y) \/ y = x
<1>1. /\ Len(Append(s, x)) = Len(s) + 1 /\ Len(s) \in Nat /\ Append(s, x)[Len(s) + 1] = x
      /\ \A i \in 1..Len(s) : Append(s, x)[i] = s[i]
  OBVIOUS
<1> DEFINE t == Append(s, x)
<1> HIDE DEF t
<1>2. /\ \A i \in 1..Len(t) : i \in 1..Len(s) \/ i = Len(s) + 1
      /\ \A i \in 1..Len(s) : i \in 1..Len(t)
      /\ Len(s) + 1 \in 1..Len(t)
  BY <1>1 DEF t
<1>3. t[Len(s) + 1] = x /\ \A i \in 1..Len(s) : t[i] = s[i]
  BY <1>1 DEF t
<1>4. \A y : Contains(t, y) <=> Contains(s, y) \/ y = x
  BY <1>2, <1>3 DEF Contains
<1>5. QED
  BY <1>4 DEF t

LEMMA NeedsThen ==
  ASSUME NEW b \in BOOLEAN, NEW await \in AwaitNames, NEW s \in Seq(AwaitNames)
  PROVE  Needs(b, await) \in Seq(AwaitNames) /\ Needs(b, await) \o s = IF b THEN Prepend(await, s) ELSE s
<1>1. CASE b
  BY <1>1 DEF Needs, Prepend
<1>2. CASE ~b
  <2>1. Needs(b, await) = <<>>
    BY <1>2 DEF Needs
  <2>2. QED
    BY <1>2, <2>1, ConcatEmptySeq
<1>3. QED
  BY <1>1, <1>2

LEMMA AwaitsAssociate ==
  \A s, t, u \in Seq(AwaitNames) : (s \o t) \o u = s \o (t \o u)
BY ConcatAssociative

LEMMA AccountList == FromAccount = <<"account", "simulate", "sign", "send", "poll">>
<1>1. FromPoll \in Seq(AwaitNames) /\ Len(FromPoll) = 1 /\ FromPoll[1] = "poll"
  <2>1. <<>> \in Seq(AwaitNames) /\ Len(<<>>) = 0 /\ "poll" \in AwaitNames
    BY DEF AwaitNames
  <2>2. /\ Prepend("poll", <<>>) \in Seq(AwaitNames) /\ Len(Prepend("poll", <<>>)) = Len(<<>>) + 1
        /\ Prepend("poll", <<>>)[1] = "poll"
    BY <2>1, PrependedAt
  <2>3. QED
    BY <2>1, <2>2 DEF FromPoll
<1>2. FromSend \in Seq(AwaitNames) /\ Len(FromSend) = 2 /\ FromSend[1] = "send" /\ FromSend[2] = "poll"
  <2>1. "send" \in AwaitNames
    BY DEF AwaitNames
  <2>2. FromPoll \in Seq(AwaitNames) /\ Len(FromPoll) = 1
    BY <1>1
  <2>3. /\ Prepend("send", FromPoll) \in Seq(AwaitNames) /\ Len(Prepend("send", FromPoll)) = Len(FromPoll) + 1
        /\ Prepend("send", FromPoll)[1] = "send"
        /\ \A i \in 1..Len(FromPoll) : Prepend("send", FromPoll)[i + 1] = FromPoll[i]
    BY <2>1, <2>2, PrependedAt
  <2>4. /\ FromSend \in Seq(AwaitNames) /\ Len(FromSend) = 2 /\ FromSend[1] = "send"
        /\ \A i \in 1..1 : FromSend[i + 1] = FromPoll[i]
    BY <2>2, <2>3 DEF FromSend
  <2>5. QED
    BY <1>1, <2>4
<1>3. /\ FromSign \in Seq(AwaitNames)
      /\ Len(FromSign) = 3
      /\ FromSign[1] = "sign"
      /\ FromSign[2] = "send"
      /\ FromSign[3] = "poll"
  <2>1. "sign" \in AwaitNames
    BY DEF AwaitNames
  <2>2. FromSend \in Seq(AwaitNames) /\ Len(FromSend) = 2
    BY <1>2
  <2>3. /\ Prepend("sign", FromSend) \in Seq(AwaitNames) /\ Len(Prepend("sign", FromSend)) = Len(FromSend) + 1
        /\ Prepend("sign", FromSend)[1] = "sign"
        /\ \A i \in 1..Len(FromSend) : Prepend("sign", FromSend)[i + 1] = FromSend[i]
    BY <2>1, <2>2, PrependedAt
  <2>4. /\ FromSign \in Seq(AwaitNames) /\ Len(FromSign) = 3 /\ FromSign[1] = "sign"
        /\ \A i \in 1..2 : FromSign[i + 1] = FromSend[i]
    BY <2>2, <2>3 DEF FromSign
  <2>5. QED
    BY <1>2, <2>4
<1>4. /\ FromSimulate \in Seq(AwaitNames)
      /\ Len(FromSimulate) = 4
      /\ FromSimulate[1] = "simulate"
      /\ FromSimulate[2] = "sign"
      /\ FromSimulate[3] = "send"
      /\ FromSimulate[4] = "poll"
  <2>1. "simulate" \in AwaitNames
    BY DEF AwaitNames
  <2>2. FromSign \in Seq(AwaitNames) /\ Len(FromSign) = 3
    BY <1>3
  <2>3. /\ Prepend("simulate", FromSign) \in Seq(AwaitNames)
        /\ Len(Prepend("simulate", FromSign)) = Len(FromSign) + 1
        /\ Prepend("simulate", FromSign)[1] = "simulate"
        /\ \A i \in 1..Len(FromSign) : Prepend("simulate", FromSign)[i + 1] = FromSign[i]
    BY <2>1, <2>2, PrependedAt
  <2>4. /\ FromSimulate \in Seq(AwaitNames) /\ Len(FromSimulate) = 4 /\ FromSimulate[1] = "simulate"
        /\ \A i \in 1..3 : FromSimulate[i + 1] = FromSign[i]
    BY <2>2, <2>3 DEF FromSimulate
  <2>5. QED
    BY <1>3, <2>4
<1>5. /\ FromAccount \in Seq(AwaitNames)
      /\ Len(FromAccount) = 5
      /\ FromAccount[1] = "account"
      /\ FromAccount[2] = "simulate"
      /\ FromAccount[3] = "sign"
      /\ FromAccount[4] = "send"
      /\ FromAccount[5] = "poll"
  <2>1. "account" \in AwaitNames
    BY DEF AwaitNames
  <2>2. FromSimulate \in Seq(AwaitNames) /\ Len(FromSimulate) = 4
    BY <1>4
  <2>3. /\ Prepend("account", FromSimulate) \in Seq(AwaitNames)
        /\ Len(Prepend("account", FromSimulate)) = Len(FromSimulate) + 1
        /\ Prepend("account", FromSimulate)[1] = "account"
        /\ \A i \in 1..Len(FromSimulate) : Prepend("account", FromSimulate)[i + 1] = FromSimulate[i]
    BY <2>1, <2>2, PrependedAt
  <2>4. /\ FromAccount \in Seq(AwaitNames) /\ Len(FromAccount) = 5 /\ FromAccount[1] = "account"
        /\ \A i \in 1..4 : FromAccount[i + 1] = FromSimulate[i]
    BY <2>2, <2>3 DEF FromAccount
  <2>5. QED
    BY <1>4, <2>4
<1> DEFINE list == <<"account", "simulate", "sign", "send", "poll">>
<1>6. /\ list \in Seq(AwaitNames) /\ Len(list) = 5 /\ list[1] = "account" /\ list[2] = "simulate"
      /\ list[3] = "sign" /\ list[4] = "send" /\ list[5] = "poll"
  BY DEF AwaitNames
<1> HIDE DEF list
<1>7. \A i \in 1..5 : i = 1 \/ i = 2 \/ i = 3 \/ i = 4 \/ i = 5
  OBVIOUS
<1>8. \A i \in 1..Len(FromAccount) : FromAccount[i] = list[i]
  BY <1>5, <1>6, <1>7
<1>9. FromAccount = list
  BY <1>5, <1>6, <1>8, SeqEqual
<1>10. QED
  BY <1>9 DEF list

\* What a call awaits when it begins
AfterSource(path, bounded) ==
  LET rest == CASE path = "builder" -> FromCompose
                [] path = "standard" -> FromNetwork
                [] OTHER -> FromAccount
  IN  IF bounded /\ path # "builder" THEN Prepend("preview", rest) ELSE rest
AfterParty(kind, path, bounded) ==
  IF kind = "deposit" THEN AfterSource(path, bounded) ELSE Prepend("source", AfterSource(path, bounded))

LEMMA AwaitsStaged ==
  ASSUME NEW kind \in VaultKinds, NEW path \in {"standard", "auth", "builder"},
         NEW bounded \in BOOLEAN, NEW given \in BOOLEAN
  PROVE  /\ AfterSource(path, bounded) \in ReadyFor(bounded /\ path # "builder")
         /\ Awaits(kind, path, bounded, given) \in Seq(AwaitNames)
         /\ Awaits(kind, path, bounded, given)
              = IF kind # "claim" /\ ~given THEN Prepend("party", AfterParty(kind, path, bounded))
                ELSE AfterParty(kind, path, bounded)
<1>1. AfterSource(path, bounded) \in ReadyFor(bounded /\ path # "builder")
  BY DEF AfterSource, ReadyFor, Previews
<1>2. /\ AfterSource(path, bounded) \in Seq(AwaitNames) /\ AfterParty(kind, path, bounded) \in Seq(AwaitNames)
      /\ {"party", "source", "preview", "network", "compose"} \subseteq AwaitNames
  <2>1. AfterSource(path, bounded) \in Seq(AwaitNames)
    BY <1>1, EarlyLists
  <2>2. {"party", "source", "preview", "network", "compose"} \subseteq AwaitNames
    BY DEF AwaitNames
  <2>3. QED
    BY <2>1, <2>2, Prepended DEF AfterParty
<1> DEFINE rest == IF path = "builder" THEN <<"compose">>
                   ELSE Needs(path = "standard", "network") \o <<"account", "simulate", "sign", "send", "poll">>
           party == Needs(kind # "claim" /\ ~given, "party")
           source == Needs(kind # "deposit", "source")
           preview == Needs(bounded /\ path # "builder", "preview")
<1>3. /\ rest \in Seq(AwaitNames)
      /\ path = "builder" => rest = FromCompose
      /\ path = "standard" => rest = FromNetwork
      /\ path = "auth" => rest = FromAccount
  <2>1. CASE path = "builder"
    <3>1. <<"compose">> \in Seq(AwaitNames) /\ <<"compose">> \o <<>> = <<"compose">>
      BY <1>2, ConcatEmptySeq
    <3>2. FromCompose = <<"compose">>
      BY <3>1 DEF FromCompose, Prepend
    <3>3. QED
      BY <2>1, <3>1, <3>2
  <2>2. CASE path # "builder"
    <3>1. rest = Needs(path = "standard", "network") \o FromAccount
      BY <2>2, AccountList
    <3>2. FromAccount \in Seq(AwaitNames) /\ "network" \in AwaitNames /\ (path = "standard") \in BOOLEAN
      BY <1>2, AwaitLists
    <3>3. Needs(path = "standard", "network") \o FromAccount
            = IF path = "standard" THEN Prepend("network", FromAccount) ELSE FromAccount
      BY <3>2, NeedsThen
    <3>4. rest = IF path = "standard" THEN Prepend("network", FromAccount) ELSE FromAccount
      BY <3>1, <3>3
    <3> HIDE DEF rest
    <3>5. FromNetwork = Prepend("network", FromAccount) /\ FromNetwork \in Seq(AwaitNames)
      BY AwaitLists DEF FromNetwork
    <3>6. QED
      BY <2>2, <3>2, <3>4, <3>5
  <2>3. QED
    BY <2>1, <2>2
<1>4. party \in Seq(AwaitNames) /\ source \in Seq(AwaitNames) /\ preview \in Seq(AwaitNames)
  BY <1>2, NeedsThen, AwaitLists
<1>5. Awaits(kind, path, bounded, given) = ((party \o source) \o preview) \o rest
  BY DEF Awaits
<1>6. preview \o rest = AfterSource(path, bounded)
  <2>1. preview \o rest = IF bounded /\ path # "builder" THEN Prepend("preview", rest) ELSE rest
    <3> HIDE DEF rest
    <3>1. "preview" \in AwaitNames /\ rest \in Seq(AwaitNames)
      BY <1>2, <1>3
    <3> DEFINE b == bounded /\ path # "builder"
    <3>2. b \in BOOLEAN
      OBVIOUS
    <3> HIDE DEF b
    <3>3. Needs(b, "preview") \o rest = IF b THEN Prepend("preview", rest) ELSE rest
      BY <3>1, <3>2, NeedsThen
    <3>4. QED
      BY <3>3 DEF b
  <2>2. QED
    BY <1>3, <2>1 DEF AfterSource
<1>7. source \o AfterSource(path, bounded) = AfterParty(kind, path, bounded)
  BY <1>2, NeedsThen DEF AfterParty
<1>8. party \o AfterParty(kind, path, bounded)
        = IF kind # "claim" /\ ~given THEN Prepend("party", AfterParty(kind, path, bounded))
          ELSE AfterParty(kind, path, bounded)
  BY <1>2, NeedsThen
<1> HIDE DEF rest, party, source, preview
<1>9. ((party \o source) \o preview) \o rest = party \o (source \o (preview \o rest))
  <2>1. party \o source \in Seq(AwaitNames) /\ preview \o rest \in Seq(AwaitNames)
    BY <1>3, <1>4, ConcatProperties
  <2>2. ((party \o source) \o preview) \o rest = (party \o source) \o (preview \o rest)
    BY <1>3, <1>4, <2>1, AwaitsAssociate, SMTT(30)
  <2>3. (party \o source) \o (preview \o rest) = party \o (source \o (preview \o rest))
    BY <1>4, <2>1, AwaitsAssociate
  <2>4. QED
    BY <2>2, <2>3
<1>10. Awaits(kind, path, bounded, given) = party \o AfterParty(kind, path, bounded)
  BY <1>5, <1>6, <1>7, <1>9
<1>11. party \o AfterParty(kind, path, bounded) \in Seq(AwaitNames)
  BY <1>2, <1>4, ConcatProperties
<1>12. QED
  BY <1>1, <1>8, <1>10, <1>11

\* A call changes; what is settled stays.
LEMMA CallMoves ==
  ASSUME VaultIInv, NEW c \in VaultCallers, NEW call \in VaultCallType,
         vaultCalls' = [vaultCalls EXCEPT ![c] = call],
         UNCHANGED <<walletIn, composed, ledgerNumbers, settled>>,
         mempool' \in {mempool, mempool \cup {c}},
         Staged(call, walletIn.account), ~IsComposed(c),
         c \in mempool' \/ IsSettled(c) => IsGuarded(call) /\ call.todo \in {<<>>, FromPoll},
         IsSettled(c) => /\ call.signer = vaultCalls[c].signer /\ call.source = vaultCalls[c].source
                         /\ call.number = vaultCalls[c].number,
         call.outcome = "returned" => call.todo = <<>> /\ IsSettled(c)
  PROVE  VaultIInv'
<1>1. VaultTyping /\ \A d \in VaultCallers : CallKept(d)
  BY DEF VaultIInv
<1>2. vaultCalls'[c] = call /\ \A d \in VaultCallers : d # c => vaultCalls'[d] = vaultCalls[d]
  BY <1>1 DEF VaultTyping
<1>3. VaultTyping'
  <2>1. vaultCalls' \in [VaultCallers -> VaultCallType]
    BY <1>1 DEF VaultTyping
  <2>2. mempool' \subseteq VaultCallers
    BY <1>1 DEF VaultTyping
  <2>3. QED
    BY <1>1, <2>1, <2>2 DEF VaultTyping
<1>4. \A d \in VaultCallers : (IsSettled(d)' <=> IsSettled(d)) /\ (IsComposed(d)' <=> IsComposed(d))
  BY DEF IsSettled, IsComposed
<1>5. CallKept(c)'
  <2>1. IsSettled(c) => call.signer = call.source /\ call.number <= ledgerNumbers[call.source]
    BY <1>1 DEF CallKept
  <2>2. QED
    BY <1>2, <1>4, <2>1 DEF CallKept, IsSent
<1>6. ASSUME NEW d \in VaultCallers, d # c PROVE CallKept(d)'
  BY <1>1, <1>2, <1>4, <1>6 DEF CallKept, IsSent
<1>7. NumbersTaken'
  <2>1. \A i \in 1..Len(settled) : settled[i] \in VaultCallers /\ IsSettled(settled[i])
    BY <1>1 DEF VaultTyping, IsSettled, Contains
  <2>2. \A i \in 1..Len(settled) :
          /\ vaultCalls'[settled[i]].source = vaultCalls[settled[i]].source
          /\ vaultCalls'[settled[i]].number = vaultCalls[settled[i]].number
    BY <1>2, <2>1
  <2>3. QED
    BY <2>2 DEF VaultIInv, NumbersTaken
<1>8. QED
  BY <1>3, <1>5, <1>6, <1>7 DEF VaultIInv

LEMMA CallAwaits ==
  ASSUME VaultIInv, NEW c \in VaultCallers, NEW await, Awaiting(c, await)
  PROVE  /\ vaultCalls[c] \in VaultCallType /\ vaultCalls[c].todo # <<>>
         /\ await = Head(vaultCalls[c].todo) /\ Tail(vaultCalls[c].todo) \in Seq(AwaitNames)
         /\ Staged(vaultCalls[c], walletIn.account)
         /\ vaultCalls[c].outcome = "none" /\ vaultCalls[c].kind \in VaultKinds
         /\ ~IsComposed(c) /\ (await # "poll" => ~IsSent(c))
<1> DEFINE call == vaultCalls[c]
<1>1. VaultTyping /\ CallKept(c)
  BY DEF VaultIInv
<1>2. call \in VaultCallType /\ call.todo # <<>> /\ await = Head(call.todo) /\ call.todo \in Seq(AwaitNames)
  BY <1>1 DEF VaultTyping, Awaiting, VaultCallType
<1>3. Staged(call, walletIn.account) /\ ~IsComposed(c)
  BY <1>1, <1>2 DEF CallKept
<1>4. Tail(call.todo) \in Seq(AwaitNames)
  BY <1>2, HeadTailProperties
<1>5. call.outcome = "none" /\ call.kind \in VaultKinds
  BY <1>2, <1>3 DEF Staged, Under
<1>6. await # "poll" => ~IsSent(c)
  BY <1>1, <1>2, AwaitLists DEF CallKept
<1>7. QED
  BY <1>2, <1>3, <1>4, <1>5, <1>6

\* A call that was not sent goes on.
LEMMA VaultCallGoesOn ==
  ASSUME VaultIInv, NEW c \in VaultCallers, NEW await, Awaiting(c, await), await # "poll",
         NEW call \in VaultCallType, vaultCalls' = [vaultCalls EXCEPT ![c] = call],
         call.outcome = "none", Staged(call, walletIn.account),
         UNCHANGED <<walletIn, composed, ledgerNumbers, settled>>,
         \/ mempool' = mempool
         \/ mempool' = mempool \cup {c} /\ IsGuarded(call) /\ call.todo = FromPoll
  PROVE  VaultIInv'
<1>1. ~IsComposed(c) /\ ~IsSettled(c) /\ c \notin mempool
  BY CallAwaits DEF IsSent
<1>2. c \in mempool' => IsGuarded(call) /\ call.todo \in {<<>>, FromPoll}
  BY <1>1
<1>3. QED
  BY <1>1, <1>2, CallMoves

NewVaultCall(todo, kind, bounded, given, party, source) ==
  [NoVaultCall EXCEPT !.todo = todo, !.kind = kind, !.bounded = bounded, !.given = given,
                      !.party = party, !.source = source]

LEMMA VaultCallBegins ==
  \A todo \in Seq(AwaitNames), kind \in VaultKinds, bounded \in BOOLEAN, given \in BOOLEAN,
     party \in AccountOrNone, source \in AccountOrNone :
    LET call == NewVaultCall(todo, kind, bounded, given, party, source)
    IN  /\ call \in VaultCallType
        /\ call.todo = todo /\ call.outcome = "none" /\ call.kind = kind /\ call.bounded = bounded
        /\ call.given = given /\ call.party = party /\ call.source = source
        /\ call.previewed = FALSE /\ call.switched = FALSE
<1> TAKE todo \in Seq(AwaitNames), kind \in VaultKinds, bounded \in BOOLEAN, given \in BOOLEAN,
         party \in AccountOrNone, source \in AccountOrNone
<1>1. /\ NoVaultCall \in VaultCallType /\ NoVaultCall.outcome = "none"
      /\ NoVaultCall.previewed = FALSE /\ NoVaultCall.switched = FALSE
  BY DEF NoVaultCall, VaultCallType, AccountOrNone
<1>2. QED
  BY <1>1 DEF VaultCallType, NewVaultCall

LEMMA CallVaultKeeps ==
  ASSUME VaultIInv, NEW c \in VaultCallers, NEW kind \in VaultKinds,
         NEW path \in {"standard", "auth", "builder"}, NEW bounded \in BOOLEAN, NEW given \in BOOLEAN,
         CallVault(c, kind, path, bounded, given)
  PROVE  VaultIInv'
<1>1. VaultTyping /\ CallKept(c)
  BY DEF VaultIInv
<1>2. walletIn.account \in WalletAccounts
  BY <1>1 DEF VaultTyping
<1>0. PICK own \in BOOLEAN : own = (bounded /\ path # "builder")
  OBVIOUS
<1> DEFINE todo == Awaits(kind, path, bounded, given)
           party == IF given THEN walletIn.account ELSE NoAccount
           source == IF given /\ kind = "deposit" THEN walletIn.account ELSE NoAccount
           call == NewVaultCall(todo, kind, own, given, party, source)
<1>3. vaultCalls' = [vaultCalls EXCEPT ![c] = call] /\ vaultCalls[c] = NoVaultCall
      /\ UNCHANGED <<walletIn, composed, ledgerNumbers, settled, mempool>>
  BY <1>0 DEF CallVault, NewVaultCall, surroundings, ledgerVars
<1>4. kind = "claim" => ~bounded /\ ~given
  BY DEF CallVault
<1>5. /\ AfterSource(path, bounded) \in ReadyFor(own) /\ todo \in Seq(AwaitNames)
      /\ todo = IF kind # "claim" /\ ~given THEN Prepend("party", AfterParty(kind, path, bounded))
                ELSE AfterParty(kind, path, bounded)
  BY <1>0, AwaitsStaged
<1>6. /\ call \in VaultCallType /\ call.todo = todo /\ call.outcome = "none" /\ call.kind = kind
      /\ call.bounded = own /\ call.given = given /\ call.party = party /\ call.source = source
      /\ call.previewed = FALSE /\ call.switched = FALSE
  <2>1. party \in AccountOrNone /\ source \in AccountOrNone
    BY <1>2 DEF AccountOrNone
  <2>2. todo \in Seq(AwaitNames)
    BY <1>5
  <2>3. call \in VaultCallType /\ call.todo = todo /\ call.outcome = "none" /\ call.kind = kind
    <3> HIDE DEF todo, party, source
    <3>1. QED
      BY <2>1, <2>2, VaultCallBegins
  <2>4. /\ call.bounded = own /\ call.given = given /\ call.party = party /\ call.source = source
        /\ call.previewed = FALSE /\ call.switched = FALSE
    <3> HIDE DEF todo, party, source
    <3>1. QED
      BY <2>1, <2>2, VaultCallBegins
  <2>5. QED
    BY <2>3, <2>4
<1> HIDE DEF call, todo
<1>7. Staged(call, walletIn.account)
  <2>1. CASE kind = "deposit"
    <3>1. AfterParty(kind, path, bounded) \in ReadyFor(own)
      BY <1>5, <2>1 DEF AfterParty
    <3>2. CASE given
      <4>1. call.todo \in ReadyFor(call.bounded)
        BY <1>5, <1>6, <3>1, <3>2
      <4>2. SourceKnown(call)
        BY <1>2, <1>6, <2>1, <3>2 DEF SourceKnown, OwnFunds
      <4>3. QED
        BY <1>6, <4>1, <4>2, ReadyIsUnder
    <3>3. CASE ~given
      <4>1. call.todo \in {Prepend("party", rest) : rest \in ReadyFor(call.bounded)}
        BY <1>5, <1>6, <2>1, <3>1, <3>3
      <4>2. QED
        BY <1>6, <2>1, <3>3, <4>1 DEF Staged, Under
    <3>4. QED
      BY <3>2, <3>3
  <2>2. CASE kind # "deposit"
    <3>1. AfterParty(kind, path, bounded) \in SourceFor(own)
      BY <1>5, <2>2 DEF AfterParty, SourceFor
    <3>2. CASE kind = "claim" \/ given
      <4>1. call.todo \in SourceFor(call.bounded) /\ ~OwnFunds(call)
        BY <1>5, <1>6, <3>1, <3>2 DEF OwnFunds
      <4>2. QED
        BY <1>6, <2>2, <4>1 DEF Staged, Under
    <3>3. CASE kind # "claim" /\ ~given
      <4>1. call.todo \in {Prepend("party", rest) : rest \in SourceFor(call.bounded)}
        BY <1>5, <1>6, <3>1, <3>3
      <4>2. kind = "withdraw"
        BY <2>2, <3>3 DEF VaultKinds
      <4>3. QED
        BY <1>6, <3>3, <4>1, <4>2 DEF Staged, Under
    <3>4. QED
      BY <3>2, <3>3
  <2>3. QED
    BY <2>1, <2>2
<1>8. ~IsSent(c) /\ ~IsComposed(c)
  <2>1. vaultCalls[c].source = NoAccount /\ vaultCalls[c].outcome = "none"
    BY <1>3 DEF NoVaultCall
  <2>2. ~IsGuarded(vaultCalls[c])
    BY <2>1, VaultAssumption DEF IsGuarded, SourceKnown, VaultAssumption
  <2>3. QED
    BY <1>1, <2>1, <2>2 DEF CallKept
<1>9. QED
  BY <1>3, <1>6, <1>7, <1>8, CallMoves DEF IsSent

\* The record of a call, with its first await done
LEMMA CallAdvances ==
  ASSUME NEW call \in VaultCallType, Tail(call.todo) \in Seq(AwaitNames), NEW account \in WalletAccounts,
         NEW number \in Nat
  PROVE  /\ [call EXCEPT !.todo = Tail(@)] \in VaultCallType
         /\ [call EXCEPT !.source = account, !.todo = Tail(@)] \in VaultCallType
         /\ [call EXCEPT !.party = account, !.source = account, !.todo = Tail(@)] \in VaultCallType
         /\ [call EXCEPT !.party = account, !.todo = Tail(@)] \in VaultCallType
         /\ [call EXCEPT !.previewed = TRUE, !.todo = Tail(@)] \in VaultCallType
         /\ [call EXCEPT !.number = number, !.todo = Tail(@)] \in VaultCallType
         /\ [call EXCEPT !.signer = account, !.todo = Tail(@)] \in VaultCallType
         /\ [call EXCEPT !.outcome = "returned", !.todo = Tail(@)] \in VaultCallType
         /\ [call EXCEPT !.outcome = "thrown", !.todo = <<>>] \in VaultCallType
<1>1. account \in AccountOrNone /\ <<>> \in Seq(AwaitNames)
  BY DEF AccountOrNone
<1>2. QED
  BY <1>1 DEF VaultCallType

LEMMA GetPartyKeeps == ASSUME VaultIInv, NEW c \in VaultCallers, GetParty(c) PROVE VaultIInv'
<1> DEFINE old == vaultCalls[c]
           account == walletIn.account
<1>1. Awaiting(c, "party") /\ UNCHANGED <<walletIn, composed, ledgerNumbers, settled, mempool>>
  BY DEF GetParty, surroundings, ledgerVars
<1>2. /\ old \in VaultCallType /\ Tail(old.todo) \in Seq(AwaitNames) /\ old.outcome = "none"
      /\ old.kind \in VaultKinds /\ Staged(old, account) /\ old.todo # <<>> /\ "party" = Head(old.todo)
  BY <1>1, CallAwaits
<1>3. account \in WalletAccounts
  BY DEF VaultIInv, VaultTyping
<1>4. \/ old.kind = "deposit" /\ Tail(old.todo) \in ReadyFor(old.bounded)
      \/ old.kind = "withdraw" /\ Tail(old.todo) \in SourceFor(old.bounded)
  BY <1>2, StageOfAwait
<1>5. CASE old.kind = "deposit" /\ Tail(old.todo) \in ReadyFor(old.bounded)
  <2> DEFINE call == [old EXCEPT !.party = account, !.source = account, !.todo = Tail(@)]
  <2>1. vaultCalls' = [vaultCalls EXCEPT ![c] = call]
    <3>1. [[old EXCEPT !.party = account, !.source = account] EXCEPT !.todo = Tail(@)] = call
      BY <1>2 DEF VaultCallType
    <3>2. QED
      BY <1>5, <3>1 DEF GetParty, GoOn
  <2>2. call \in VaultCallType
    BY <1>2, <1>3, CallAdvances
  <2>3. /\ call.todo = Tail(old.todo) /\ call.party = account /\ call.source = account
        /\ call.outcome = "none" /\ call.kind = old.kind /\ call.bounded = old.bounded
    BY <1>2 DEF VaultCallType
  <2> HIDE DEF call
  <2>4. Staged(call, account)
    BY <1>2, <1>3, <1>5, <2>2, <2>3, ReadyIsUnder DEF SourceKnown
  <2>5. QED
    BY <1>1, <2>1, <2>2, <2>3, <2>4, VaultCallGoesOn
<1>6. CASE old.kind = "withdraw" /\ Tail(old.todo) \in SourceFor(old.bounded)
  <2> DEFINE call == [old EXCEPT !.party = account, !.todo = Tail(@)]
  <2>1. vaultCalls' = [vaultCalls EXCEPT ![c] = call]
    <3>1. [[old EXCEPT !.party = account, !.source = old.source] EXCEPT !.todo = Tail(@)] = call
      BY <1>2 DEF VaultCallType
    <3>2. vaultCalls' = [vaultCalls EXCEPT ![c] =
                          [[old EXCEPT !.party = account, !.source = old.source] EXCEPT !.todo = Tail(@)]]
      BY <1>6 DEF GetParty, GoOn
    <3>3. QED
      BY <3>1, <3>2
  <2>2. call \in VaultCallType
    BY <1>2, <1>3, CallAdvances
  <2>3. /\ call.todo = Tail(old.todo) /\ call.party = account
        /\ call.outcome = "none" /\ call.kind = old.kind /\ call.bounded = old.bounded
    BY <1>2 DEF VaultCallType
  <2> HIDE DEF call
  <2>4. Staged(call, account)
    BY <1>2, <1>6, <2>3 DEF Staged, Under
  <2>5. QED
    BY <1>1, <2>1, <2>2, <2>3, <2>4, VaultCallGoesOn
<1>7. QED
  BY <1>4, <1>5, <1>6

LEMMA GetSourceKeeps == ASSUME VaultIInv, NEW c \in VaultCallers, GetSource(c) PROVE VaultIInv'
<1> DEFINE old == vaultCalls[c]
           account == walletIn.account
           call == [old EXCEPT !.source = account, !.todo = Tail(@)]
<1>1. Awaiting(c, "source") /\ UNCHANGED <<walletIn, composed, ledgerNumbers, settled, mempool>>
  BY DEF GetSource, surroundings, ledgerVars
<1>2. /\ old \in VaultCallType /\ Tail(old.todo) \in Seq(AwaitNames) /\ old.outcome = "none"
      /\ old.kind \in VaultKinds /\ Staged(old, account) /\ old.todo # <<>> /\ "source" = Head(old.todo)
  BY <1>1, CallAwaits
<1>3. account \in WalletAccounts
  BY DEF VaultIInv, VaultTyping
<1>4. Tail(old.todo) \in ReadyFor(old.bounded) /\ (OwnFunds(old) => old.party = account)
  BY <1>2, StageOfAwait
<1>5. vaultCalls' = [vaultCalls EXCEPT ![c] = call]
  <2>1. [[old EXCEPT !.source = account] EXCEPT !.todo = Tail(@)] = call
    BY <1>2 DEF VaultCallType
  <2>2. QED
    BY <2>1 DEF GetSource, GoOn
<1>6. call \in VaultCallType
  BY <1>2, <1>3, CallAdvances
<1>7. /\ call.todo = Tail(old.todo) /\ call.party = old.party /\ call.source = account
      /\ call.outcome = "none" /\ call.kind = old.kind /\ call.bounded = old.bounded
      /\ call.given = old.given /\ call.switched = old.switched
  BY <1>2 DEF VaultCallType
<1> HIDE DEF call
<1>8. SourceKnown(call)
  BY <1>3, <1>4, <1>7 DEF SourceKnown, OwnFunds
<1>9. Staged(call, account)
  BY <1>2, <1>4, <1>6, <1>7, <1>8, ReadyIsUnder
<1>10. QED
  BY <1>1, <1>5, <1>6, <1>7, <1>9, VaultCallGoesOn

LEMMA PreviewKeeps == ASSUME VaultIInv, NEW c \in VaultCallers, Preview(c) PROVE VaultIInv'
<1> DEFINE old == vaultCalls[c]
           account == walletIn.account
           call == [old EXCEPT !.previewed = TRUE, !.todo = Tail(@)]
<1>1. Awaiting(c, "preview") /\ UNCHANGED <<walletIn, composed, ledgerNumbers, settled, mempool>>
  BY DEF Preview, surroundings, ledgerVars
<1>2. /\ old \in VaultCallType /\ Tail(old.todo) \in Seq(AwaitNames) /\ old.outcome = "none"
      /\ old.kind \in VaultKinds /\ Staged(old, account) /\ old.todo # <<>> /\ "preview" = Head(old.todo)
  BY <1>1, CallAwaits
<1>3. account \in WalletAccounts
  BY DEF VaultIInv, VaultTyping
<1>4. Tail(old.todo) \in {FromAccount, FromNetwork} /\ SourceKnown(old)
  BY <1>2, StageOfAwait
<1>5. vaultCalls' = [vaultCalls EXCEPT ![c] = call]
  <2>1. [[old EXCEPT !.previewed = TRUE] EXCEPT !.todo = Tail(@)] = call
    BY <1>2 DEF VaultCallType
  <2>2. QED
    BY <2>1 DEF Preview, GoOn
<1>6. call \in VaultCallType
  BY <1>2, <1>3, CallAdvances
<1>7. /\ call.todo = Tail(old.todo) /\ call.party = old.party /\ call.source = old.source
      /\ call.outcome = "none" /\ call.kind = old.kind /\ call.previewed = TRUE
      /\ call.given = old.given /\ call.switched = old.switched
  BY <1>2 DEF VaultCallType
<1> HIDE DEF call
<1>8. IsGuarded(call)
  BY <1>4, <1>7 DEF IsGuarded, SourceKnown, OwnFunds
<1>9. Staged(call, account)
  BY <1>2, <1>4, <1>7, <1>8 DEF Staged, Under, Guarded
<1>10. QED
  BY <1>1, <1>5, <1>6, <1>7, <1>9, VaultCallGoesOn

\* The steps from the source's account to the transaction that is sent
LEMMA GuardedGoesOn ==
  ASSUME VaultIInv, NEW c \in VaultCallers, NEW await, Awaiting(c, await),
         await \in {"network", "account", "simulate", "sign", "send"},
         NEW call \in VaultCallType, vaultCalls' = [vaultCalls EXCEPT ![c] = call],
         call.todo = Tail(vaultCalls[c].todo), call.outcome = vaultCalls[c].outcome,
         call.kind = vaultCalls[c].kind, call.bounded = vaultCalls[c].bounded,
         call.given = vaultCalls[c].given, call.party = vaultCalls[c].party,
         call.source = vaultCalls[c].source, call.previewed = vaultCalls[c].previewed,
         call.switched = vaultCalls[c].switched,
         UNCHANGED <<walletIn, composed, ledgerNumbers, settled>>,
         mempool' = mempool \/ (mempool' = mempool \cup {c} /\ await = "send")
  PROVE  VaultIInv'
<1> DEFINE old == vaultCalls[c]
<1>1. /\ old \in VaultCallType /\ old.outcome = "none" /\ old.kind \in VaultKinds
      /\ Staged(old, walletIn.account) /\ old.todo # <<>> /\ await = Head(old.todo)
  BY CallAwaits
<1>2. /\ IsGuarded(old)
      /\ await = "send" => old.todo = FromSend
      /\ await = "sign" => old.todo = FromSign
      /\ await = "simulate" => old.todo = FromSimulate
      /\ await = "account" => old.todo = FromAccount
      /\ await = "network" => old.todo = FromNetwork
  BY <1>1, StageOfAwait
<1>3. call.todo \in Guarded /\ (await = "send" => call.todo = FromPoll)
  BY <1>2, AwaitLists DEF Guarded
<1>4. IsGuarded(call)
  BY <1>2 DEF IsGuarded, SourceKnown, OwnFunds
<1>5. Staged(call, walletIn.account) /\ call.outcome = "none"
  BY <1>1, <1>3, <1>4 DEF Staged, Under
<1>6. await # "poll"
  OBVIOUS
<1>7. \/ mempool' = mempool
      \/ mempool' = mempool \cup {c} /\ IsGuarded(call) /\ call.todo = FromPoll
  BY <1>3, <1>4
<1>8. QED
  BY <1>5, <1>6, <1>7, VaultCallGoesOn

LEMMA GuardedKeeps ==
  ASSUME VaultIInv, NEW c \in VaultCallers,
         ValidateNetworks(c) \/ GetAccount(c) \/ Simulate(c) \/ Sign(c) \/ Send(c)
  PROVE  VaultIInv'
<1> DEFINE old == vaultCalls[c]
<1>1. PICK await \in {"network", "account", "simulate", "sign", "send"} :
        Awaiting(c, await) /\ (ValidateNetworks(c) \/ Simulate(c) \/ Send(c) =>
                                await \in {"network", "simulate", "send"})
          /\ (GetAccount(c) => await = "account") /\ (Send(c) => await = "send")
  BY DEF ValidateNetworks, GetAccount, Simulate, Sign, Send, Awaiting
<1>2. /\ old \in VaultCallType /\ Tail(old.todo) \in Seq(AwaitNames) /\ Staged(old, walletIn.account)
      /\ old.todo # <<>> /\ await = Head(old.todo)
  BY <1>1, CallAwaits
<1>3. walletIn.account \in WalletAccounts /\ ledgerNumbers \in [WalletAccounts -> Nat]
  BY DEF VaultIInv, VaultTyping
<1>4. UNCHANGED <<walletIn, composed, ledgerNumbers, settled>>
      /\ (mempool' = mempool \/ (mempool' = mempool \cup {c} /\ await = "send"))
  BY <1>1 DEF ValidateNetworks, GetAccount, Simulate, Sign, Send, surroundings, ledgerVars
<1>5. CASE ValidateNetworks(c) \/ Simulate(c) \/ Send(c)
  <2> DEFINE call == [old EXCEPT !.todo = Tail(@)]
  <2>1. vaultCalls' = [vaultCalls EXCEPT ![c] = call]
    BY <1>5 DEF ValidateNetworks, Simulate, Send, GoOn
  <2>2. call \in VaultCallType
    BY <1>2, <1>3, CallAdvances
  <2>3. /\ call.todo = Tail(old.todo) /\ call.outcome = old.outcome /\ call.kind = old.kind
        /\ call.bounded = old.bounded /\ call.given = old.given /\ call.party = old.party
        /\ call.source = old.source /\ call.previewed = old.previewed /\ call.switched = old.switched
    BY <1>2 DEF VaultCallType
  <2> HIDE DEF call
  <2>4. QED
    BY <1>1, <1>4, <2>1, <2>2, <2>3, GuardedGoesOn
<1>6. CASE GetAccount(c)
  <2>1. IsGuarded(old)
    BY <1>1, <1>2, <1>6, StageOfAwait
  <2>2. PICK ahead \in {1, 2} : GoOn(c, [old EXCEPT !.number = ledgerNumbers[old.source] + ahead])
    BY <1>6 DEF GetAccount
  <2>3. ledgerNumbers[old.source] + ahead \in Nat
    BY <1>3, <2>1 DEF IsGuarded, SourceKnown
  <2> DEFINE number == ledgerNumbers[old.source] + ahead
  <2> HIDE DEF number
  <2> DEFINE call == [old EXCEPT !.number = number, !.todo = Tail(@)]
  <2>4. vaultCalls' = [vaultCalls EXCEPT ![c] = call]
    <3>1. [[old EXCEPT !.number = number] EXCEPT !.todo = Tail(@)] = call
      BY <1>2 DEF VaultCallType
    <3>2. QED
      BY <2>2, <3>1 DEF GoOn, number
  <2>5. call \in VaultCallType
    BY <1>2, <1>3, <2>3, CallAdvances DEF number
  <2>6. /\ call.todo = Tail(old.todo) /\ call.outcome = old.outcome /\ call.kind = old.kind
        /\ call.bounded = old.bounded /\ call.given = old.given /\ call.party = old.party
        /\ call.source = old.source /\ call.previewed = old.previewed /\ call.switched = old.switched
    BY <1>2 DEF VaultCallType
  <2> HIDE DEF call
  <2>7. QED
    BY <1>1, <1>4, <2>4, <2>5, <2>6, GuardedGoesOn
<1>7. CASE Sign(c)
  <2> DEFINE call == [old EXCEPT !.signer = walletIn.account, !.todo = Tail(@)]
  <2>1. vaultCalls' = [vaultCalls EXCEPT ![c] = call]
    <3>1. [[old EXCEPT !.signer = walletIn.account] EXCEPT !.todo = Tail(@)] = call
      BY <1>2 DEF VaultCallType
    <3>2. QED
      BY <1>7, <3>1 DEF Sign, GoOn
  <2>2. call \in VaultCallType
    BY <1>2, <1>3, CallAdvances
  <2>3. /\ call.todo = Tail(old.todo) /\ call.outcome = old.outcome /\ call.kind = old.kind
        /\ call.bounded = old.bounded /\ call.given = old.given /\ call.party = old.party
        /\ call.source = old.source /\ call.previewed = old.previewed /\ call.switched = old.switched
    BY <1>2 DEF VaultCallType
  <2> HIDE DEF call
  <2>4. QED
    BY <1>1, <1>4, <2>1, <2>2, <2>3, GuardedGoesOn
<1>8. QED
  BY <1>5, <1>6, <1>7

\* A call that returns, with its transaction settled
LEMMA PollFindsKeeps == ASSUME VaultIInv, NEW c \in VaultCallers, PollFinds(c) PROVE VaultIInv'
<1> DEFINE old == vaultCalls[c]
           account == walletIn.account
           call == [old EXCEPT !.outcome = "returned", !.todo = Tail(@)]
<1>1. Awaiting(c, "poll") /\ IsSettled(c) /\ UNCHANGED <<walletIn, composed, ledgerNumbers, settled, mempool>>
  BY DEF PollFinds, surroundings, ledgerVars, IsSettled
<1>2. /\ old \in VaultCallType /\ Tail(old.todo) \in Seq(AwaitNames) /\ ~IsComposed(c)
      /\ Staged(old, account) /\ old.todo # <<>> /\ "poll" = Head(old.todo)
  BY <1>1, CallAwaits
<1>3. account \in WalletAccounts
  BY DEF VaultIInv, VaultTyping
<1>4. old.todo = FromPoll /\ IsGuarded(old)
  BY <1>2, StageOfAwait
<1>5. vaultCalls' = [vaultCalls EXCEPT ![c] = call]
  <2>1. [[old EXCEPT !.outcome = "returned"] EXCEPT !.todo = Tail(@)] = call
    BY <1>2 DEF VaultCallType
  <2>2. QED
    BY <2>1 DEF PollFinds, GoOn
<1>6. call \in VaultCallType
  BY <1>2, <1>3, CallAdvances
<1>7. /\ call.todo = Tail(old.todo) /\ call.party = old.party /\ call.source = old.source
      /\ call.kind = old.kind /\ call.previewed = old.previewed /\ call.bounded = old.bounded
      /\ call.given = old.given /\ call.switched = old.switched /\ call.signer = old.signer
      /\ call.number = old.number
  BY <1>2 DEF VaultCallType
<1> HIDE DEF call
<1>8. IsGuarded(call) /\ call.todo = <<>>
  BY <1>4, <1>7, AwaitLists DEF IsGuarded, SourceKnown, OwnFunds
<1>9. Staged(call, account)
  BY <1>8 DEF Staged
<1>10. QED
  BY <1>1, <1>2, <1>5, <1>6, <1>7, <1>8, <1>9, CallMoves

\* A call that ends without a transaction
LEMMA CallForgotten ==
  ASSUME NEW outcome \in {"returned", "thrown"}, NEW call, call = [NoVaultCall EXCEPT !.outcome = outcome]
  PROVE  call \in VaultCallType /\ call.todo = <<>> /\ call.outcome = outcome
<1>1. NoVaultCall \in VaultCallType /\ NoVaultCall.todo = <<>>
  BY DEF NoVaultCall, VaultCallType, AccountOrNone
<1>2. QED
  BY <1>1 DEF VaultCallType

LEMMA CallThrowsKeeps == ASSUME VaultIInv, NEW c \in VaultCallers, CallThrows(c) PROVE VaultIInv'
<1> DEFINE old == vaultCalls[c]
           account == walletIn.account
           await == Head(old.todo)
           sent == c \in mempool' \/ IsSettled(c)
<1>1. Awaiting(c, await) /\ await # "compose" /\ UNCHANGED <<walletIn, composed, ledgerNumbers, settled>>
  BY DEF CallThrows, Awaiting, surroundings
<1>2. /\ old \in VaultCallType /\ Staged(old, account) /\ old.todo # <<>> /\ await = Head(old.todo)
      /\ ~IsComposed(c) /\ (await # "poll" => ~IsSent(c)) /\ Tail(old.todo) \in Seq(AwaitNames)
  BY <1>1, CallAwaits
<1>3. account \in WalletAccounts
  BY DEF VaultIInv, VaultTyping
<1>4. mempool' = mempool \/ (mempool' = mempool \cup {c} /\ await = "send")
  <2>1. PICK left \in SUBSET {c} : (left = {} \/ Awaiting(c, "send")) /\ mempool' = mempool \cup left
    BY DEF CallThrows
  <2>2. left = {} \/ left = {c}
    OBVIOUS
  <2>3. QED
    BY <2>1, <2>2 DEF Awaiting
<1>5. vaultCalls' = [vaultCalls EXCEPT ![c] = [(IF sent THEN old ELSE NoVaultCall) EXCEPT
                                                 !.todo = <<>>, !.outcome = "thrown"]]
  BY DEF CallThrows, IsSettled
<1>6. sent => IsGuarded(old)
  <2>1. sent => await \in {"poll", "send"}
    BY <1>2, <1>4 DEF IsSent
  <2>2. QED
    BY <1>2, <2>1, StageOfAwait
<1>7. CASE sent
  <2> DEFINE call == [old EXCEPT !.outcome = "thrown", !.todo = <<>>]
  <2>1. vaultCalls' = [vaultCalls EXCEPT ![c] = call]
    <3>1. [old EXCEPT !.todo = <<>>, !.outcome = "thrown"] = call
      BY <1>2 DEF VaultCallType
    <3>2. QED
      BY <1>5, <1>7, <3>1
  <2>2. call \in VaultCallType
    BY <1>2, <1>3, CallAdvances
  <2>3. /\ call.todo = <<>> /\ call.party = old.party /\ call.source = old.source
        /\ call.kind = old.kind /\ call.previewed = old.previewed /\ call.bounded = old.bounded
        /\ call.given = old.given /\ call.switched = old.switched /\ call.signer = old.signer
        /\ call.number = old.number /\ call.outcome = "thrown"
    BY <1>2 DEF VaultCallType
  <2> HIDE DEF call
  <2>4. IsGuarded(call) /\ Staged(call, account)
    BY <1>6, <1>7, <2>3 DEF IsGuarded, SourceKnown, OwnFunds, Staged
  <2>5. mempool' \in {mempool, mempool \cup {c}} /\ call.outcome # "returned"
    BY <1>4, <2>3
  <2>6. QED
    BY <1>1, <1>2, <2>1, <2>2, <2>3, <2>4, <2>5, CallMoves
<1>8. CASE ~sent
  <2> DEFINE call == [NoVaultCall EXCEPT !.outcome = "thrown"]
  <2>1. vaultCalls' = [vaultCalls EXCEPT ![c] = call]
    <3>1. [NoVaultCall EXCEPT !.todo = <<>>, !.outcome = "thrown"] = call
      <4>1. NoVaultCall \in VaultCallType /\ NoVaultCall.todo = <<>>
        BY DEF NoVaultCall, VaultCallType, AccountOrNone
      <4>2. QED
        BY <4>1 DEF VaultCallType
    <3>2. QED
      BY <1>5, <1>8, <3>1
  <2>2. call \in VaultCallType /\ call.todo = <<>> /\ call.outcome = "thrown"
    BY CallForgotten
  <2> HIDE DEF call
  <2>3. Staged(call, account) /\ call.outcome # "returned" /\ mempool' \in {mempool, mempool \cup {c}}
    BY <1>4, <2>2 DEF Staged
  <2>4. ~IsSettled(c) /\ c \notin mempool'
    BY <1>8
  <2> HIDE DEF sent
  <2>5. QED
    BY <1>1, <1>2, <2>1, <2>2, <2>3, <2>4, CallMoves
<1>9. QED
  BY <1>7, <1>8

\* The operation is added to the builder of the caller.
LEMMA ComposeKeeps == ASSUME VaultIInv, NEW c \in VaultCallers, Compose(c) PROVE VaultIInv'
<1> DEFINE call == [NoVaultCall EXCEPT !.outcome = "returned"]
<1>1. /\ Awaiting(c, "compose") /\ UNCHANGED <<walletIn, ledgerNumbers, settled, mempool>>
      /\ vaultCalls' = [vaultCalls EXCEPT ![c] = call] /\ composed' = Append(composed, c)
  BY DEF Compose, surroundings, ledgerVars
<1>2. ~IsSent(c)
  BY <1>1, CallAwaits
<1>3. call \in VaultCallType /\ call.todo = <<>> /\ call.outcome = "returned"
  BY CallForgotten
<1> HIDE DEF call
<1>4. VaultTyping /\ \A d \in VaultCallers : CallKept(d)
  BY DEF VaultIInv
<1>5. VaultTyping'
  BY <1>1, <1>3, <1>4 DEF VaultTyping
<1>6. vaultCalls'[c] = call /\ \A d \in VaultCallers : d # c => vaultCalls'[d] = vaultCalls[d]
  BY <1>1, <1>4 DEF VaultTyping
<1>7. \A d \in VaultCallers : /\ IsComposed(d)' <=> IsComposed(d) \/ d = c
                              /\ IsSettled(d)' <=> IsSettled(d)
                              /\ IsSent(d)' <=> IsSent(d)
  <2>1. \A d \in VaultCallers : Contains(Append(composed, c), d) <=> Contains(composed, d) \/ d = c
    BY <1>4, AppendedContains DEF VaultTyping
  <2>2. QED
    BY <1>1, <2>1 DEF IsComposed, IsSettled, IsSent
<1>8. CallKept(c)'
  BY <1>2, <1>3, <1>6, <1>7 DEF CallKept, Staged, IsSent
<1>9. ASSUME NEW d \in VaultCallers, d # c PROVE CallKept(d)'
  BY <1>1, <1>4, <1>6, <1>7, <1>9 DEF CallKept
<1>10. NumbersTaken'
  <2>1. \A i \in 1..Len(settled) : settled[i] \in VaultCallers /\ settled[i] # c
    BY <1>2, <1>4 DEF VaultTyping, IsSent, IsSettled, Contains
  <2>2. \A i \in 1..Len(settled) : vaultCalls'[settled[i]] = vaultCalls[settled[i]]
    BY <1>6, <2>1
  <2>3. QED
    BY <1>1, <2>2 DEF VaultIInv, NumbersTaken
<1>11. QED
  BY <1>5, <1>8, <1>9, <1>10 DEF VaultIInv

\* The ledger takes the transaction of a call, or drops it.
LEMMA LedgerTakesKeeps == ASSUME VaultIInv, NEW c \in VaultCallers, LedgerTakes(c) PROVE VaultIInv'
<1> DEFINE call == vaultCalls[c]
           took == call.signer = call.source /\ call.number = ledgerNumbers[call.source] + 1
<1>1. VaultTyping /\ NumbersTaken /\ \A d \in VaultCallers : CallKept(d)
  BY DEF VaultIInv
<1>2. c \in mempool /\ mempool' = mempool \ {c} /\ UNCHANGED <<vaultCalls, composed, walletIn>>
  BY DEF LedgerTakes, surroundings
<1>3. call \in VaultCallType /\ IsGuarded(call) /\ call.todo \in {<<>>, FromPoll} /\ ~IsComposed(c)
  BY <1>1, <1>2 DEF CallKept, IsSent, VaultTyping
<1>4. call.source \in WalletAccounts /\ call.number \in Nat
  BY <1>3 DEF IsGuarded, SourceKnown, VaultCallType
<1>5. mempool' \subseteq VaultCallers
  BY <1>1, <1>2 DEF VaultTyping
<1>6. CASE took
  <2> DEFINE numbers == [ledgerNumbers EXCEPT ![call.source] = @ + 1]
  <2>1. ledgerNumbers' = numbers /\ settled' = Append(settled, c)
    BY <1>6 DEF LedgerTakes
  <2>2. settled \in Seq(VaultCallers) /\ ledgerNumbers \in [WalletAccounts -> Nat]
    BY <1>1 DEF VaultTyping
  <2>3. /\ numbers \in [WalletAccounts -> Nat] /\ numbers[call.source] = call.number
        /\ \A a \in WalletAccounts : ledgerNumbers[a] <= numbers[a]
    BY <1>4, <1>6, <2>2
  <2> HIDE DEF numbers, took
  <2>4. \A d \in VaultCallers : IsSettled(d)' <=> IsSettled(d) \/ d = c
    BY <2>1, <2>2, AppendedContains DEF IsSettled
  <2>5. VaultTyping'
    <3>1. settled' \in Seq(VaultCallers)
      BY <2>1, <2>2
    <3>2. QED
      BY <1>1, <1>2, <1>5, <2>1, <2>3, <3>1 DEF VaultTyping
  <2>6. ASSUME NEW d \in VaultCallers PROVE CallKept(d)'
    <3>1. CallKept(d) /\ (IsComposed(d)' <=> IsComposed(d)) /\ vaultCalls'[d] = vaultCalls[d]
      BY <1>1, <1>2 DEF IsComposed
    <3>2. IsSent(d)' => IsSent(d)
      BY <1>2, <2>4 DEF IsSent
    <3>3. IsSettled(d)' => /\ vaultCalls[d].signer = vaultCalls[d].source
                           /\ vaultCalls[d].number <= ledgerNumbers'[vaultCalls[d].source]
      <4>1. CASE d = c
        BY <1>4, <1>6, <2>1, <2>3, <4>1 DEF took
      <4>2. CASE d # c
        <5>1. vaultCalls[d] \in VaultCallType
          BY <1>1 DEF VaultTyping
        <5>2. SUFFICES ASSUME IsSettled(d)
                       PROVE  /\ vaultCalls[d].signer = vaultCalls[d].source
                              /\ vaultCalls[d].number <= ledgerNumbers'[vaultCalls[d].source]
          BY <2>4, <4>2
        <5>3. /\ vaultCalls[d].signer = vaultCalls[d].source
              /\ vaultCalls[d].number <= ledgerNumbers[vaultCalls[d].source]
              /\ vaultCalls[d].source \in WalletAccounts
          BY <3>1, <5>2 DEF CallKept, IsSent, IsGuarded, SourceKnown
        <5> DEFINE before == ledgerNumbers[vaultCalls[d].source]
                   after == numbers[vaultCalls[d].source]
                   number == vaultCalls[d].number
        <5>4. before \in Nat /\ after \in Nat /\ number \in Nat /\ before <= after /\ number <= before
          BY <2>2, <2>3, <5>1, <5>3 DEF VaultCallType
        <5> HIDE DEF before, after, number
        <5>5. number <= after
          BY <5>4
        <5>6. QED
          BY <2>1, <5>3, <5>5 DEF after, number
      <4>3. QED
        BY <4>1, <4>2
    <3>4. QED
      BY <1>2, <2>4, <3>1, <3>2, <3>3 DEF CallKept
  <2>7. NumbersTaken'
    <3> DEFINE n == Len(settled)
               numberAt(i) == vaultCalls[settled[i]].number
               sourceAt(i) == vaultCalls[settled[i]].source
    <3>1. /\ n \in Nat /\ Len(settled') = n + 1 /\ settled'[n + 1] = c
          /\ \A i \in 1..n : settled'[i] = settled[i]
      BY <2>1, <2>2
    <3>2. ASSUME NEW i \in 1..n, sourceAt(i) = call.source PROVE numberAt(i) # call.number
      <4>1. settled[i] \in VaultCallers /\ IsSettled(settled[i])
        BY <2>2 DEF IsSettled, Contains
      <4>2. vaultCalls[settled[i]] \in VaultCallType
        BY <1>1, <4>1 DEF VaultTyping
      <4>3. numberAt(i) <= ledgerNumbers[call.source] /\ numberAt(i) \in Nat
        BY <1>1, <3>2, <4>1, <4>2 DEF CallKept, VaultCallType
      <4>4. call.number = ledgerNumbers[call.source] + 1 /\ ledgerNumbers[call.source] \in Nat
        BY <1>4, <1>6, <2>2 DEF took
      <4> HIDE DEF numberAt, call
      <4>5. QED
        BY <4>3, <4>4
    <3>3. \A i \in 1..Len(settled') : i \in 1..n \/ i = n + 1
      <4> HIDE DEF n
      <4>1. QED
        BY <3>1
    <3>4. ASSUME NEW i \in 1..Len(settled'), NEW j \in 1..Len(settled'),
                 vaultCalls[settled'[i]].source = vaultCalls[settled'[j]].source,
                 vaultCalls[settled'[i]].number = vaultCalls[settled'[j]].number
          PROVE  i = j
      <4>1. CASE i \in 1..n /\ j \in 1..n
        BY <1>1, <3>1, <3>4, <4>1 DEF NumbersTaken
      <4>2. CASE i \in 1..n /\ j = n + 1
        <5>1. sourceAt(i) = call.source /\ numberAt(i) = call.number
          BY <3>1, <3>4, <4>2
        <5>2. QED
          BY <3>2, <4>2, <5>1
      <4>3. CASE i = n + 1 /\ j \in 1..n
        <5>1. sourceAt(j) = call.source /\ numberAt(j) = call.number
          BY <3>1, <3>4, <4>3
        <5>2. QED
          BY <3>2, <4>3, <5>1
      <4>4. QED
        BY <3>3, <4>1, <4>2, <4>3
    <3>5. \A i, j \in 1..Len(settled') :
            vaultCalls[settled'[i]].source = vaultCalls[settled'[j]].source =>
              (vaultCalls[settled'[i]].number = vaultCalls[settled'[j]].number => i = j)
      BY <3>4
    <3>6. vaultCalls' = vaultCalls
      BY <1>2
    <3> HIDE DEF n, numberAt, sourceAt
    <3>7. QED
      BY <3>5, <3>6 DEF NumbersTaken
  <2>8. QED
    BY <2>5, <2>6, <2>7 DEF VaultIInv
<1>7. CASE ~took
  <2>1. UNCHANGED <<ledgerNumbers, settled>>
    BY <1>7 DEF LedgerTakes
  <2>2. VaultTyping'
    BY <1>1, <1>2, <1>5, <2>1 DEF VaultTyping
  <2>3. ASSUME NEW d \in VaultCallers PROVE CallKept(d)'
    BY <1>1, <1>2, <2>1 DEF CallKept, IsSent, IsSettled, IsComposed
  <2>4. NumbersTaken'
    BY <1>1, <1>2, <2>1 DEF NumbersTaken
  <2>5. QED
    BY <2>2, <2>3, <2>4 DEF VaultIInv
<1>8. QED
  BY <1>6, <1>7

\* Who switches accounts is on his own: a call that is under way says nothing any
\* more of whose funds it moves.
LEMMA SwitchAccountKeeps ==
  ASSUME VaultIInv, NEW account \in WalletAccounts, SwitchAccount(account) PROVE VaultIInv'
<1>1. VaultTyping /\ NumbersTaken /\ \A d \in VaultCallers : CallKept(d)
  BY DEF VaultIInv
<1>2. /\ UNCHANGED <<composed, ledgerNumbers, mempool, settled>>
      /\ walletIn' = [walletIn EXCEPT !.account = account]
      /\ vaultCalls' = [c \in VaultCallers |->
           [vaultCalls[c] EXCEPT !.switched = @ \/ vaultCalls[c].todo # <<>>]]
  BY DEF SwitchAccount, ledgerVars
<1>3. ASSUME NEW c \in VaultCallers
      PROVE  /\ vaultCalls'[c] = [vaultCalls[c] EXCEPT !.switched = @ \/ vaultCalls[c].todo # <<>>]
             /\ vaultCalls[c] \in VaultCallType
  BY <1>1, <1>2 DEF VaultTyping
<1>4. ASSUME NEW c \in VaultCallers
      PROVE  /\ vaultCalls'[c] \in VaultCallType
             /\ vaultCalls'[c].todo = vaultCalls[c].todo /\ vaultCalls'[c].outcome = vaultCalls[c].outcome
             /\ vaultCalls'[c].kind = vaultCalls[c].kind /\ vaultCalls'[c].bounded = vaultCalls[c].bounded
             /\ vaultCalls'[c].given = vaultCalls[c].given /\ vaultCalls'[c].party = vaultCalls[c].party
             /\ vaultCalls'[c].source = vaultCalls[c].source
             /\ vaultCalls'[c].number = vaultCalls[c].number
             /\ vaultCalls'[c].signer = vaultCalls[c].signer
             /\ vaultCalls'[c].previewed = vaultCalls[c].previewed
             /\ vaultCalls'[c].switched = (vaultCalls[c].switched \/ vaultCalls[c].todo # <<>>)
  <2>1. vaultCalls[c] \in VaultCallType /\ vaultCalls[c].switched \in BOOLEAN
    BY <1>3 DEF VaultCallType
  <2>2. PICK b \in BOOLEAN : b = (vaultCalls[c].switched \/ vaultCalls[c].todo # <<>>)
    OBVIOUS
  <2>3. vaultCalls'[c] = [vaultCalls[c] EXCEPT !.switched = b]
    BY <1>3, <2>2
  <2>4. QED
    BY <2>1, <2>2, <2>3 DEF VaultCallType
<1>5. VaultTyping'
  <2>1. vaultCalls' \in [VaultCallers -> VaultCallType]
    BY <1>2, <1>4
  <2>2. walletIn' \in [account : WalletAccounts, sameNetwork : BOOLEAN]
    BY <1>1, <1>2 DEF VaultTyping
  <2>3. QED
    BY <1>1, <1>2, <2>1, <2>2 DEF VaultTyping
<1>6. ASSUME NEW c \in VaultCallers PROVE CallKept(c)'
  <2> DEFINE old == vaultCalls[c]
             new == vaultCalls'[c]
  <2>1. CallKept(c) /\ (OwnFunds(new) => OwnFunds(old))
    BY <1>1, <1>4 DEF OwnFunds
  <2>2. IsGuarded(old) => IsGuarded(new)
    BY <1>4, <2>1 DEF IsGuarded, SourceKnown
  <2>3. SourceKnown(old) => SourceKnown(new)
    BY <1>4, <2>1 DEF SourceKnown
  <2>4. old.todo # <<>> => ~OwnFunds(new)
    BY <1>4 DEF OwnFunds
  <2>5. Staged(new, walletIn'.account)
    <3>1. CASE old.todo = <<>>
      BY <1>4, <3>1 DEF Staged
    <3>2. CASE old.todo # <<>>
      <4>1. Under(old, walletIn.account)
        BY <2>1, <3>2 DEF CallKept, Staged
      <4>2. Under(new, walletIn'.account)
        BY <1>4, <2>2, <2>3, <2>4, <3>2, <4>1 DEF Under
      <4>3. QED
        BY <4>2 DEF Staged
    <3>3. QED
      BY <3>1, <3>2
  <2>6. (IsSettled(c)' <=> IsSettled(c)) /\ (IsComposed(c)' <=> IsComposed(c)) /\ (IsSent(c)' <=> IsSent(c))
    BY <1>2 DEF IsSettled, IsComposed, IsSent
  <2>7. QED
    BY <1>2, <1>4, <2>1, <2>2, <2>5, <2>6 DEF CallKept
<1>7. NumbersTaken'
  <2>1. \A i \in 1..Len(settled) : settled[i] \in VaultCallers
    BY <1>1 DEF VaultTyping
  <2>2. QED
    BY <1>1, <1>2, <1>4, <2>1 DEF NumbersTaken
<1>8. QED
  BY <1>5, <1>6, <1>7 DEF VaultIInv

\* The invariant does not speak of the rate.
LEMMA VaultSurroundings ==
  ASSUME VaultIInv, UNCHANGED <<vaultCalls, composed, ledgerNumbers, mempool, settled>>,
         walletIn' \in [account : WalletAccounts, sameNetwork : BOOLEAN],
         walletIn'.account = walletIn.account
  PROVE  VaultIInv'
<1>1. VaultTyping'
  BY DEF VaultIInv, VaultTyping
<1>2. ASSUME NEW c \in VaultCallers PROVE CallKept(c)'
  BY DEF VaultIInv, CallKept, IsSent, IsSettled, IsComposed
<1>3. NumbersTaken'
  BY DEF VaultIInv, NumbersTaken
<1>4. QED
  BY <1>1, <1>2, <1>3 DEF VaultIInv

LEMMA VaultInvInit == VaultInit => VaultIInv
<1> SUFFICES ASSUME VaultInit PROVE VaultIInv
  OBVIOUS
<1>1. (CHOOSE a \in WalletAccounts : TRUE) \in WalletAccounts
  BY VaultAssumption DEF VaultAssumption
<1>2. NoVaultCall \in VaultCallType /\ NoVaultCall.todo = <<>> /\ NoVaultCall.outcome = "none"
  BY DEF NoVaultCall, VaultCallType, AccountOrNone
<1>3. VaultTyping
  <2>1. vaultCalls \in [VaultCallers -> VaultCallType]
    BY <1>2 DEF VaultInit
  <2>2. QED
    BY <1>1, <2>1 DEF VaultInit, VaultTyping
<1>4. ASSUME NEW c \in VaultCallers PROVE CallKept(c)
  <2>1. ~IsSettled(c) /\ ~IsComposed(c) /\ ~IsSent(c)
    BY DEF VaultInit, IsSettled, IsComposed, IsSent, Contains
  <2>2. vaultCalls[c] = NoVaultCall
    BY DEF VaultInit
  <2>3. QED
    BY <1>2, <2>1, <2>2 DEF CallKept, Staged
<1>5. NumbersTaken
  BY DEF VaultInit, NumbersTaken
<1>6. QED
  BY <1>3, <1>4, <1>5 DEF VaultIInv

LEMMA VaultInvStep == VaultIInv /\ [VaultNext]_vaultVars => VaultIInv'
<1> SUFFICES ASSUME VaultIInv, [VaultNext]_vaultVars PROVE VaultIInv'
  OBVIOUS
<1>1. ASSUME NEW c \in VaultCallers,
             NEW kind \in {"deposit", "withdraw", "claim"}, NEW path \in {"standard", "auth", "builder"},
             NEW bounded \in BOOLEAN, NEW given \in BOOLEAN, CallVault(c, kind, path, bounded, given)
      PROVE  VaultIInv'
  BY <1>1, CallVaultKeeps DEF VaultKinds
<1>2. ASSUME NEW c \in VaultCallers, GetParty(c) \/ GetSource(c) \/ Preview(c) PROVE VaultIInv'
  BY <1>2, GetPartyKeeps, GetSourceKeeps, PreviewKeeps
<1>3. ASSUME NEW c \in VaultCallers,
             ValidateNetworks(c) \/ GetAccount(c) \/ Simulate(c) \/ Sign(c) \/ Send(c)
      PROVE  VaultIInv'
  BY <1>3, GuardedKeeps
<1>4. ASSUME NEW c \in VaultCallers, LedgerTakes(c) PROVE VaultIInv'
  BY <1>4, LedgerTakesKeeps
<1>5. ASSUME NEW c \in VaultCallers, PollFinds(c) \/ Compose(c) \/ CallThrows(c) PROVE VaultIInv'
  BY <1>5, PollFindsKeeps, ComposeKeeps, CallThrowsKeeps
<1>6. ASSUME NEW account \in WalletAccounts, SwitchAccount(account) PROVE VaultIInv'
  BY <1>6, SwitchAccountKeeps
<1>7. walletIn \in [account : WalletAccounts, sameNetwork : BOOLEAN]
  BY DEF VaultIInv, VaultTyping
<1>8. CASE SwitchNetwork
  BY <1>7, <1>8, VaultSurroundings DEF SwitchNetwork, ledgerVars
<1>9. CASE MoveRate
  BY <1>7, <1>9, VaultSurroundings DEF MoveRate, ledgerVars
<1>10. CASE UNCHANGED vaultVars
  BY <1>7, <1>10, VaultSurroundings DEF vaultVars
<1>11. QED
  BY <1>1, <1>2, <1>3, <1>4, <1>5, <1>6, <1>8, <1>9, <1>10 DEF VaultNext

LEMMA VaultInvMeans == VaultIInv => VaultTypeOK /\ VaultCallsAreGuarded
<1> SUFFICES ASSUME VaultIInv PROVE VaultTypeOK /\ VaultCallsAreGuarded
  OBVIOUS
<1>1. VaultTyping /\ NumbersTaken /\ \A c \in VaultCallers : CallKept(c)
  BY DEF VaultIInv
<1>2. \A c \in VaultCallers : vaultCalls[c] \in VaultCallType
  BY <1>1 DEF VaultTyping
<1>3. settled \in Seq(VaultCallers) /\ DOMAIN settled = 1..Len(settled)
      /\ \A i \in 1..Len(settled) : settled[i] \in VaultCallers /\ IsSettled(settled[i])
  BY <1>1 DEF VaultTyping, IsSettled, Contains
<1>4. VaultTypeOK
  <2>1. Range(settled) \subseteq VaultCallers /\ mempool \subseteq VaultCallers
    BY <1>1, <1>3 DEF VaultTyping, Range
  <2>2. QED
    BY <1>2, <2>1 DEF VaultTypeOK, VaultCallType, AccountOrNone
<1>5. ASSUME NEW c \in VaultCallers, vaultCalls[c].outcome = "returned"
      PROVE  Contains(settled, c) # Contains(composed, c)
  <2>1. (IsSettled(c) \/ IsComposed(c)) /\ (IsSettled(c) => ~IsComposed(c))
    BY <1>1, <1>5 DEF CallKept, IsSent
  <2>2. IsSettled(c) \in BOOLEAN /\ IsComposed(c) \in BOOLEAN
    BY DEF IsSettled, IsComposed, Contains
  <2>3. QED
    BY <2>1, <2>2 DEF IsSettled, IsComposed
<1>6. ASSUME NEW i \in 1..Len(settled)
      PROVE  LET call == vaultCalls[settled[i]]
             IN  /\ call.signer = call.source
                 /\ call.bounded => call.previewed
                 /\ call.kind # "claim" /\ ~call.given /\ ~call.switched => call.party = call.source
  BY <1>1, <1>3, <1>6 DEF CallKept, IsSent, IsGuarded, SourceKnown, OwnFunds
<1>7. ASSUME NEW i \in 1..Len(settled), NEW j \in 1..Len(settled),
             vaultCalls[settled[j]].source = vaultCalls[settled[i]].source,
             vaultCalls[settled[j]].number = vaultCalls[settled[i]].number
      PROVE  i = j
  BY <1>1, <1>7 DEF NumbersTaken
<1>8. VaultCallsAreGuarded
  BY <1>3, <1>5, <1>6, <1>7 DEF VaultCallsAreGuarded
<1>9. QED
  BY <1>4, <1>8

(* What a vault call of packages/core comes to can be told from the ledger, for
   any number of calls, accounts and switches. *)
THEOREM VaultCallsKept == VaultSpec => [](VaultTypeOK /\ VaultCallsAreGuarded)
<1>1. VaultSpec => []VaultIInv
  BY VaultInvInit, VaultInvStep, PTL DEF VaultSpec
<1>2. QED
  BY <1>1, VaultInvMeans, PTL

-----------------------------------------------------------------------------
(* Wrapped calls of the vault *)

SchemaKinds == {"none", "builtin", "result", "strict"}
WrappedCallType ==
  [stage : {"new", "refused", "sending", "reading", "failed", "invalid", "resolved"},
   method : WrappedMethods, amount : Int, asked : SchemaKinds, judged : SchemaKinds,
   answer : {"none", "plain", "odd"}, applied : BOOLEAN, fields : [Fields -> Nat \cup {Unanswered}],
   current : [Fields -> SUBSET Nat]]

\* What is known of a call, by whether its transaction has reached the node, and by
\* the state of the contract
WrappedKept(call, sent, state) ==
  /\ call.stage \notin {"new", "refused"} /\ call.asked \in ChecksParams => call.amount > 0
  /\ sent => call.stage \notin {"new", "refused"} /\ call.method # "getVaultInfo"
  /\ call.applied => sent
  /\ call.stage = "sending" => call.method # "getVaultInfo"
  /\ call.stage \in {"invalid", "resolved"} /\ call.method # "getVaultInfo" => sent
  /\ call.stage = "invalid" => call.judged \in ChecksResult
  /\ call.stage = "resolved" /\ call.answer = "odd" => call.judged \notin ChecksResult
  /\ call.stage = "reading" =>
       /\ call.method = "getVaultInfo"
       /\ \A f \in Fields : /\ state[f] \in call.current[f]
                            /\ call.fields[f] # Unanswered => call.fields[f] \in call.current[f]
  /\ call.stage \in {"invalid", "resolved"} /\ call.method = "getVaultInfo" =>
       \A f \in Fields : call.fields[f] \in call.current[f]

ValidatedTyping ==
  /\ schemas \in [WrappedMethods -> SchemaKinds]
  /\ schemaChanges \in 0..MaxSchemaChanges /\ rewards \in 0..MaxRewards
  /\ submitted \subseteq WrappedCalls /\ vaultState \in [Fields -> Nat]
  /\ wrapped \in [WrappedCalls -> WrappedCallType]

ValidatedIInv ==
  ValidatedTyping /\ \A c \in WrappedCalls : WrappedKept(wrapped[c], c \in submitted, vaultState)

\* One call moves, while the contract stays.
LEMMA WrappedMoves ==
  ASSUME ValidatedIInv, NEW c \in WrappedCalls, NEW call \in WrappedCallType,
         wrapped' = [wrapped EXCEPT ![c] = call], submitted' \in {submitted, submitted \cup {c}},
         UNCHANGED <<schemas, schemaChanges, vaultState, rewards>>,
         WrappedKept(call, c \in submitted', vaultState)
  PROVE  ValidatedIInv'
<1>1. ValidatedTyping /\ \A d \in WrappedCalls : WrappedKept(wrapped[d], d \in submitted, vaultState)
  BY DEF ValidatedIInv
<1>2. wrapped'[c] = call /\ \A d \in WrappedCalls : d # c => wrapped'[d] = wrapped[d]
  BY <1>1 DEF ValidatedTyping
<1>3. ValidatedTyping'
  <2>1. wrapped' \in [WrappedCalls -> WrappedCallType]
    BY <1>1 DEF ValidatedTyping
  <2>2. submitted' \subseteq WrappedCalls
    BY <1>1 DEF ValidatedTyping
  <2>3. QED
    BY <1>1, <2>1, <2>2 DEF ValidatedTyping
<1>4. ASSUME NEW d \in WrappedCalls PROVE WrappedKept(wrapped'[d], d \in submitted', vaultState)
  <2>1. CASE d = c
    BY <1>2, <2>1
  <2>2. CASE d # c
    <3>1. (d \in submitted') = (d \in submitted)
      BY <2>2
    <3>2. QED
      BY <1>1, <1>2, <2>2, <3>1
  <2>3. QED
    BY <2>1, <2>2
<1>5. QED
  BY <1>3, <1>4 DEF ValidatedIInv

LEMMA ValidatedInvInit == ValidatedInit => ValidatedIInv
<1> SUFFICES ASSUME ValidatedInit PROVE ValidatedIInv
  OBVIOUS
<1>1. /\ NewCall \in WrappedCallType /\ NewCall.stage = "new" /\ ~NewCall.applied
      /\ NewCall.judged = "none" /\ NewCall.asked = "none"
  BY DEF NewCall, WrappedCallType, SchemaKinds, WrappedMethods, Unanswered
<1>2. wrapped \in [WrappedCalls -> WrappedCallType] /\ \A c \in WrappedCalls : wrapped[c] = NewCall
  BY <1>1 DEF ValidatedInit
<1>3. ValidatedTyping
  BY <1>2, ValidatedAssumption
  DEF ValidatedInit, ValidatedTyping, ValidatedAssumption, SchemaKinds, WrappedMethods
<1>4. ASSUME NEW c \in WrappedCalls PROVE WrappedKept(wrapped[c], c \in submitted, vaultState)
  BY <1>1, <1>2 DEF WrappedKept, ValidatedInit
<1>5. QED
  BY <1>3, <1>4 DEF ValidatedIInv

LEMMA CallWrappedKeeps ==
  ASSUME ValidatedIInv, NEW c \in WrappedCalls, NEW method \in WrappedMethods, NEW amount \in Int,
         NEW signer \in BOOLEAN, CallWrapped(c, method, amount, signer)
  PROVE  ValidatedIInv'
<1>1. ValidatedTyping /\ WrappedKept(wrapped[c], c \in submitted, vaultState)
  BY DEF ValidatedIInv
<1> DEFINE stage == IF ~ParamsPass(method, amount) THEN "refused"
                    ELSE IF method = "getVaultInfo" THEN "reading"
                    ELSE IF signer THEN "sending" ELSE "failed"
           current == [f \in Fields |-> {vaultState[f]}]
           call == [NewCall EXCEPT !.method = method, !.amount = amount, !.asked = schemas[method],
                                   !.current = current, !.stage = stage]
<1>2. /\ wrapped' = [wrapped EXCEPT ![c] = call] /\ wrapped[c].stage = "new"
      /\ UNCHANGED <<schemas, schemaChanges, vaultState, rewards, submitted>>
  BY DEF CallWrapped
<1>3. /\ stage \in {"refused", "reading", "sending", "failed"}
      /\ stage # "refused" /\ schemas[method] \in ChecksParams => amount > 0
      /\ stage = "reading" => method = "getVaultInfo"
      /\ stage = "sending" => method # "getVaultInfo"
  <2>1. CASE ~ParamsPass(method, amount)
    <3>1. stage = "refused"
      BY <2>1
    <3>2. QED
      BY <3>1
  <2>2. CASE ParamsPass(method, amount)
    <3>1. schemas[method] \in ChecksParams => amount > 0
      BY <2>2 DEF ParamsPass, PositiveAmount
    <3>2. CASE method = "getVaultInfo"
      <4>1. stage = "reading"
        BY <2>2, <3>2
      <4>2. QED
        BY <3>1, <3>2, <4>1
    <3>3. CASE method # "getVaultInfo" /\ signer
      <4>1. stage = "sending"
        BY <2>2, <3>3
      <4>2. QED
        BY <3>1, <3>3, <4>1
    <3>4. CASE method # "getVaultInfo" /\ ~signer
      <4>1. stage = "failed"
        BY <2>2, <3>4
      <4>2. QED
        BY <3>1, <3>4, <4>1
    <3>5. QED
      BY <3>2, <3>3, <3>4
  <2>3. QED
    BY <2>1, <2>2
<1>4. current \in [Fields -> SUBSET Nat] /\ \A f \in Fields : vaultState[f] \in current[f]
  BY <1>1 DEF ValidatedTyping
<1>5. schemas[method] \in SchemaKinds
  BY <1>1 DEF ValidatedTyping
<1>6. /\ NewCall \in WrappedCallType /\ ~NewCall.applied /\ NewCall.fields = [f \in Fields |-> Unanswered]
  BY DEF NewCall, WrappedCallType, SchemaKinds, WrappedMethods, Unanswered
<1> HIDE DEF stage, current
<1>7. /\ call \in WrappedCallType /\ call.stage = stage /\ call.method = method /\ call.amount = amount
      /\ call.asked = schemas[method] /\ call.current = current /\ ~call.applied
      /\ \A f \in Fields : call.fields[f] = Unanswered
  BY <1>3, <1>4, <1>5, <1>6 DEF WrappedCallType
<1> HIDE DEF call
<1>8. c \notin submitted
  BY <1>1, <1>2 DEF WrappedKept
<1>9. WrappedKept(call, c \in submitted, vaultState)
  BY <1>3, <1>4, <1>7, <1>8 DEF WrappedKept
<1>10. QED
  BY <1>2, <1>7, <1>9, WrappedMoves

\* The node takes a transaction, or the request of a call fails.
LEMMA NodeKeeps ==
  ASSUME ValidatedIInv, NEW c \in WrappedCalls, NodeTakes(c) \/ SendThrows(c) \/ ReadThrows(c)
  PROVE  ValidatedIInv'
<1> DEFINE old == wrapped[c]
           call == [old EXCEPT !.stage = "failed"]
<1>1. ValidatedTyping /\ WrappedKept(old, c \in submitted, vaultState) /\ old \in WrappedCallType
  BY DEF ValidatedIInv, ValidatedTyping
<1>2. CASE NodeTakes(c)
  <2>1. wrapped' = [wrapped EXCEPT ![c] = old] /\ submitted' = submitted \cup {c} /\ old.stage = "sending"
        /\ UNCHANGED <<schemas, schemaChanges, vaultState, rewards>>
    BY <1>1, <1>2 DEF NodeTakes, ValidatedTyping
  <2>2. WrappedKept(old, c \in submitted', vaultState)
    BY <1>1, <2>1 DEF WrappedKept
  <2>3. QED
    BY <1>1, <2>1, <2>2, WrappedMoves
<1>3. CASE SendThrows(c) \/ ReadThrows(c)
  <2>1. /\ wrapped' = [wrapped EXCEPT ![c] = call] /\ old.stage \in {"sending", "reading"}
        /\ UNCHANGED <<schemas, schemaChanges, vaultState, rewards, submitted>>
    BY <1>1, <1>3 DEF SendThrows, ReadThrows, ValidatedTyping
  <2>2. /\ call \in WrappedCallType /\ call.stage = "failed" /\ call.method = old.method
        /\ call.amount = old.amount /\ call.asked = old.asked /\ call.applied = old.applied
    BY <1>1 DEF WrappedCallType
  <2> HIDE DEF call
  <2>3. WrappedKept(call, c \in submitted, vaultState)
    BY <1>1, <2>1, <2>2 DEF WrappedKept
  <2>4. QED
    BY <2>1, <2>2, <2>3, WrappedMoves
<1>4. QED
  BY <1>2, <1>3

\* The result of a call is checked.
LEMMA Judged ==
  ASSUME ValidatedTyping, NEW call \in WrappedCallType, NEW answer \in {"plain", "odd"}
  PROVE  LET judged == Judge(call, answer)
         IN  /\ judged \in WrappedCallType /\ judged.stage \in {"invalid", "resolved"}
             /\ judged.stage = "invalid" => judged.judged \in ChecksResult
             /\ judged.stage = "resolved" /\ judged.answer = "odd" => judged.judged \notin ChecksResult
             /\ judged.method = call.method /\ judged.amount = call.amount /\ judged.asked = call.asked
             /\ judged.applied = call.applied /\ judged.fields = call.fields
             /\ judged.current = call.current
<1>1. schemas[call.method] \in SchemaKinds
  BY DEF ValidatedTyping, WrappedCallType
<1>2. QED
  BY <1>1 DEF Judge, SchemaForResult, WrappedCallType

LEMMA SendResolvesKeeps ==
  ASSUME ValidatedIInv, NEW c \in WrappedCalls, NEW answer \in {"plain", "odd"}, SendResolves(c, answer)
  PROVE  ValidatedIInv'
<1> DEFINE old == wrapped[c]
           call == Judge(old, answer)
<1>1. ValidatedTyping /\ WrappedKept(old, c \in submitted, vaultState) /\ old \in WrappedCallType
  BY DEF ValidatedIInv, ValidatedTyping
<1>2. /\ wrapped' = [wrapped EXCEPT ![c] = call] /\ old.stage = "sending" /\ c \in submitted
      /\ UNCHANGED <<schemas, schemaChanges, vaultState, rewards, submitted>>
  BY DEF SendResolves
<1>3. /\ call \in WrappedCallType /\ call.stage \in {"invalid", "resolved"}
      /\ call.stage = "invalid" => call.judged \in ChecksResult
      /\ call.stage = "resolved" /\ call.answer = "odd" => call.judged \notin ChecksResult
      /\ call.method = old.method /\ call.amount = old.amount /\ call.asked = old.asked
  BY <1>1, Judged
<1> HIDE DEF call
<1>4. WrappedKept(call, c \in submitted, vaultState)
  BY <1>1, <1>2, <1>3 DEF WrappedKept
<1>5. QED
  BY <1>2, <1>3, <1>4, WrappedMoves

LEMMA ReadAnswersKeeps ==
  ASSUME ValidatedIInv, NEW c \in WrappedCalls, NEW field \in Fields, NEW answer \in {"plain", "odd"},
         ReadAnswers(c, field, answer)
  PROVE  ValidatedIInv'
<1> DEFINE old == wrapped[c]
           filled == [f \in Fields |-> IF f = field THEN vaultState[field] ELSE old.fields[f]]
           read == [old EXCEPT !.fields = filled]
<1>1. ValidatedTyping /\ WrappedKept(old, c \in submitted, vaultState) /\ old \in WrappedCallType
  BY DEF ValidatedIInv, ValidatedTyping
<1>2. /\ old.stage = "reading" /\ UNCHANGED <<schemas, schemaChanges, vaultState, rewards, submitted>>
      /\ wrapped' = [wrapped EXCEPT ![c] = IF \E f \in Fields : filled[f] = Unanswered THEN read
                                           ELSE Judge(read, answer)]
  BY DEF ReadAnswers, AnsweredBy
<1>3. /\ old.method = "getVaultInfo"
      /\ \A f \in Fields : /\ vaultState[f] \in old.current[f]
                           /\ old.fields[f] # Unanswered => old.fields[f] \in old.current[f]
  BY <1>1, <1>2 DEF WrappedKept
<1>4. c \notin submitted /\ ~old.applied
  BY <1>1, <1>3 DEF WrappedKept
<1>5. /\ filled \in [Fields -> Nat \cup {Unanswered}]
      /\ \A f \in Fields : filled[f] # Unanswered => filled[f] \in old.current[f]
  <2>1. vaultState \in [Fields -> Nat] /\ old.fields \in [Fields -> Nat \cup {Unanswered}]
    BY <1>1 DEF ValidatedTyping, WrappedCallType
  <2>2. QED
    BY <1>3, <2>1
<1> HIDE DEF filled
<1>6. /\ read \in WrappedCallType /\ read.fields = filled /\ read.stage = old.stage
      /\ read.method = old.method /\ read.amount = old.amount /\ read.asked = old.asked
      /\ read.applied = old.applied /\ read.current = old.current
  BY <1>1, <1>5 DEF WrappedCallType
<1> HIDE DEF read
<1>7. CASE \E f \in Fields : filled[f] = Unanswered
  <2>1. wrapped' = [wrapped EXCEPT ![c] = read]
    BY <1>2, <1>7
  <2>2. WrappedKept(read, c \in submitted, vaultState)
    BY <1>1, <1>2, <1>3, <1>4, <1>5, <1>6 DEF WrappedKept
  <2>3. QED
    BY <1>2, <1>6, <2>1, <2>2, WrappedMoves
<1>8. CASE \A f \in Fields : filled[f] # Unanswered
  <2> DEFINE call == Judge(read, answer)
  <2>1. wrapped' = [wrapped EXCEPT ![c] = call]
    BY <1>2, <1>8
  <2>2. /\ call \in WrappedCallType /\ call.stage \in {"invalid", "resolved"}
        /\ call.stage = "invalid" => call.judged \in ChecksResult
        /\ call.stage = "resolved" /\ call.answer = "odd" => call.judged \notin ChecksResult
        /\ call.method = read.method /\ call.amount = read.amount /\ call.asked = read.asked
        /\ call.applied = read.applied /\ call.fields = read.fields /\ call.current = read.current
    BY <1>1, <1>6, Judged
  <2> HIDE DEF call
  <2>3. \A f \in Fields : call.fields[f] \in call.current[f]
    BY <1>5, <1>6, <1>8, <2>2
  <2>4. WrappedKept(call, c \in submitted, vaultState)
    BY <1>1, <1>2, <1>3, <1>4, <1>6, <2>2, <2>3 DEF WrappedKept
  <2>5. QED
    BY <1>2, <2>1, <2>2, <2>4, WrappedMoves
<1>9. QED
  BY <1>7, <1>8

\* The contract changes, as the calls that are reading see.
LEMMA ContractKeeps ==
  ASSUME NEW state \in [Fields -> Nat], NEW calls \in [WrappedCalls -> WrappedCallType],
         \A c \in WrappedCalls : WrappedKept(calls[c], c \in submitted, vaultState),
         ContractBecomes(state, calls), ValidatedTyping,
         UNCHANGED <<schemas, schemaChanges, submitted>>, rewards' \in 0..MaxRewards
  PROVE  ValidatedIInv'
<1> DEFINE seen(c) == [f \in Fields |-> calls[c].current[f] \cup {state[f]}]
           call(c) == [calls[c] EXCEPT !.current = seen(c)]
<1>1. /\ vaultState' = state
      /\ wrapped' = [c \in WrappedCalls |-> IF calls[c].stage = "reading" THEN call(c) ELSE calls[c]]
  BY DEF ContractBecomes
<1>2. ASSUME NEW c \in WrappedCalls
      PROVE  /\ call(c) \in WrappedCallType /\ call(c).current = seen(c)
             /\ call(c).stage = calls[c].stage /\ call(c).method = calls[c].method
             /\ call(c).amount = calls[c].amount /\ call(c).asked = calls[c].asked
             /\ call(c).applied = calls[c].applied /\ call(c).fields = calls[c].fields
  <2>1. calls[c] \in WrappedCallType /\ calls[c].current \in [Fields -> SUBSET Nat]
    BY DEF WrappedCallType
  <2>2. seen(c) \in [Fields -> SUBSET Nat]
    BY <2>1
  <2> HIDE DEF seen
  <2>3. QED
    BY <2>1, <2>2 DEF WrappedCallType
<1>3. \A c \in WrappedCalls : \A f \in Fields :
        seen(c)[f] = calls[c].current[f] \cup {state[f]}
  OBVIOUS
<1> HIDE DEF seen, call
<1>4. ASSUME NEW c \in WrappedCalls PROVE WrappedKept(wrapped'[c], c \in submitted', vaultState')
  <2>1. CASE calls[c].stage = "reading"
    <3>1. wrapped'[c] = call(c)
      BY <1>1, <2>1
    <3>2. /\ WrappedKept(calls[c], c \in submitted, vaultState)
          /\ \A f \in Fields : /\ state[f] \in call(c).current[f]
                               /\ calls[c].current[f] \subseteq call(c).current[f]
      BY <1>2, <1>3
    <3>3. WrappedKept(call(c), c \in submitted, state)
      BY <1>2, <2>1, <3>2 DEF WrappedKept
    <3>4. QED
      BY <1>1, <3>1, <3>3
  <2>2. CASE calls[c].stage # "reading"
    <3>1. wrapped'[c] = calls[c]
      BY <1>1, <2>2
    <3>2. WrappedKept(calls[c], c \in submitted, state)
      BY <2>2 DEF WrappedKept
    <3>3. QED
      BY <1>1, <3>1, <3>2
  <2>3. QED
    BY <2>1, <2>2
<1>5. wrapped' \in [WrappedCalls -> WrappedCallType]
  BY <1>1, <1>2
<1>6. ValidatedTyping'
  BY <1>1, <1>5 DEF ValidatedTyping
<1>7. QED
  BY <1>4, <1>6 DEF ValidatedIInv

LEMMA TransactionAppliesKeeps ==
  ASSUME ValidatedIInv, NEW c \in WrappedCalls, TransactionApplies(c) PROVE ValidatedIInv'
<1> DEFINE old == wrapped[c]
           sign == IF old.method = "deposit" THEN 1 ELSE -1
           amount == sign * old.amount
           state == [f \in Fields |-> vaultState[f] + amount]
           applied == [old EXCEPT !.applied = TRUE]
           calls == [wrapped EXCEPT ![c] = applied]
<1>1. ValidatedTyping /\ \A d \in WrappedCalls : WrappedKept(wrapped[d], d \in submitted, vaultState)
  BY DEF ValidatedIInv
<1>2. old \in WrappedCallType /\ wrapped \in [WrappedCalls -> WrappedCallType]
  BY <1>1 DEF ValidatedTyping
<1>3. /\ c \in submitted /\ UNCHANGED <<schemas, schemaChanges, rewards, submitted>>
      /\ \A f \in Fields : vaultState[f] + amount >= 0
      /\ ContractBecomes(state, [wrapped EXCEPT ![c].applied = TRUE])
  BY DEF TransactionApplies
<1>4. amount \in Int
  <2>1. old.amount \in Int
    BY <1>2 DEF WrappedCallType
  <2>2. QED
    BY <2>1
<1>5. state \in [Fields -> Nat]
  <2> HIDE DEF amount
  <2>1. vaultState \in [Fields -> Nat]
    BY <1>1 DEF ValidatedTyping
  <2>2. QED
    BY <1>3, <1>4, <2>1
<1> HIDE DEF state
<1>6. /\ applied \in WrappedCallType /\ applied.stage = old.stage /\ applied.method = old.method
      /\ applied.amount = old.amount /\ applied.asked = old.asked /\ applied.judged = old.judged
      /\ applied.answer = old.answer /\ applied.fields = old.fields /\ applied.current = old.current
  BY <1>2 DEF WrappedCallType
<1> HIDE DEF applied
<1>7. calls \in [WrappedCalls -> WrappedCallType] /\ calls[c] = applied
      /\ \A d \in WrappedCalls : d # c => calls[d] = wrapped[d]
  BY <1>2, <1>6
<1>8. [wrapped EXCEPT ![c].applied = TRUE] = calls
  BY <1>2 DEF applied
<1> HIDE DEF calls
<1>9. ASSUME NEW d \in WrappedCalls PROVE WrappedKept(calls[d], d \in submitted, vaultState)
  <2>1. CASE d = c
    <3>1. WrappedKept(old, c \in submitted, vaultState)
      BY <1>1
    <3>2. WrappedKept(applied, c \in submitted, vaultState)
      BY <1>3, <1>6, <3>1 DEF WrappedKept
    <3>3. QED
      BY <1>7, <2>1, <3>2
  <2>2. CASE d # c
    BY <1>1, <1>7, <2>2
  <2>3. QED
    BY <2>1, <2>2
<1>10. ContractBecomes(state, calls) /\ rewards' \in 0..MaxRewards
  BY <1>1, <1>3, <1>8 DEF ValidatedTyping
<1>11. QED
  BY <1>1, <1>3, <1>5, <1>7, <1>9, <1>10, ContractKeeps

LEMMA RewardArrivesKeeps == ASSUME ValidatedIInv, RewardArrives PROVE ValidatedIInv'
<1> DEFINE state == [vaultState EXCEPT !.totalAssets = @ + 1]
<1>1. ValidatedTyping /\ \A d \in WrappedCalls : WrappedKept(wrapped[d], d \in submitted, vaultState)
  BY DEF ValidatedIInv
<1>2. state \in [Fields -> Nat] /\ wrapped \in [WrappedCalls -> WrappedCallType]
  BY <1>1 DEF ValidatedTyping
<1>3. ContractBecomes(state, wrapped) /\ UNCHANGED <<schemas, schemaChanges, submitted>>
  BY DEF RewardArrives
<1>4. rewards' \in 0..MaxRewards
  BY <1>1, ValidatedAssumption DEF RewardArrives, ValidatedTyping, ValidatedAssumption
<1> HIDE DEF state
<1>5. QED
  BY <1>1, <1>2, <1>3, <1>4, ContractKeeps

LEMMA ValidatedInvStep == ValidatedIInv /\ [ValidatedNext]_validatedVars => ValidatedIInv'
<1> SUFFICES ASSUME ValidatedIInv, [ValidatedNext]_validatedVars PROVE ValidatedIInv'
  OBVIOUS
<1>1. ASSUME NEW method \in WrappedMethods, NEW kind \in {"none", "builtin", "result", "strict"},
             ChangeSchema(method, kind)
      PROVE  ValidatedIInv'
  <2>1. schemas' \in [WrappedMethods -> SchemaKinds] /\ schemaChanges' \in 0..MaxSchemaChanges
    BY <1>1, ValidatedAssumption
    DEF ChangeSchema, ValidatedIInv, ValidatedTyping, SchemaKinds, ValidatedAssumption
  <2>2. UNCHANGED <<wrapped, vaultState, rewards, submitted>>
    BY <1>1 DEF ChangeSchema
  <2>3. QED
    BY <2>1, <2>2 DEF ValidatedIInv, ValidatedTyping
<1>2. ASSUME NEW c \in WrappedCalls, NEW method \in {"deposit", "withdraw"}, NEW amount \in CallAmounts,
             NEW signer \in BOOLEAN, CallWrapped(c, method, amount, signer)
      PROVE  ValidatedIInv'
  <2>1. method \in WrappedMethods /\ amount \in Int
    BY ValidatedAssumption DEF WrappedMethods, ValidatedAssumption
  <2>2. QED
    BY <1>2, <2>1, CallWrappedKeeps
<1>3. ASSUME NEW c \in WrappedCalls, CallWrapped(c, "getVaultInfo", 1, FALSE) PROVE ValidatedIInv'
  <2>1. "getVaultInfo" \in WrappedMethods /\ 1 \in Int /\ FALSE \in BOOLEAN
    BY DEF WrappedMethods
  <2>2. QED
    BY <1>3, <2>1, CallWrappedKeeps
<1>4. ASSUME NEW c \in WrappedCalls, NodeTakes(c) \/ SendThrows(c) \/ ReadThrows(c) PROVE ValidatedIInv'
  BY <1>4, NodeKeeps
<1>5. ASSUME NEW c \in WrappedCalls, TransactionApplies(c) PROVE ValidatedIInv'
  BY <1>5, TransactionAppliesKeeps
<1>6. ASSUME NEW c \in WrappedCalls, NEW answer \in {"plain", "odd"}, SendResolves(c, answer)
      PROVE  ValidatedIInv'
  BY <1>6, SendResolvesKeeps
<1>7. ASSUME NEW c \in WrappedCalls, NEW answer \in {"plain", "odd"}, NEW field \in Fields,
             ReadAnswers(c, field, answer)
      PROVE  ValidatedIInv'
  BY <1>7, ReadAnswersKeeps
<1>8. CASE RewardArrives
  BY <1>8, RewardArrivesKeeps
<1>9. CASE UNCHANGED validatedVars
  BY <1>9 DEF validatedVars, ValidatedIInv, ValidatedTyping
<1>10. QED
  BY <1>1, <1>2, <1>3, <1>4, <1>5, <1>6, <1>7, <1>8, <1>9 DEF ValidatedNext

\* What is kept is what the run checks.
LEMMA ValidatedInvMeans == ValidatedIInv => ValidatedTypeOK /\ WrappedCallsAreChecked
<1>1. ValidatedIInv => ValidatedTypeOK
  BY DEF ValidatedIInv, ValidatedTyping, ValidatedTypeOK, WrappedCallType, SchemaKinds
<1>2. ValidatedIInv => WrappedCallsAreChecked
  BY DEF ValidatedIInv, WrappedKept, WrappedCallsAreChecked
<1>3. QED
  BY <1>1, <1>2

(* A wrapped call of src's Vault is checked before it sends anything and before it
   hands over a result, whatever schemas come and go, for any calls and amounts. *)
THEOREM WrappedCallsJudged == ValidatedSpec => [](ValidatedTypeOK /\ WrappedCallsAreChecked)
<1>1. ValidatedSpec => []ValidatedIInv
  BY ValidatedInvInit, ValidatedInvStep, PTL DEF ValidatedSpec
<1>2. QED
  BY <1>1, ValidatedInvMeans, PTL

-----------------------------------------------------------------------------
(* The wallet the hooks show *)

Addresses == Accounts \cup {NoAddress}
NoExtension == {"absent", "broken"}
WalletReplies == {"none", "error", "unavailable", "denied"}
WalletReadType ==
  [stage : {"none", "availability", "address"}, access : BOOLEAN,
   answer : WalletReplies \cup Addresses, at : Nat]
ShownWalletType ==
  [publicKey : Addresses, available : BOOLEAN, connected : BOOLEAN, loading : BOOLEAN, error : BOOLEAN]

WalletTyping ==
  /\ connectorKind \in {"installed", "absent", "broken", "own"} /\ mounted \in BOOLEAN
  /\ extension \in [account : Accounts, allowed : BOOLEAN, changes : 0..MaxChanges]
  /\ shownWallet \in ShownWalletType /\ walletReads \in [Reads -> WalletReadType]
  /\ watcher \in {"none", "loading", "on", "stopped"}
  /\ reported \in -1..MaxChanges /\ newest \in 0..MaxChanges /\ overtaken \in BOOLEAN

\* What is shown and reported is not ahead of the extension.
ShownInOrder ==
  /\ newest <= extension.changes /\ reported <= newest
  /\ reported >= 0 => connectorKind = "installed"

\* An answer is true as long as the extension has not changed since.
ReadKept(read) ==
  /\ read.at <= extension.changes
  /\ connectorKind \in NoExtension => read.stage # "address" /\ read.answer \in {"none", "unavailable"}
  /\ read.answer = "unavailable" => connectorKind \in NoExtension
  /\ connectorKind = "own" => read.stage # "availability"
  /\ read.at = extension.changes =>
       \/ read.answer \in {"none", "error", "unavailable"} \/ read.answer = AddressNow
       \/ read.answer = "denied" /\ AddressNow = NoAddress

ShownKept ==
  /\ reported = extension.changes =>
       shownWallet.publicKey = AddressNow \/ shownWallet.error \/ overtaken
  /\ mounted /\ shownWallet.loading => \E r \in Reads : walletReads[r].stage # "none"
  /\ shownWallet.connected => shownWallet.available /\ shownWallet.publicKey # NoAddress
  /\ shownWallet.connected => connectorKind \notin NoExtension
  /\ ~mounted => watcher # "on"

WalletIInv ==
  WalletTyping /\ ShownInOrder /\ (\A r \in Reads : ReadKept(walletReads[r])) /\ ShownKept

LEMMA WalletInvInit == WalletInit => WalletIInv
<1> SUFFICES ASSUME WalletInit PROVE WalletIInv
  OBVIOUS
<1>1. MaxChanges \in Nat /\ (CHOOSE a \in Accounts : TRUE) \in Accounts
      /\ (CHOOSE first \in Reads : TRUE) \in Reads
  BY WalletContextAssumption DEF WalletContextAssumption
<1>2. /\ NoRead \in WalletReadType /\ NoRead.stage = "none" /\ NoRead.answer = "none" /\ NoRead.at = 0
      /\ \A stage \in {"availability", "address"} :
           LET read == [NoRead EXCEPT !.stage = stage]
           IN  read \in WalletReadType /\ read.stage = stage /\ read.answer = "none" /\ read.at = 0
  BY DEF NoRead, WalletReadType, WalletReplies
<1> DEFINE first == CHOOSE f \in Reads : TRUE
           stage == IF ViaFreighter THEN "availability" ELSE "address"
<1>3. /\ stage \in {"availability", "address"} /\ first \in Reads
      /\ connectorKind \in NoExtension => stage = "availability"
      /\ connectorKind = "own" => stage = "address"
  BY <1>1 DEF ViaFreighter, NoExtension
<1>4. walletReads = [r \in Reads |-> IF r = first THEN [NoRead EXCEPT !.stage = stage] ELSE NoRead]
  BY DEF WalletInit
<1> HIDE DEF first, stage
<1>5. /\ walletReads \in [Reads -> WalletReadType] /\ walletReads[first].stage = stage
      /\ \A r \in Reads : /\ walletReads[r].answer = "none" /\ walletReads[r].at = 0
                          /\ walletReads[r].stage \in {"none", stage}
  BY <1>2, <1>3, <1>4
<1>6. /\ extension \in [account : Accounts, allowed : BOOLEAN, changes : 0..MaxChanges]
      /\ extension.changes = 0
  BY <1>1 DEF WalletInit
<1>7. shownWallet \in ShownWalletType /\ ~shownWallet.connected
  BY DEF WalletInit, ShownWalletType, Addresses
<1>8. WalletTyping
  <2>1. watcher \in {"none", "loading", "on", "stopped"}
    BY DEF WalletInit
  <2>2. reported \in -1..MaxChanges /\ newest \in 0..MaxChanges
    <3>1. reported = -1 /\ newest = 0
      BY DEF WalletInit
    <3>2. QED
      BY <1>1, <3>1
  <2>5. overtaken \in BOOLEAN
    BY DEF WalletInit
  <2>3. connectorKind \in {"installed", "absent", "broken", "own"} /\ mounted \in BOOLEAN
    BY DEF WalletInit
  <2>4. QED
    BY <1>5, <1>6, <1>7, <2>1, <2>2, <2>3, <2>5 DEF WalletTyping
<1>9. ShownInOrder
  BY <1>6 DEF WalletInit, ShownInOrder
<1>10. ASSUME NEW r \in Reads PROVE ReadKept(walletReads[r])
  BY <1>3, <1>5, <1>6 DEF ReadKept
<1>11. ShownKept
  BY <1>3, <1>5, <1>6, <1>7 DEF WalletInit, ShownKept
<1>12. QED
  BY <1>8, <1>9, <1>10, <1>11 DEF WalletIInv

\* One read moves, while the extension stays.
LEMMA ReadMoves ==
  ASSUME WalletIInv, NEW r \in Reads, NEW read \in WalletReadType, ReadKept(read), read.stage # "none",
         walletReads' = [walletReads EXCEPT ![r] = read], shownWallet' \in ShownWalletType,
         UNCHANGED <<connectorKind, mounted, extension, watcher, reported, newest, overtaken>>,
         shownWallet'.publicKey = shownWallet.publicKey,
         shownWallet'.available = shownWallet.available,
         shownWallet'.connected = shownWallet.connected, shownWallet'.error = shownWallet.error
  PROVE  WalletIInv'
<1>1. WalletTyping /\ ShownInOrder /\ ShownKept /\ \A q \in Reads : ReadKept(walletReads[q])
  BY DEF WalletIInv
<1>2. walletReads'[r] = read /\ \A q \in Reads : q # r => walletReads'[q] = walletReads[q]
  BY <1>1 DEF WalletTyping
<1>3. WalletTyping'
  BY <1>1 DEF WalletTyping
<1>4. AddressNow' = AddressNow
  BY DEF AddressNow, ViaFreighter
<1>5. ASSUME NEW q \in Reads PROVE ReadKept(walletReads[q])'
  BY <1>1, <1>2, <1>4 DEF ReadKept
<1>6. ShownKept'
  BY <1>1, <1>2, <1>4 DEF ShownKept
<1>7. ShownInOrder'
  BY <1>1 DEF ShownInOrder
<1>8. QED
  BY <1>3, <1>5, <1>6, <1>7 DEF WalletIInv

LEMMA StartReadKeeps ==
  ASSUME WalletIInv, NEW r \in Reads, NEW access \in BOOLEAN, StartRead(r, access) PROVE WalletIInv'
<1>1. WalletTyping /\ extension.changes \in Nat /\ extension.changes >= 0
  BY WalletContextAssumption DEF WalletIInv, WalletTyping, WalletContextAssumption
<1> DEFINE stage == IF ViaFreighter THEN "availability" ELSE "address"
           read == [NoRead EXCEPT !.stage = stage, !.access = access]
<1>2. /\ walletReads' = [walletReads EXCEPT ![r] = read]
      /\ shownWallet' = [shownWallet EXCEPT !.loading = TRUE]
      /\ UNCHANGED <<connectorKind, mounted, extension, watcher, reported, newest, overtaken>>
  BY DEF StartRead
<1>3. stage \in {"availability", "address"} /\ (connectorKind \in NoExtension => stage = "availability")
      /\ (connectorKind = "own" => stage = "address")
  BY DEF ViaFreighter, NoExtension
<1> HIDE DEF stage
<1>4. read \in WalletReadType /\ read.stage = stage /\ read.answer = "none" /\ read.at = 0
  BY <1>3 DEF NoRead, WalletReadType, WalletReplies
<1> HIDE DEF read
<1>5. ReadKept(read)
  BY <1>1, <1>3, <1>4 DEF ReadKept
<1>6. /\ shownWallet' \in ShownWalletType /\ shownWallet'.publicKey = shownWallet.publicKey
      /\ shownWallet'.available = shownWallet.available
      /\ shownWallet'.connected = shownWallet.connected /\ shownWallet'.error = shownWallet.error
  BY <1>1, <1>2 DEF WalletTyping, ShownWalletType
<1>7. QED
  BY <1>2, <1>3, <1>4, <1>5, <1>6, ReadMoves

\* The extension changes: what was read of it before is no longer held against it.
LEMMA ExtensionMoves ==
  ASSUME WalletIInv, NEW changed \in [account : Accounts, allowed : BOOLEAN, changes : 0..MaxChanges],
         changed.changes = extension.changes + 1, extension' = changed,
         UNCHANGED <<connectorKind, mounted, shownWallet, watcher, reported, newest, overtaken>>,
         walletReads' \in [Reads -> WalletReadType],
         \A r \in Reads :
           /\ walletReads'[r].stage # "none" <=> walletReads[r].stage # "none"
           /\ walletReads'[r] # walletReads[r] => ReadKept(walletReads[r])'
  PROVE  WalletIInv'
<1>1. WalletTyping /\ ShownInOrder /\ ShownKept /\ \A r \in Reads : ReadKept(walletReads[r])
  BY DEF WalletIInv
<1>2. extension.changes \in Nat
  BY <1>1, WalletContextAssumption DEF WalletTyping, WalletContextAssumption
<1>3. WalletTyping'
  BY <1>1 DEF WalletTyping
<1>4. ShownInOrder' /\ reported # changed.changes
  BY <1>1, <1>2 DEF ShownInOrder, WalletTyping
<1>5. ASSUME NEW r \in Reads PROVE ReadKept(walletReads[r])'
  <2>1. CASE walletReads'[r] = walletReads[r]
    <3>1. walletReads[r].at \in Nat /\ walletReads[r].at <= extension.changes
      BY <1>1 DEF WalletTyping, WalletReadType, ReadKept
    <3> DEFINE at == walletReads[r].at
    <3>2. at <= changed.changes /\ at # changed.changes
      <4> HIDE DEF at
      <4>1. at \in Nat /\ at <= extension.changes
        BY <3>1 DEF at
      <4>2. QED
        BY <1>2, <4>1
    <3>3. QED
      BY <1>1, <2>1, <3>2 DEF ReadKept
  <2>2. QED
    BY <2>1
<1>6. ShownKept'
  BY <1>1, <1>4 DEF ShownKept
<1>7. QED
  BY <1>3, <1>4, <1>5, <1>6 DEF WalletIInv

LEMMA WalletAnswersKeeps == ASSUME WalletIInv, NEW r \in Reads, WalletAnswers(r) PROVE WalletIInv'
<1> DEFINE read == walletReads[r]
           grants(answer) == read.stage = "address" /\ read.access /\ answer # "error"
                             /\ ViaFreighter /\ ~extension.allowed
           goesOn(answer) == read.stage = "availability"
                             /\ (answer = "allowed" \/ (answer = "denied" /\ read.access))
           granted == [extension EXCEPT !.allowed = TRUE, !.changes = @ + 1]
           asking == [read EXCEPT !.stage = "address"]
           answered(answer, at) == [read EXCEPT !.answer = answer, !.at = at]
<1>1. /\ WalletTyping /\ ShownInOrder /\ ReadKept(read) /\ read \in WalletReadType
      /\ extension \in [account : Accounts, allowed : BOOLEAN, changes : 0..MaxChanges]
      /\ extension.changes \in Nat /\ MaxChanges \in Nat
  BY WalletContextAssumption DEF WalletIInv, WalletTyping, WalletContextAssumption
<1>2. /\ read.stage # "none" /\ read.answer = "none"
      /\ UNCHANGED <<connectorKind, mounted, shownWallet, watcher, reported, newest, overtaken>>
  BY DEF WalletAnswers
<1>3. PICK answer \in Answers(r) :
        /\ grants(answer) => extension.changes < MaxChanges
        /\ extension' = IF grants(answer) THEN granted ELSE extension
        /\ walletReads' = [walletReads EXCEPT ![r] =
             IF goesOn(answer) THEN asking ELSE answered(answer, extension'.changes)]
  BY DEF WalletAnswers
<1>4. /\ AddressNow \in Addresses /\ extension.account \in Accounts
      /\ AddressNow = IF extension.allowed \/ ~ViaFreighter THEN extension.account ELSE NoAddress
  BY <1>1 DEF AddressNow, Addresses
<1>5. \A a \in Addresses : a \notin WalletReplies
  BY WalletContextAssumption DEF WalletContextAssumption, Addresses, WalletReplies
<1>6. /\ read.stage = "address" =>
           answer \in {"error", IF read.access THEN extension.account ELSE AddressNow}
      /\ read.stage = "availability" =>
           answer \in (IF connectorKind \in NoExtension THEN {"unavailable"}
                       ELSE {"error", IF extension.allowed THEN "allowed" ELSE "denied"})
  BY DEF Answers, NoExtension
<1>7. read.stage \in {"availability", "address"}
  BY <1>1, <1>2 DEF WalletReadType
<1>8. /\ shownWallet' \in ShownWalletType /\ shownWallet'.publicKey = shownWallet.publicKey
      /\ shownWallet'.available = shownWallet.available
      /\ shownWallet'.connected = shownWallet.connected /\ shownWallet'.error = shownWallet.error
  BY <1>1, <1>2 DEF WalletTyping
<1>9. ASSUME NEW at \in Nat, answer \in WalletReplies \cup Addresses
      PROVE  /\ answered(answer, at) \in WalletReadType /\ answered(answer, at).stage = read.stage
             /\ answered(answer, at).answer = answer /\ answered(answer, at).at = at
  BY <1>1, <1>9 DEF WalletReadType
<1>10. CASE goesOn(answer)
  <2>1. ~grants(answer)
    BY <1>10
  <2>2. extension' = extension /\ walletReads' = [walletReads EXCEPT ![r] = asking]
    BY <1>3, <1>10, <2>1
  <2>3. connectorKind \notin NoExtension
    BY <1>6, <1>10
  <2>4. /\ asking \in WalletReadType /\ asking.stage = "address" /\ asking.answer = "none"
        /\ asking.at = read.at
    BY <1>1, <1>2 DEF WalletReadType
  <2> HIDE DEF asking
  <2>5. ReadKept(asking)
    BY <1>1, <2>3, <2>4 DEF ReadKept
  <2>6. QED
    BY <1>2, <1>8, <2>2, <2>4, <2>5, ReadMoves
<1>11. CASE ~goesOn(answer) /\ ~grants(answer)
  <2> DEFINE at == extension.changes
             next == answered(answer, at)
  <2>1. extension' = extension /\ walletReads' = [walletReads EXCEPT ![r] = next]
    BY <1>3, <1>11
  <2>2. answer \in WalletReplies \cup Addresses
    BY <1>4, <1>6, <1>7, <1>11 DEF WalletReplies, Addresses
  <2>3. /\ next \in WalletReadType /\ next.stage = read.stage /\ next.answer = answer
        /\ next.at = extension.changes
    BY <1>1, <1>9, <2>2
  <2> HIDE DEF next
  <2>4. ReadKept(next)
    <3>1. CASE read.stage = "availability"
      <4>1. CASE connectorKind \in NoExtension
        BY <1>1, <1>6, <2>3, <3>1, <4>1 DEF ReadKept
      <4>2. CASE connectorKind \notin NoExtension
        <5>1. answer \in {"error", "denied"} /\ (answer = "denied" => ~extension.allowed)
          BY <1>6, <1>11, <3>1, <4>2
        <5>2. answer = "denied" => AddressNow = NoAddress \/ ~ViaFreighter
          BY <1>4, <5>1
        <5>3. ViaFreighter
          BY <1>1, <3>1 DEF ReadKept, ViaFreighter
        <5>4. QED
          BY <1>1, <2>3, <4>2, <5>1, <5>2, <5>3 DEF ReadKept
      <4>3. QED
        BY <4>1, <4>2
    <3>2. CASE read.stage = "address"
      <4>1. connectorKind \notin NoExtension
        BY <1>1, <3>2 DEF ReadKept
      <4>2. answer = "error" \/ answer = AddressNow
        BY <1>4, <1>6, <1>11, <3>2
      <4>3. answer # "unavailable"
        BY <1>4, <1>5, <4>2 DEF WalletReplies
      <4>4. QED
        BY <1>1, <2>3, <4>1, <4>2, <4>3 DEF ReadKept
    <3>3. QED
      BY <1>7, <3>1, <3>2
  <2>5. QED
    BY <1>2, <1>8, <2>1, <2>3, <2>4, ReadMoves
<1>12. CASE grants(answer)
  <2>1. /\ granted \in [account : Accounts, allowed : BOOLEAN, changes : 0..MaxChanges]
        /\ granted.changes = extension.changes + 1 /\ granted.account = extension.account
        /\ granted.allowed
    <3>1. extension.changes + 1 \in 0..MaxChanges
      BY <1>1, <1>3, <1>12
    <3>2. QED
      BY <1>1, <3>1
  <2> HIDE DEF granted
  <2> DEFINE next == answered(answer, granted.changes)
  <2>2. extension' = granted /\ walletReads' = [walletReads EXCEPT ![r] = next]
    BY <1>3, <1>12
  <2>3. answer = extension.account /\ answer \in Addresses
    BY <1>4, <1>6, <1>12 DEF Addresses
  <2>4. /\ next \in WalletReadType /\ next.stage = read.stage /\ next.answer = answer
        /\ next.at = granted.changes
    <3>1. granted.changes \in Nat
      BY <1>1, <2>1
    <3> HIDE DEF answered
    <3>2. QED
      BY <1>9, <2>3, <3>1
  <2> HIDE DEF next
  <2>5. /\ walletReads' \in [Reads -> WalletReadType] /\ walletReads'[r] = next
        /\ \A q \in Reads : q # r => walletReads'[q] = walletReads[q]
    BY <1>1, <2>2, <2>4 DEF WalletTyping
  <2>6. AddressNow' = answer
    BY <2>1, <2>2, <2>3 DEF AddressNow
  <2>7. ReadKept(walletReads[r])'
    <3>1. connectorKind \notin NoExtension /\ answer # "unavailable" /\ read.stage = "address"
      BY <1>1, <1>5, <1>12, <2>3 DEF ReadKept, WalletReplies
    <3>2. extension'.changes \in Nat /\ next.at <= extension'.changes
      BY <1>1, <2>1, <2>2, <2>4
    <3>3. QED
      BY <1>2, <2>4, <2>5, <2>6, <3>1, <3>2 DEF ReadKept
  <2>8. \A q \in Reads :
          /\ walletReads'[q].stage # "none" <=> walletReads[q].stage # "none"
          /\ walletReads'[q] # walletReads[q] => ReadKept(walletReads[q])'
    BY <1>2, <2>4, <2>5, <2>7
  <2>9. QED
    BY <1>2, <2>1, <2>2, <2>5, <2>8, ExtensionMoves
<1>13. QED
  BY <1>10, <1>11, <1>12

\* Something is shown, of a read that was answered at the change `at'.
LEMMA ShowKeeps ==
  ASSUME WalletIInv, NEW publicKey \in Addresses, NEW available \in BOOLEAN, NEW error \in BOOLEAN,
         NEW at \in Nat, Show(publicKey, available, error, at), at <= extension.changes,
         UNCHANGED <<connectorKind, mounted, extension, watcher>>,
         walletReads' \in [Reads -> WalletReadType], \A r \in Reads : ReadKept(walletReads'[r]),
         \/ reported' = reported
         \/ reported' = at /\ connectorKind = "installed",
         publicKey # NoAddress => available /\ connectorKind \notin NoExtension,
         at = extension.changes /\ connectorKind = "installed" => publicKey = AddressNow \/ error
  PROVE  WalletIInv'
<1> DEFINE shown == [publicKey |-> publicKey, available |-> available,
                     connected |-> publicKey # NoAddress, loading |-> FALSE, error |-> error]
<1>1. WalletTyping /\ ShownInOrder /\ ShownKept
  BY DEF WalletIInv
<1>2. shownWallet' = shown /\ overtaken' = (at < newest) /\ newest' = IF at > newest THEN at ELSE newest
  BY DEF Show
<1>3. /\ shown.publicKey = publicKey /\ shown.available = available /\ shown.loading = FALSE
      /\ shown.error = error /\ shown.connected = (publicKey # NoAddress)
      /\ shown \in ShownWalletType
  BY DEF ShownWalletType
<1> HIDE DEF shown
<1>4. /\ MaxChanges \in Nat /\ extension.changes \in 0..MaxChanges /\ newest \in 0..MaxChanges
      /\ reported \in -1..MaxChanges /\ newest <= extension.changes /\ reported <= newest
      /\ reported >= 0 => connectorKind = "installed"
  BY <1>1, WalletContextAssumption DEF WalletTyping, ShownInOrder, WalletContextAssumption
<1>5. /\ newest' \in 0..MaxChanges /\ newest' <= extension.changes /\ at <= newest' /\ newest <= newest'
      /\ reported' \in -1..MaxChanges /\ reported' <= newest'
      /\ reported' >= 0 => connectorKind = "installed"
  <2>1. /\ newest' \in 0..MaxChanges /\ newest' <= extension.changes /\ at <= newest' /\ newest <= newest'
    BY <1>2, <1>4
  <2>2. CASE reported' = reported
    BY <1>4, <2>1, <2>2
  <2>3. CASE reported' = at /\ connectorKind = "installed"
    BY <1>4, <2>1, <2>3
  <2>4. QED
    BY <2>1, <2>2, <2>3
<1>6. WalletTyping'
  <2>1. overtaken' \in BOOLEAN
    BY <1>2
  <2>2. QED
    BY <1>1, <1>2, <1>3, <1>5, <2>1 DEF WalletTyping
<1>7. ShownInOrder'
  BY <1>5 DEF ShownInOrder
<1>8. AddressNow' = AddressNow
  BY DEF AddressNow, ViaFreighter
<1>9. ASSUME NEW r \in Reads PROVE ReadKept(walletReads[r])'
  BY <1>8 DEF ReadKept
<1>10. reported' = extension.changes => publicKey = AddressNow \/ error \/ overtaken'
  <2>1. ASSUME reported' = extension.changes, at >= newest PROVE publicKey = AddressNow \/ error
    <3>1. at = extension.changes /\ connectorKind = "installed"
      BY <1>2, <1>4, <1>5, <2>1
    <3>2. QED
      BY <3>1
  <2>2. at < newest => overtaken'
    BY <1>2
  <2>3. at < newest \/ at >= newest
    BY <1>4
  <2>4. QED
    BY <2>1, <2>2, <2>3
<1>11. ShownKept'
  BY <1>1, <1>2, <1>3, <1>8, <1>10 DEF ShownKept
<1>12. QED
  BY <1>6, <1>7, <1>9, <1>11 DEF WalletIInv

LEMMA EndReadKeeps == ASSUME WalletIInv, NEW r \in Reads, EndRead(r) PROVE WalletIInv'
<1> DEFINE read == walletReads[r]
           publicKey == IF read.answer \in {"error", "unavailable", "denied"} THEN NoAddress
                        ELSE read.answer
           available == read.answer # "unavailable"
           error == read.answer = "error"
<1>1. /\ WalletTyping /\ ReadKept(read) /\ read \in WalletReadType
      /\ \A q \in Reads : ReadKept(walletReads[q])
  BY DEF WalletIInv, WalletTyping
<1>2. /\ read.answer # "none" /\ ShowAnswer(r) /\ walletReads' = [walletReads EXCEPT ![r] = NoRead]
      /\ UNCHANGED <<connectorKind, mounted, extension, watcher, reported>>
  BY DEF EndRead
<1>3. Show(publicKey, available, error, read.at)
  <2>1. CASE read.answer = "error"
    <3>1. Show(NoAddress, TRUE, TRUE, read.at)
      BY <1>2, <2>1 DEF ShowAnswer
    <3>2. publicKey = NoAddress /\ available = TRUE /\ error = TRUE
      BY <2>1
    <3>3. QED
      BY <3>1, <3>2 DEF Show
  <2>2. CASE read.answer = "unavailable"
    <3>1. Show(NoAddress, FALSE, FALSE, read.at)
      BY <1>2, <2>2 DEF ShowAnswer, Show
    <3>2. publicKey = NoAddress /\ available = FALSE /\ error = FALSE
      BY <2>2
    <3>3. QED
      BY <3>1, <3>2 DEF Show
  <2>3. CASE read.answer = "denied"
    <3>1. Show(NoAddress, TRUE, FALSE, read.at)
      BY <1>2, <2>3 DEF ShowAnswer, Show
    <3>2. publicKey = NoAddress /\ available = TRUE /\ error = FALSE
      BY <2>3
    <3>3. QED
      BY <3>1, <3>2 DEF Show
  <2>4. CASE read.answer \notin {"error", "unavailable", "denied"}
    <3>1. Show(read.answer, TRUE, FALSE, read.at)
      BY <1>2, <2>4 DEF ShowAnswer
    <3>2. publicKey = read.answer /\ available = TRUE /\ error = FALSE
      BY <2>4
    <3>3. QED
      BY <3>1, <3>2 DEF Show
  <2>5. QED
    BY <2>1, <2>2, <2>3, <2>4
<1>4. publicKey \in Addresses /\ available \in BOOLEAN /\ error \in BOOLEAN /\ read.at \in Nat
  BY <1>1, <1>2 DEF WalletReadType, WalletReplies, Addresses
<1>5. publicKey # NoAddress => available /\ connectorKind \notin NoExtension
  BY <1>1, <1>2 DEF ReadKept
<1>6. read.at = extension.changes /\ connectorKind = "installed" => publicKey = AddressNow \/ error
  <2>1. SUFFICES ASSUME read.at = extension.changes, connectorKind = "installed"
                 PROVE  publicKey = AddressNow \/ error
    OBVIOUS
  <2>2. connectorKind \notin NoExtension
    BY <2>1 DEF NoExtension
  <2>3. \/ read.answer = "error" \/ (read.answer = "denied" /\ AddressNow = NoAddress)
        \/ read.answer = AddressNow
    BY <1>1, <1>2, <2>1, <2>2 DEF ReadKept
  <2>4. AddressNow \notin WalletReplies
    BY <1>1, WalletContextAssumption
    DEF WalletContextAssumption, WalletReplies, AddressNow, WalletTyping
  <2>5. QED
    BY <2>3, <2>4 DEF WalletReplies
<1>7. walletReads' \in [Reads -> WalletReadType] /\ \A q \in Reads : ReadKept(walletReads'[q])
  <2>1. NoRead \in WalletReadType /\ NoRead.stage = "none" /\ NoRead.answer = "none" /\ NoRead.at = 0
    BY DEF NoRead, WalletReadType, WalletReplies
  <2>2. extension.changes >= 0
    BY <1>1, WalletContextAssumption DEF WalletTyping, WalletContextAssumption
  <2>3. ReadKept(NoRead)
    BY <2>1, <2>2 DEF ReadKept
  <2>4. QED
    BY <1>1, <1>2, <2>1, <2>3 DEF WalletTyping
<1>8. read.at <= extension.changes
  BY <1>1 DEF ReadKept
<1> HIDE DEF publicKey, available, error, read
<1>9. QED
  BY <1>2, <1>3, <1>4, <1>5, <1>6, <1>7, <1>8, ShowKeeps

LEMMA WatcherReportsKeeps == ASSUME WalletIInv, WatcherReports PROVE WalletIInv'
<1>1. /\ connectorKind = "installed" /\ reported' = extension.changes
      /\ Show(AddressNow, TRUE, FALSE, extension.changes)
      /\ UNCHANGED <<connectorKind, mounted, extension, walletReads, watcher>>
  BY DEF WatcherReports
<1>2. WalletTyping /\ \A r \in Reads : ReadKept(walletReads[r])
  BY DEF WalletIInv
<1>3. AddressNow \in Addresses /\ extension.changes \in Nat /\ extension.changes <= extension.changes
  BY <1>2, WalletContextAssumption
  DEF AddressNow, Addresses, WalletTyping, WalletContextAssumption
<1>4. connectorKind \notin NoExtension /\ TRUE \in BOOLEAN /\ FALSE \in BOOLEAN
  BY <1>1 DEF NoExtension
<1>5. walletReads' \in [Reads -> WalletReadType] /\ \A r \in Reads : ReadKept(walletReads'[r])
  BY <1>1, <1>2 DEF WalletTyping
<1>6. QED
  BY <1>1, <1>3, <1>4, <1>5, ShowKeeps

\* The watcher's module is there, or cannot be loaded, and the provider goes.
LEMMA WatcherKeeps == ASSUME WalletIInv, WatcherLoads \/ WatcherFails \/ Unmount PROVE WalletIInv'
<1>1. WalletTyping /\ ShownInOrder /\ ShownKept /\ \A r \in Reads : ReadKept(walletReads[r])
  BY DEF WalletIInv
<1>2. UNCHANGED <<connectorKind, extension, reported, newest, overtaken>>
  BY DEF WatcherLoads, WatcherFails, Unmount
<1>3. AddressNow' = AddressNow /\ ShownInOrder'
  BY <1>1, <1>2 DEF AddressNow, ViaFreighter, ShownInOrder
<1>4. extension.changes >= 0
  BY <1>1, WalletContextAssumption DEF WalletTyping, WalletContextAssumption
<1>5. CASE WatcherLoads
  <2>1. UNCHANGED <<mounted, shownWallet, walletReads>> /\ watcher' = IF mounted THEN "on" ELSE "none"
    BY <1>5 DEF WatcherLoads, WatchIfMounted
  <2>2. WalletTyping'
    BY <1>1, <1>2, <2>1 DEF WalletTyping
  <2>3. ASSUME NEW r \in Reads PROVE ReadKept(walletReads[r])'
    BY <1>1, <1>2, <1>3, <2>1 DEF ReadKept
  <2>4. ShownKept'
    BY <1>1, <1>2, <1>3, <2>1 DEF ShownKept
  <2>5. QED
    BY <1>3, <2>2, <2>3, <2>4 DEF WalletIInv
<1>6. CASE WatcherFails
  <2> DEFINE shown == [shownWallet EXCEPT !.available = FALSE, !.loading = FALSE, !.error = FALSE]
  <2>1. /\ connectorKind = "broken" /\ watcher' = "none" /\ UNCHANGED <<mounted, walletReads>>
        /\ shownWallet' = IF mounted THEN shown ELSE shownWallet
    BY <1>6 DEF WatcherFails
  <2>2. shown \in ShownWalletType /\ ~shown.loading /\ shown.connected = shownWallet.connected
    BY <1>1 DEF WalletTyping, ShownWalletType
  <2> HIDE DEF shown
  <2>3. WalletTyping'
    BY <1>1, <1>2, <2>1, <2>2 DEF WalletTyping
  <2>4. ASSUME NEW r \in Reads PROVE ReadKept(walletReads[r])'
    BY <1>1, <1>2, <1>3, <2>1 DEF ReadKept
  <2>5. ~shownWallet.connected /\ reported # extension.changes
    BY <1>1, <1>4, <2>1 DEF ShownKept, ShownInOrder, NoExtension
  <2>6. ShownKept'
    BY <1>1, <1>2, <1>3, <2>1, <2>2, <2>5 DEF ShownKept
  <2>7. QED
    BY <1>3, <2>3, <2>4, <2>6 DEF WalletIInv
<1>7. CASE Unmount
  <2>1. /\ mounted' = FALSE /\ shownWallet' = shownWallet /\ walletReads' = [r \in Reads |-> NoRead]
        /\ watcher' = IF watcher = "on" THEN "stopped" ELSE watcher
    BY <1>7 DEF Unmount
  <2>2. NoRead \in WalletReadType /\ NoRead.stage = "none" /\ NoRead.answer = "none" /\ NoRead.at = 0
    BY DEF NoRead, WalletReadType, WalletReplies
  <2>3. WalletTyping'
    BY <1>1, <1>2, <2>1, <2>2 DEF WalletTyping
  <2>4. ASSUME NEW r \in Reads PROVE ReadKept(walletReads[r])'
    BY <1>2, <1>4, <2>1, <2>2 DEF ReadKept
  <2>5. ShownKept'
    BY <1>1, <1>2, <1>3, <2>1 DEF ShownKept
  <2>6. QED
    BY <1>3, <2>3, <2>4, <2>5 DEF WalletIInv
<1>8. QED
  BY <1>5, <1>6, <1>7

LEMMA WalletInvStep == WalletIInv /\ [WalletNext]_walletVars => WalletIInv'
<1> SUFFICES ASSUME WalletIInv, [WalletNext]_walletVars PROVE WalletIInv'
  OBVIOUS
<1>1. /\ extension \in [account : Accounts, allowed : BOOLEAN, changes : 0..MaxChanges]
      /\ MaxChanges \in Nat /\ walletReads \in [Reads -> WalletReadType]
  BY WalletContextAssumption DEF WalletIInv, WalletTyping, WalletContextAssumption
<1>2. ASSUME NEW r \in Reads, NEW access \in BOOLEAN, StartRead(r, access) PROVE WalletIInv'
  BY <1>2, StartReadKeeps
<1>3. ASSUME NEW r \in Reads, WalletAnswers(r) \/ EndRead(r) PROVE WalletIInv'
  BY <1>3, WalletAnswersKeeps, EndReadKeeps
<1>4. CASE WatcherLoads \/ WatcherFails \/ Unmount
  BY <1>4, WatcherKeeps
<1>5. CASE WatcherReports
  BY <1>5, WatcherReportsKeeps
<1>6. CASE Revoke
  <2> DEFINE changed == [extension EXCEPT !.allowed = FALSE, !.changes = @ + 1]
  <2>1. extension.changes + 1 \in 0..MaxChanges
    BY <1>1, <1>6 DEF Revoke
  <2>2. /\ changed \in [account : Accounts, allowed : BOOLEAN, changes : 0..MaxChanges]
        /\ changed.changes = extension.changes + 1
    BY <1>1, <2>1
  <2>3. /\ extension' = changed /\ walletReads' = walletReads
        /\ UNCHANGED <<connectorKind, mounted, shownWallet, watcher, reported, newest, overtaken>>
    BY <1>6 DEF Revoke
  <2> HIDE DEF changed
  <2>4. QED
    BY <1>1, <2>2, <2>3, ExtensionMoves
<1>7. ASSUME NEW a \in Accounts, SelectAccount(a) PROVE WalletIInv'
  <2> DEFINE changed == [extension EXCEPT !.account = a, !.changes = @ + 1]
  <2>1. extension.changes + 1 \in 0..MaxChanges
    BY <1>1, <1>7 DEF SelectAccount
  <2>2. /\ changed \in [account : Accounts, allowed : BOOLEAN, changes : 0..MaxChanges]
        /\ changed.changes = extension.changes + 1
    BY <1>1, <2>1
  <2>3. /\ extension' = changed /\ walletReads' = walletReads
        /\ UNCHANGED <<connectorKind, mounted, shownWallet, watcher, reported, newest, overtaken>>
    BY <1>7 DEF SelectAccount
  <2> HIDE DEF changed
  <2>4. QED
    BY <1>1, <2>2, <2>3, ExtensionMoves
<1>8. CASE UNCHANGED walletVars
  BY <1>8 DEF walletVars, WalletIInv, WalletTyping, ShownInOrder, ReadKept, ShownKept, AddressNow,
              ViaFreighter
<1>9. QED
  BY <1>2, <1>3, <1>4, <1>5, <1>6, <1>7, <1>8 DEF WalletNext

\* What is kept is what the run checks.
LEMMA WalletInvMeans == WalletIInv => WalletTypeOK /\ WalletContextTellsTruth
<1>1. WalletIInv => WalletTypeOK
  BY DEF WalletIInv, WalletTyping, WalletTypeOK, ShownWalletType, Addresses
<1>2. WalletIInv => WalletContextTellsTruth
  BY DEF WalletIInv, ShownKept, WalletContextTellsTruth, ReadsInFlight
<1>3. QED
  BY <1>1, <1>2

(* The wallet of AxionveraProvider is shown as the extension gives it, for any
   number of reads, accounts and changes. *)
THEOREM WalletIsShown == WalletSpec => [](WalletTypeOK /\ WalletContextTellsTruth)
<1>1. WalletSpec => []WalletIInv
  BY WalletInvInit, WalletInvStep, PTL DEF WalletSpec
<1>2. QED
  BY <1>1, WalletInvMeans, PTL

-----------------------------------------------------------------------------
(* The wallet of a page *)

DetectedWallets ==
  [id : WalletIds, account : EthAccounts \cup {SolAccount}, chain : EthChains \cup {"solana"}]

DetectionTyping ==
  /\ provider \in [account : EthAccounts \cup {NoWallet}, chain : EthChains, events : Nat]
  /\ connected \in DetectedWallets \cup {NoWallet} /\ chainAsked \subseteq DetectedWallets
  /\ connects \in [waiting : SUBSET WalletIds, made : Nat]
  /\ fetches \in 0..MaxFetches /\ loadingChain \in BOOLEAN

\* Only the newest fetch is for the account that is shown.
FetchKept(fetch) ==
  /\ fetch.number \in 0..fetches
  /\ connected # NoWallet /\ fetch.number = fetches /\ fetch.number > 0 /\ ~fetch.late =>
       fetch.account = connected.account

\* What localStorage took is what is shown.
KeptIsShown == kept => stored = connected

DetectionIInv ==
  /\ DetectionTyping
  /\ KeptIsShown /\ (loadingChain => fetching # {})
  /\ connecting = "none" \/ connecting \in connects.waiting
  /\ FetchKept(balance) /\ \A fetch \in fetching : FetchKept(fetch)

LEMMA DetectionInvInit == DetectionInit => DetectionIInv
<1> SUFFICES ASSUME DetectionInit PROVE DetectionIInv
  OBVIOUS
<1> DEFINE account == CHOOSE a \in EthAccounts : TRUE
           ethChain == CHOOSE c \in EthChains : TRUE
<1>1. account \in EthAccounts /\ ethChain \in EthChains /\ MaxFetches \in Nat
  BY DetectionAssumption DEF DetectionAssumption
<1>2. /\ provider = [account |-> account, chain |-> ethChain, events |-> 0] /\ kept = (connected = stored)
      /\ stored \in {NoWallet, SolWallet} \cup {EthWallet(a, ethChain) : a \in EthAccounts}
      /\ connected \in {stored, NoWallet}
      /\ connects = [waiting |-> {}, made |-> 0] /\ connecting = "none" /\ chainAsked = {}
      /\ balance = [number |-> 0, account |-> NoWallet, late |-> FALSE]
      /\ fetches = (IF connected = SolWallet THEN 1 ELSE 0)
      /\ fetching = (IF connected = SolWallet
                     THEN {[number |-> 1, account |-> SolAccount, late |-> FALSE]} ELSE {})
      /\ loadingChain = (connected = SolWallet)
  BY DEF DetectionInit
<1> HIDE DEF account, ethChain
<1>3. SolWallet \in DetectedWallets /\ SolWallet.account = SolAccount
  BY DEF SolWallet, DetectedWallets, WalletIds
<1>4. \A a \in EthAccounts : EthWallet(a, ethChain) \in DetectedWallets
  BY <1>1 DEF EthWallet, DetectedWallets, WalletIds
<1>5. /\ provider \in [account : EthAccounts \cup {NoWallet}, chain : EthChains, events : Nat]
      /\ connects \in [waiting : SUBSET WalletIds, made : Nat]
  BY <1>1, <1>2
<1>6. connected \in DetectedWallets \cup {NoWallet}
  BY <1>2, <1>3, <1>4
<1>7. CASE connected = SolWallet
  <2>1. /\ fetches = 1 /\ loadingChain = TRUE
        /\ fetching = {[number |-> 1, account |-> SolAccount, late |-> FALSE]}
    BY <1>2, <1>7
  <2>2. DetectionTyping
    BY <1>1, <1>2, <1>5, <1>6, <2>1, DetectionAssumption DEF DetectionTyping
  <2>3. FetchKept(balance) /\ \A fetch \in fetching : FetchKept(fetch)
    BY <1>2, <1>3, <1>7, <2>1 DEF FetchKept
  <2>4. QED
    BY <1>2, <2>1, <2>2, <2>3 DEF DetectionIInv, KeptIsShown
<1>8. CASE connected # SolWallet
  <2>1. fetches = 0 /\ loadingChain = FALSE /\ fetching = {}
    BY <1>2, <1>8
  <2>2. DetectionTyping
    BY <1>1, <1>2, <1>5, <1>6, <2>1 DEF DetectionTyping
  <2>3. FetchKept(balance)
    BY <1>2, <2>1 DEF FetchKept
  <2>4. QED
    BY <1>2, <2>1, <2>2, <2>3 DEF DetectionIInv, KeptIsShown
<1>9. QED
  BY <1>7, <1>8

\* What stays when no fetch starts and no other wallet is shown
LEMMA DetectionStays ==
  ASSUME DetectionIInv, DetectionTyping', UNCHANGED fetches, KeptIsShown',
         connected' \in {connected, NoWallet}, fetching' \subseteq fetching,
         balance' \in fetching \cup {balance}
           \/ (balance'.number = 0 /\ balance'.late = FALSE),
         loadingChain' => fetching' # {}, connecting' = "none" \/ connecting' \in connects'.waiting
  PROVE  DetectionIInv'
<1>1. FetchKept(balance) /\ \A fetch \in fetching : FetchKept(fetch)
  BY DEF DetectionIInv
<1>2. fetches \in 0..MaxFetches /\ MaxFetches \in Nat
  BY DetectionAssumption DEF DetectionIInv, DetectionTyping, DetectionAssumption
<1>3. \A fetch \in fetching' : FetchKept(fetch)'
  BY <1>1 DEF FetchKept
<1>4. FetchKept(balance)'
  BY <1>1, <1>2 DEF FetchKept
<1>5. QED
  BY <1>3, <1>4 DEF DetectionIInv

\* A fetch starts, for the wallet that is shown from now on or for another.
LEMMA FetchStarts ==
  ASSUME DetectionIInv, DetectionTyping', NEW wallet, NEW late \in BOOLEAN, StartFetch(wallet, late),
         KeptIsShown', UNCHANGED balance,
         late \/ wallet.account = connected'.account,
         connecting' = "none" \/ connecting' \in connects'.waiting
  PROVE  DetectionIInv'
<1>0. PICK fetch : fetch = [number |-> fetches + 1, account |-> wallet.account, late |-> late]
  OBVIOUS
<1>1. fetches' = fetches + 1 /\ fetching' = fetching \cup {fetch} /\ fetches \in Nat
  BY <1>0, DetectionAssumption DEF StartFetch, DetectionIInv, DetectionTyping, DetectionAssumption
<1>2. fetch.number = fetches + 1 /\ fetch.account = wallet.account /\ fetch.late = late
  BY <1>0
<1>3. FetchKept(fetch)'
  BY <1>1, <1>2 DEF FetchKept
<1>4. ASSUME NEW old, FetchKept(old)
      PROVE  old.number \in 0..fetches' /\ old.number # fetches'
  BY <1>1, <1>4 DEF FetchKept
<1>5. \A old \in fetching : old.number \in 0..fetches' /\ old.number # fetches'
  BY <1>4 DEF DetectionIInv
<1>6. balance.number \in 0..fetches' /\ balance.number # fetches'
  BY <1>4 DEF DetectionIInv
<1>7. \A old \in fetching' : FetchKept(old)'
  BY <1>1, <1>3, <1>5 DEF FetchKept
<1>8. FetchKept(balance)'
  BY <1>6 DEF FetchKept
<1>9. QED
  BY <1>1, <1>7, <1>8 DEF DetectionIInv

LEMMA FetchTyping ==
  ASSUME DetectionTyping, NEW wallet, NEW late, StartFetch(wallet, late)
  PROVE  fetches' \in 0..MaxFetches /\ loadingChain' \in BOOLEAN
BY DetectionAssumption DEF DetectionTyping, StartFetch, DetectionAssumption

LEMMA ShownIsStored ==
  ASSUME NEW wallet, ShowAndStore(wallet)
  PROVE  connected' = wallet /\ (kept' => stored' = wallet)
<1>1. connected' = wallet /\ Store(wallet)
  BY DEF ShowAndStore
<1>2. PICK written \in BOOLEAN :
        kept' = written /\ stored' = IF written THEN wallet ELSE stored
  BY <1>1 DEF Store
<1>3. QED
  BY <1>1, <1>2

LEMMA ConnectingKeeps ==
  ASSUME DetectionIInv, NEW id \in WalletIds,
         ConnectWallet(id) \/ ConnectSucceeds(id) \/ ConnectFails(id)
  PROVE  DetectionIInv'
<1>1. DetectionTyping /\ KeptIsShown /\ (loadingChain => fetching # {})
  BY DEF DetectionIInv
<1>2. CASE ConnectWallet(id)
  <2>1. /\ connects' = [waiting |-> connects.waiting \cup {id}, made |-> connects.made + 1]
        /\ connecting' = id
        /\ UNCHANGED <<provider, connected, stored, kept, chainAsked, fetching, fetches, loadingChain, balance>>
    BY <1>2 DEF ConnectWallet
  <2>2. connects' \in [waiting : SUBSET WalletIds, made : Nat]
    BY <1>1, <2>1 DEF DetectionTyping
  <2>3. DetectionTyping'
    BY <1>1, <2>1, <2>2 DEF DetectionTyping
  <2>4. connecting' \in connects'.waiting
    BY <2>1
  <2>5. QED
    BY <1>1, <2>1, <2>3, <2>4, DetectionStays DEF KeptIsShown
<1>3. CASE ConnectFails(id)
  <2>1. /\ connects' = [connects EXCEPT !.waiting = @ \ {id}] /\ connecting' = "none"
        /\ UNCHANGED <<provider, connected, stored, kept, chainAsked, fetching, fetches, loadingChain, balance>>
    BY <1>3 DEF ConnectFails
  <2>2. connects' \in [waiting : SUBSET WalletIds, made : Nat]
    BY <1>1, <2>1 DEF DetectionTyping
  <2>3. DetectionTyping'
    BY <1>1, <2>1, <2>2 DEF DetectionTyping
  <2>4. QED
    BY <1>1, <2>1, <2>3, DetectionStays DEF KeptIsShown
<1>4. CASE ConnectSucceeds(id)
  <2>0. PICK a \in EthAccounts :
          LET wallet == IF id = "phantom" THEN SolWallet ELSE EthWallet(a, provider.chain)
          IN  /\ provider.account \in {a, NoWallet}
              /\ provider' = IF id = "phantom" THEN provider ELSE [provider EXCEPT !.account = a]
              /\ ShowAndStore(wallet) /\ StartFetch(wallet, FALSE)
    BY <1>4 DEF ConnectSucceeds
  <2>1. PICK wallet :
          /\ wallet = IF id = "phantom" THEN SolWallet ELSE EthWallet(a, provider.chain)
          /\ provider' = IF id = "phantom" THEN provider ELSE [provider EXCEPT !.account = a]
          /\ ShowAndStore(wallet) /\ StartFetch(wallet, FALSE)
    BY <2>0
  <2>2. /\ connects' = [connects EXCEPT !.waiting = @ \ {id}] /\ connecting' = "none"
        /\ UNCHANGED <<chainAsked, balance>>
    BY <1>4 DEF ConnectSucceeds
  <2>3. /\ provider' = IF id = "phantom" THEN provider ELSE [provider EXCEPT !.account = a]
        /\ connected' = wallet /\ (kept' => stored' = wallet) /\ StartFetch(wallet, FALSE)
    <3>1. ShowAndStore(wallet)
      BY <2>1
    <3>2. connected' = wallet /\ (kept' => stored' = wallet)
      BY <3>1, ShownIsStored
    <3>3. QED
      BY <2>1, <3>2
  <2>4. wallet \in DetectedWallets
    BY <1>1, <2>1 DEF DetectionTyping, SolWallet, EthWallet, DetectedWallets, WalletIds
  <2>5. connects' \in [waiting : SUBSET WalletIds, made : Nat]
    BY <1>1, <2>2 DEF DetectionTyping
  <2>6. provider' \in [account : EthAccounts \cup {NoWallet}, chain : EthChains, events : Nat]
    BY <1>1, <2>3 DEF DetectionTyping
  <2>7. fetches' \in 0..MaxFetches /\ loadingChain' \in BOOLEAN
    BY <1>1, <2>3, FetchTyping
  <2>8. DetectionTyping'
    BY <1>1, <2>2, <2>3, <2>4, <2>5, <2>6, <2>7 DEF DetectionTyping
  <2>9. KeptIsShown'
    BY <2>3 DEF KeptIsShown
  <2>10. QED
    BY <2>2, <2>3, <2>8, <2>9, FetchStarts
<1>5. QED
  BY <1>2, <1>3, <1>4

\* The wallet goes, with what is known of it.
LEMMA ForgetKeeps ==
  ASSUME DetectionIInv, Forget, provider' \in [account : EthAccounts \cup {NoWallet}, chain : EthChains,
                                               events : Nat],
         UNCHANGED <<connects, connecting, chainAsked, fetching, fetches, loadingChain>>
  PROVE  DetectionIInv'
<1>1. /\ DetectionTyping /\ (loadingChain => fetching # {})
      /\ connecting = "none" \/ connecting \in connects.waiting
  BY DEF DetectionIInv
<1>2. /\ connected' = NoWallet /\ (kept' => stored' = NoWallet)
      /\ balance' = [number |-> 0, account |-> NoWallet, late |-> FALSE]
  BY DEF Forget, Store
<1>3. DetectionTyping'
  BY <1>1, <1>2 DEF DetectionTyping
<1>4. balance'.number = 0 /\ balance'.late = FALSE
  BY <1>2
<1>5. connecting' = "none" \/ connecting' \in connects'.waiting
  BY <1>1
<1>6. KeptIsShown'
  BY <1>2 DEF KeptIsShown
<1>7. QED
  BY <1>1, <1>2, <1>3, <1>4, <1>5, <1>6, DetectionStays

LEMMA AccountsChangedKeeps ==
  ASSUME DetectionIInv, NEW account \in EthAccounts \cup {NoWallet}, AccountsChanged(account)
  PROVE  DetectionIInv'
<1>1. /\ DetectionTyping /\ KeptIsShown /\ (loadingChain => fetching # {})
      /\ connecting = "none" \/ connecting \in connects.waiting
  BY DEF DetectionIInv
<1>2. /\ provider' = [account |-> account, chain |-> provider.chain, events |-> provider.events + 1]
      /\ UNCHANGED <<connects, connecting, restoring, chainAsked>>
  BY DEF AccountsChanged, SetProvider
<1>3. provider' \in [account : EthAccounts \cup {NoWallet}, chain : EthChains, events : Nat]
  BY <1>1, <1>2 DEF DetectionTyping
<1>4. CASE account = NoWallet
  <2>1. Forget /\ UNCHANGED <<fetching, fetches, loadingChain>>
    BY <1>4 DEF AccountsChanged
  <2>2. QED
    BY <1>2, <1>3, <2>1, ForgetKeeps
<1>5. CASE account # NoWallet /\ connected = NoWallet
  <2>1. UNCHANGED <<connected, stored, kept, fetching, fetches, loadingChain, balance>>
    BY <1>5 DEF AccountsChanged
  <2>2. DetectionTyping'
    BY <1>1, <1>2, <1>3, <2>1 DEF DetectionTyping
  <2>3. connecting' = "none" \/ connecting' \in connects'.waiting
    BY <1>1, <1>2
  <2>4. QED
    BY <1>1, <2>1, <2>2, <2>3, DetectionStays DEF KeptIsShown
<1>6. CASE account # NoWallet /\ connected # NoWallet
  <2> DEFINE wallet == [connected EXCEPT !.account = account]
  <2>1. /\ connected' = wallet /\ (kept' => stored' = wallet)
        /\ StartFetch(wallet, FALSE) /\ UNCHANGED balance
    BY <1>6, ShownIsStored DEF AccountsChanged, UseAccount
  <2>2. wallet \in DetectedWallets
    BY <1>1, <1>6 DEF DetectionTyping, DetectedWallets
  <2> HIDE DEF wallet
  <2>3. fetches' \in 0..MaxFetches /\ loadingChain' \in BOOLEAN
    BY <1>1, <2>1, FetchTyping
  <2>4. DetectionTyping'
    BY <1>1, <1>2, <1>3, <2>1, <2>2, <2>3 DEF DetectionTyping
  <2>5. connecting' = "none" \/ connecting' \in connects'.waiting
    BY <1>1, <1>2
  <2>6. KeptIsShown'
    BY <2>1 DEF KeptIsShown
  <2>7. QED
    BY <2>1, <2>4, <2>5, <2>6, FetchStarts
<1>7. QED
  BY <1>4, <1>5, <1>6

\* The chain changes, and is asked for by a handler; a restored wallet's accounts
\* are answered.
LEMMA ChainKeeps ==
  ASSUME DetectionIInv,
         \/ \E ethChain \in EthChains : ChainChanged(ethChain)
         \/ \E wallet \in chainAsked : ChainAnswered(wallet)
         \/ RestoreAnswered
  PROVE  DetectionIInv'
<1>1. /\ DetectionTyping /\ KeptIsShown /\ (loadingChain => fetching # {})
      /\ connecting = "none" \/ connecting \in connects.waiting
  BY DEF DetectionIInv
<1>2. ASSUME NEW ethChain \in EthChains, ChainChanged(ethChain) PROVE DetectionIInv'
  <2>1. /\ provider' = [account |-> provider.account, chain |-> ethChain, events |-> provider.events + 1]
        /\ chainAsked' = IF connected = NoWallet THEN chainAsked ELSE chainAsked \cup {connected}
        /\ UNCHANGED <<connected, stored, kept, connects, connecting, fetching, fetches, loadingChain, balance>>
    BY <1>2 DEF ChainChanged, SetProvider
  <2>2. provider' \in [account : EthAccounts \cup {NoWallet}, chain : EthChains, events : Nat]
    BY <1>1, <2>1 DEF DetectionTyping
  <2>3. DetectionTyping'
    BY <1>1, <2>1, <2>2 DEF DetectionTyping
  <2>4. connecting' = "none" \/ connecting' \in connects'.waiting
    BY <1>1, <2>1
  <2>5. QED
    BY <1>1, <2>1, <2>3, <2>4, DetectionStays DEF KeptIsShown
<1>3. ASSUME NEW wallet \in chainAsked, ChainAnswered(wallet) PROVE DetectionIInv'
  <2> DEFINE shown == [wallet EXCEPT !.chain = provider.chain]
  <2>1. /\ chainAsked' = chainAsked \ {wallet} /\ connected' = shown
        /\ (kept' => stored' = shown)
        /\ StartFetch(wallet, FALSE) /\ UNCHANGED <<provider, connects, connecting, balance>>
    BY <1>3, ShownIsStored DEF ChainAnswered
  <2>2. shown \in DetectedWallets /\ shown.account = wallet.account
    BY <1>1 DEF DetectionTyping, DetectedWallets
  <2> HIDE DEF shown
  <2>3. fetches' \in 0..MaxFetches /\ loadingChain' \in BOOLEAN
    BY <1>1, <2>1, FetchTyping
  <2>4. DetectionTyping'
    BY <1>1, <2>1, <2>2, <2>3 DEF DetectionTyping
  <2>5. wallet.account = connected'.account
    BY <2>1, <2>2
  <2>6. connecting' = "none" \/ connecting' \in connects'.waiting
    BY <1>1, <2>1
  <2>7. KeptIsShown'
    BY <2>1 DEF KeptIsShown
  <2>8. QED
    BY <2>1, <2>4, <2>5, <2>6, <2>7, FetchStarts
<1>4. CASE RestoreAnswered
  <2>1. UNCHANGED <<provider, connected, stored, kept, connects, connecting, chainAsked, balance>>
    BY <1>4 DEF RestoreAnswered
  <2>2. connecting' = "none" \/ connecting' \in connects'.waiting
    BY <1>1, <2>1
  <2>3. CASE provider.account = restoring.account
    <3>1. PICK late \in BOOLEAN : late = (connected # restoring)
      OBVIOUS
    <3>2. StartFetch(restoring, late)
      BY <1>4, <2>3, <3>1 DEF RestoreAnswered
    <3>3. fetches' \in 0..MaxFetches /\ loadingChain' \in BOOLEAN
      BY <1>1, <3>2, FetchTyping
    <3>4. DetectionTyping'
      BY <1>1, <2>1, <3>3 DEF DetectionTyping
    <3>5. late \/ restoring.account = connected'.account
      BY <2>1, <3>1
    <3>6. QED
      BY <1>1, <2>1, <2>2, <3>2, <3>4, <3>5, FetchStarts DEF KeptIsShown
  <2>4. CASE provider.account # restoring.account
    <3>1. UNCHANGED <<fetching, fetches, loadingChain>>
      BY <1>4, <2>4 DEF RestoreAnswered
    <3>2. DetectionTyping'
      BY <1>1, <2>1, <3>1 DEF DetectionTyping
    <3>3. QED
      BY <1>1, <2>1, <2>2, <3>1, <3>2, DetectionStays DEF KeptIsShown
  <2>5. QED
    BY <2>3, <2>4
<1>5. QED
  BY <1>2, <1>3, <1>4

LEMMA FetchEndsKeeps ==
  ASSUME DetectionIInv, NEW fetch \in fetching, NEW brings \in BOOLEAN, FetchEnds(fetch, brings)
  PROVE  DetectionIInv'
<1>1. /\ DetectionTyping /\ KeptIsShown
      /\ connecting = "none" \/ connecting \in connects.waiting
  BY DEF DetectionIInv
<1>2. /\ fetching' = fetching \ {fetch} /\ loadingChain' = FALSE
      /\ balance' = IF brings THEN fetch ELSE balance
      /\ UNCHANGED <<provider, connected, stored, kept, connects, connecting, chainAsked, fetches>>
  BY DEF FetchEnds
<1>3. DetectionTyping'
  BY <1>1, <1>2 DEF DetectionTyping
<1>4. connecting' = "none" \/ connecting' \in connects'.waiting
  BY <1>1, <1>2
<1>5. QED
  BY <1>1, <1>2, <1>3, <1>4, DetectionStays DEF KeptIsShown

LEMMA DetectionInvStep == DetectionIInv /\ [DetectionNext]_detectionVars => DetectionIInv'
<1> SUFFICES ASSUME DetectionIInv, [DetectionNext]_detectionVars PROVE DetectionIInv'
  OBVIOUS
<1>1. CASE RestoreAnswered
  BY <1>1, ChainKeeps
<1>2. CASE DisconnectWallet
  <2>1. provider' \in [account : EthAccounts \cup {NoWallet}, chain : EthChains, events : Nat]
    BY <1>2 DEF DisconnectWallet, DetectionIInv, DetectionTyping
  <2>2. QED
    BY <1>2, <2>1, ForgetKeeps DEF DisconnectWallet
<1>3. ASSUME NEW id \in WalletIds, ConnectWallet(id) \/ ConnectSucceeds(id) \/ ConnectFails(id)
      PROVE  DetectionIInv'
  BY <1>3, ConnectingKeeps
<1>4. ASSUME NEW account \in EthAccounts \cup {NoWallet}, AccountsChanged(account) PROVE DetectionIInv'
  BY <1>4, AccountsChangedKeeps
<1>5. ASSUME NEW ethChain \in EthChains, ChainChanged(ethChain) PROVE DetectionIInv'
  BY <1>5, ChainKeeps
<1>6. ASSUME NEW wallet \in chainAsked, ChainAnswered(wallet) PROVE DetectionIInv'
  BY <1>6, ChainKeeps
<1>7. ASSUME NEW fetch \in fetching, NEW brings \in BOOLEAN, FetchEnds(fetch, brings)
      PROVE  DetectionIInv'
  BY <1>7, FetchEndsKeeps
<1>8. CASE UNCHANGED detectionVars
  BY <1>8 DEF detectionVars, DetectionIInv, DetectionTyping, KeptIsShown, FetchKept
<1>9. QED
  BY <1>1, <1>2, <1>3, <1>4, <1>5, <1>6, <1>7, <1>8 DEF DetectionNext

\* What is kept is what the run checks.
LEMMA DetectionInvMeans == DetectionIInv => DetectionTypeOK /\ DetectionTellsTruth
<1>1. DetectionIInv => DetectionTypeOK
  BY DEF DetectionIInv, DetectionTyping, DetectionTypeOK, FetchKept
<1>2. DetectionIInv => DetectionTellsTruth
  <2> SUFFICES ASSUME DetectionIInv PROVE DetectionTellsTruth
    OBVIOUS
  <2>1. connecting # "none" => connecting \in connects.waiting
    BY DEF DetectionIInv
  <2>2. QED
    BY <2>1 DEF DetectionIInv, KeptIsShown, FetchKept, DetectionTellsTruth
<1>3. QED
  BY <1>1, <1>2

(* The wallet that a page shows is the one that is stored, unless localStorage
   failed the last time, and the newest balance is of its account, for any
   accounts, chains and order of events, answers and failures.
   (src/wallet-integration-203/src/hooks/useWalletDetection.jsx:147-173, 193-325) *)
THEOREM DetectedWalletIsShown == DetectionSpec => [](DetectionTypeOK /\ DetectionTellsTruth)
<1>1. DetectionSpec => []DetectionIInv
  BY DetectionInvInit, DetectionInvStep, PTL DEF DetectionSpec
<1>2. QED
  BY <1>1, DetectionInvMeans, PTL

-----------------------------------------------------------------------------
(* Simulations: what the recursive functions return *)

\* Numbers that exist have a least one.
LEMMA LowestOf ==
  ASSUME NEW S \in SUBSET Nat, S # {}
  PROVE  \E n \in S : \A m \in S : n <= m
<1> DEFINE R == OpToRel(<, Nat)
<1>1. IsWellFoundedOn(R, Nat)
  BY NatLessThanWellFounded
<1>2. \A m, n \in Nat : <<m, n>> \in R <=> m < n
  BY DEF OpToRel
<1> HIDE DEF R
<1>3. PICK n \in S : \A m \in S : ~(<<m, n>> \in R)
  BY <1>1, WFMin
<1>4. \A m \in S : ~(m < n)
  BY <1>2, <1>3
<1>5. \A m \in S : n <= m
  BY <1>4
<1>6. QED
  BY <1>5

\* A set of numbers that has 0, and the next of each of them, has all.
LEMMA AllFromZero ==
  ASSUME NEW T, 0 \in T, \A n \in Nat : n \in T => n + 1 \in T
  PROVE  Nat \subseteq T
<1> SUFFICES ASSUME Nat \ T # {} PROVE FALSE
  OBVIOUS
<1>1. PICK n \in Nat \ T : \A m \in Nat \ T : n <= m
  BY LowestOf
<1>2. n # 0 /\ n - 1 \in Nat
  BY <1>1
<1>3. n - 1 \in T
  BY <1>1, <1>2
<1>4. QED
  BY <1>1, <1>2, <1>3

\* The value of a number is that of its digits but the last, and the last.
LEMMA ValuesOf ==
  ASSUME NEW d \in Seq(0..9)
  PROVE  \E v \in [0..Len(d) -> Nat] :
           /\ v[0] = 0 /\ \A n \in 1..Len(d) : v[n] = 10 * v[n - 1] + d[n]
           /\ Value(d) = v[Len(d)]
<1> DEFINE Is(g, n) == g = [i \in 0..n |-> IF i = 0 THEN 0 ELSE 10 * g[i - 1] + d[i]]
           N == Len(d)
           T == {n \in Nat : n <= N => \E g : Is(g, n)}
<1>1. N \in Nat /\ \A n \in 1..N : d[n] \in Nat
  OBVIOUS
<1>2. 0 \in T
  <2> DEFINE g == [i \in 0..0 |-> 0]
  <2>1. \A i \in 0..0 : i = 0
    OBVIOUS
  <2>2. Is(g, 0)
    BY <2>1
  <2>3. QED
    BY <2>2
<1>3. ASSUME NEW n \in Nat, n \in T PROVE n + 1 \in T
  <2> HIDE DEF Is, N
  <2> SUFFICES ASSUME n + 1 <= N PROVE \E h : Is(h, n + 1)
    OBVIOUS
  <2>1. PICK g : Is(g, n)
    BY <1>1, <1>3
  <2> USE DEF Is
  <2> DEFINE h == [i \in 0..(n + 1) |-> IF i = n + 1 THEN 10 * g[n] + d[n + 1] ELSE g[i]]
  <2>2. \A i \in 0..n : g[i] = IF i = 0 THEN 0 ELSE 10 * g[i - 1] + d[i]
    BY <2>1
  <2>3. /\ h[n + 1] = 10 * g[n] + d[n + 1] /\ \A i \in 0..n : h[i] = g[i]
        /\ h = [i \in 0..(n + 1) |-> h[i]]
    OBVIOUS
  <2> HIDE DEF h
  <2>4. ASSUME NEW i \in 0..(n + 1)
        PROVE  h[i] = IF i = 0 THEN 0 ELSE 10 * h[i - 1] + d[i]
    <3>1. CASE i = n + 1
      <4>1. i - 1 = n /\ n \in 0..n /\ i # 0
        BY <3>1
      <4>2. QED
        BY <2>3, <3>1, <4>1
    <3>2. CASE i # n + 1 /\ i # 0
      <4>1. i \in 0..n /\ i - 1 \in 0..n
        BY <3>2
      <4>2. QED
        BY <2>2, <2>3, <3>2, <4>1
    <3>3. CASE i = 0
      <4>1. i \in 0..n
        BY <3>3
      <4>2. QED
        BY <2>2, <2>3, <3>3, <4>1
    <3>4. QED
      BY <3>1, <3>2, <3>3
  <2>5. Is(h, n + 1)
    BY <2>3, <2>4
  <2>6. QED
    BY <2>5
<1>4. N \in T
  <2> HIDE DEF T, N
  <2>1. Nat \subseteq T
    BY <1>2, <1>3, AllFromZero
  <2>2. QED
    BY <1>1, <2>1
<1>5. PICK g : Is(g, N)
  BY <1>1, <1>4
<1> DEFINE v == CHOOSE g_1 : Is(g_1, N)
<1>6. Is(v, N)
  BY <1>5
<1>7. Value(d) = v[N]
  BY DEF Value
<1>8. \A n \in 0..N : v[n] = IF n = 0 THEN 0 ELSE 10 * v[n - 1] + d[n]
  BY <1>6
<1>9. v = [n \in 0..N |-> v[n]]
  BY <1>6
<1> HIDE DEF v, Is
<1>10. v[0] = 0 /\ \A n \in 1..N : v[n] = 10 * v[n - 1] + d[n]
  <2> HIDE DEF N
  <2>1. 0 \in 0..N /\ \A n \in 1..N : n \in 0..N /\ n # 0
    BY <1>1
  <2>2. QED
    BY <1>8, <2>1
<1>11. v \in [0..N -> Nat]
  <2> DEFINE U == {n \in Nat : n <= N => v[n] \in Nat}
  <2> HIDE DEF N
  <2>1. 0 \in U
    BY <1>10
  <2>2. ASSUME NEW n \in Nat, n \in U PROVE n + 1 \in U
    <3> SUFFICES ASSUME n + 1 <= N PROVE v[n + 1] \in Nat
      OBVIOUS
    <3>1. n + 1 \in 1..N /\ (n + 1) - 1 = n /\ v[n] \in Nat
      BY <1>1, <2>2
    <3>2. v[n + 1] = 10 * v[n] + d[n + 1] /\ d[n + 1] \in Nat
      BY <1>1, <1>10, <3>1
    <3>3. QED
      BY <3>1, <3>2
  <2>3. Nat \subseteq U
    <3> HIDE DEF U
    <3>1. QED
      BY <2>1, <2>2, AllFromZero
  <2>4. \A n \in 0..N : v[n] \in Nat
    BY <1>1, <2>3
  <2>5. QED
    BY <1>9, <2>4
<1>12. QED
  BY <1>7, <1>10, <1>11

LEMMA ValueType == ASSUME NEW d \in Seq(0..9) PROVE Value(d) \in Nat
<1>1. Len(d) \in 0..Len(d)
  OBVIOUS
<1>2. QED
  BY <1>1, ValuesOf

\* One more digit does not change which of two numbers is less, nor their sum much.
LEMMA OneMoreDigit ==
  ASSUME NEW x \in Nat, NEW y \in Nat, NEW d \in 0..9, NEW e \in 0..9
  PROVE  /\ x < y \/ (x = y /\ d < e) => 10 * x + d < 10 * y + e
         /\ \A s \in Nat : s + x <= y => s + (10 * x + d) <= 10 * y + d
OBVIOUS

\* Of two numbers of as many digits, the one whose digits come first is less.
LEMMA DigitsOrder ==
  ASSUME NEW a \in Seq(0..9), NEW b \in Seq(0..9), Len(a) = Len(b),
         NEW k \in 1..Len(a), a[k] < b[k], \A j \in 1..(k - 1) : a[j] = b[j]
  PROVE  Value(a) < Value(b)
<1> DEFINE N == Len(a)
<1>1. N \in Nat /\ k \in Nat /\ k >= 1 /\ k <= N /\ \A n \in 1..N : a[n] \in 0..9 /\ b[n] \in 0..9
  OBVIOUS
<1>2. PICK v \in [0..N -> Nat] : v[0] = 0 /\ (\A n \in 1..N : v[n] = 10 * v[n - 1] + a[n])
                                 /\ Value(a) = v[N]
  BY ValuesOf
<1>3. PICK w \in [0..N -> Nat] : w[0] = 0 /\ (\A n \in 1..N : w[n] = 10 * w[n - 1] + b[n])
                                 /\ Value(b) = w[N]
  BY ValuesOf
<1> DEFINE T == {n \in Nat : n <= N => (n < k => v[n] = w[n]) /\ (n >= k => v[n] < w[n])}
<1>4. 0 \in T
  BY <1>1, <1>2, <1>3
<1>5. ASSUME NEW n \in Nat, n \in T PROVE n + 1 \in T
  <2> HIDE DEF N
  <2> SUFFICES ASSUME n + 1 <= N
               PROVE  (n + 1 < k => v[n + 1] = w[n + 1]) /\ (n + 1 >= k => v[n + 1] < w[n + 1])
    OBVIOUS
  <2>1. n + 1 \in 1..N /\ (n + 1) - 1 = n /\ n \in 0..N /\ v[n] \in Nat /\ w[n] \in Nat
    BY <1>1
  <2>2. v[n + 1] = 10 * v[n] + a[n + 1] /\ w[n + 1] = 10 * w[n] + b[n + 1]
    BY <1>2, <1>3, <2>1
  <2>3. a[n + 1] \in 0..9 /\ b[n + 1] \in 0..9
    BY <1>1, <2>1
  <2>4. CASE n + 1 < k
    <3>1. v[n] = w[n] /\ n + 1 \in 1..(k - 1)
      BY <1>1, <1>5, <2>1, <2>4
    <3>2. QED
      BY <1>1, <2>2, <2>4, <3>1
  <2>5. CASE n + 1 = k
    <3>1. v[n] = w[n]
      BY <1>1, <1>5, <2>1, <2>5
    <3>2. a[n + 1] < b[n + 1]
      BY <2>5
    <3>3. 10 * v[n] + a[n + 1] < 10 * w[n] + b[n + 1]
      BY <2>1, <2>3, <3>1, <3>2, OneMoreDigit
    <3>4. QED
      BY <1>1, <2>2, <2>5, <3>3
  <2>6. CASE n + 1 > k
    <3>1. v[n] < w[n]
      BY <1>1, <1>5, <2>1, <2>6
    <3>2. PICK x \in Nat, y \in Nat : x = v[n] /\ y = w[n]
      BY <2>1
    <3>3. 10 * x + a[n + 1] < 10 * y + b[n + 1]
      BY <2>3, <3>1, <3>2, OneMoreDigit
    <3>4. QED
      BY <1>1, <2>2, <2>6, <3>2, <3>3
  <2>7. QED
    BY <1>1, <2>4, <2>5, <2>6
<1>6. Nat \subseteq T
  <2> HIDE DEF T
  <2>1. QED
    BY <1>4, <1>5, AllFromZero
<1>7. v[N] < w[N]
  <2>1. N \in T
    BY <1>1, <1>6
  <2>2. QED
    BY <1>1, <2>1
<1>8. QED
  BY <1>2, <1>3, <1>7

\* Two numbers written behind each other are no less than their sum.
LEMMA ValueOfTwo ==
  ASSUME NEW a \in Seq(0..9), NEW b \in Seq(0..9)
  PROVE  Value(a) + Value(b) <= Value(a \o b)
<1> DEFINE c == a \o b
           M == Len(a)
           N == Len(b)
<1>1. M \in Nat /\ N \in Nat
  OBVIOUS
<1>2. /\ c \in Seq(0..9) /\ Len(c) = M + N
      /\ \A n \in 1..M : c[n] = a[n]
      /\ \A n \in 1..N : c[M + n] = b[n]
  <2>1. c \in Seq(0..9) /\ Len(c) = M + N
        /\ \A n \in 1..(M + N) : c[n] = IF n <= M THEN a[n] ELSE b[n - M]
    BY ConcatProperties
  <2> HIDE DEF c, M, N
  <2>2. ASSUME NEW n \in 1..M PROVE c[n] = a[n]
    BY <1>1, <2>1
  <2>3. ASSUME NEW n \in 1..N PROVE c[M + n] = b[n]
    <3>1. M + n \in 1..(M + N) /\ ~(M + n <= M) /\ (M + n) - M = n
      BY <1>1
    <3>2. QED
      BY <2>1, <3>1
  <2>4. QED
    BY <2>1, <2>2, <2>3
<1>3. PICK u \in [0..M -> Nat] : u[0] = 0 /\ (\A n \in 1..M : u[n] = 10 * u[n - 1] + a[n])
                                 /\ Value(a) = u[M]
  BY ValuesOf
<1>4. PICK v \in [0..N -> Nat] : v[0] = 0 /\ (\A n \in 1..N : v[n] = 10 * v[n - 1] + b[n])
                                 /\ Value(b) = v[N]
  BY ValuesOf
<1>5. PICK w \in [0..(M + N) -> Nat] :
        w[0] = 0 /\ (\A n \in 1..(M + N) : w[n] = 10 * w[n - 1] + c[n]) /\ Value(c) = w[M + N]
  <2> HIDE DEF c
  <2>1. QED
    BY <1>2, ValuesOf
<1>6. \A n \in 1..M : a[n] \in 0..9
  OBVIOUS
<1>7. \A n \in 1..N : b[n] \in 0..9
  OBVIOUS
<1>8. w[M] = u[M]
  <2> DEFINE T == {n \in Nat : n <= M => w[n] = u[n]}
  <2> HIDE DEF M, N, c
  <2>1. 0 \in T
    BY <1>3, <1>5
  <2>2. ASSUME NEW n \in Nat, n \in T PROVE n + 1 \in T
    <3> SUFFICES ASSUME n + 1 <= M PROVE w[n + 1] = u[n + 1]
      OBVIOUS
    <3>1. /\ n + 1 \in 1..M /\ n + 1 \in 1..(M + N) /\ (n + 1) - 1 = n
          /\ w[n] = u[n]
      BY <1>1, <2>2
    <3>2. QED
      BY <1>2, <1>3, <1>5, <3>1
  <2>3. Nat \subseteq T
    <3> HIDE DEF T
    <3>1. QED
      BY <2>1, <2>2, AllFromZero
  <2>4. QED
    BY <1>1, <2>3
<1>9. u[M] + v[N] <= w[M + N]
  <2> DEFINE T == {n \in Nat : n <= N => u[M] + v[n] <= w[M + n]}
  <2> HIDE DEF M, N, c
  <2>0. u[M] \in Nat
    BY <1>1, <1>3
  <2>1. 0 \in T
    BY <1>1, <1>4, <1>8, <2>0
  <2>2. ASSUME NEW n \in Nat, n \in T PROVE n + 1 \in T
    <3> SUFFICES ASSUME n + 1 <= N PROVE u[M] + v[n + 1] <= w[M + (n + 1)]
      OBVIOUS
    <3>1. /\ n + 1 \in 1..N /\ (n + 1) - 1 = n /\ M + (n + 1) \in 1..(M + N)
          /\ (M + (n + 1)) - 1 = M + n /\ n \in 0..N /\ M + n \in 0..(M + N)
      BY <1>1
    <3>2. v[n] \in Nat /\ w[M + n] \in Nat /\ b[n + 1] \in 0..9
      BY <1>7, <3>1
    <3>3. v[n + 1] = 10 * v[n] + b[n + 1]
      BY <1>4, <3>1
    <3>4. w[M + (n + 1)] = 10 * w[M + n] + b[n + 1]
      BY <1>2, <1>5, <3>1
    <3>5. u[M] + v[n] <= w[M + n]
      BY <1>1, <2>2
    <3>6. u[M] + (10 * v[n] + b[n + 1]) <= 10 * w[M + n] + b[n + 1]
      <4>1. PICK s \in Nat : s = u[M]
        BY <2>0
      <4>2. s + v[n] <= w[M + n]
        BY <3>5, <4>1
      <4>3. s + (10 * v[n] + b[n + 1]) <= 10 * w[M + n] + b[n + 1]
        BY <3>2, <4>2, OneMoreDigit
      <4>4. QED
        BY <4>1, <4>3
    <3>7. QED
      BY <3>3, <3>4, <3>6
  <2>3. Nat \subseteq T
    <3> HIDE DEF T
    <3>1. QED
      BY <2>1, <2>2, AllFromZero
  <2>4. QED
    BY <1>1, <2>3
<1>10. QED
  BY <1>3, <1>4, <1>5, <1>9

\* A number whose first digit is not zero is positive.
LEMMA PositiveValue ==
  ASSUME NEW a \in Seq(0..9), a # <<>>, Head(a) # 0
  PROVE  Value(a) > 0
<1> DEFINE N == Len(a)
<1>1. N \in Nat /\ N >= 1 /\ a[1] \in 0..9 /\ a[1] # 0 /\ \A n \in 1..N : a[n] \in 0..9
  OBVIOUS
<1>2. PICK v \in [0..N -> Nat] : v[0] = 0 /\ (\A n \in 1..N : v[n] = 10 * v[n - 1] + a[n])
                                 /\ Value(a) = v[N]
  BY ValuesOf
<1> DEFINE T == {n \in Nat : n + 1 <= N => v[n + 1] > 0}
<1> HIDE DEF N
<1>3. 0 \in T
  <2>1. v[1] = 10 * v[0] + a[1]
    BY <1>1, <1>2
  <2>2. QED
    BY <1>1, <1>2, <2>1
<1>4. ASSUME NEW n \in Nat, n \in T PROVE n + 1 \in T
  <2> SUFFICES ASSUME (n + 1) + 1 <= N PROVE v[(n + 1) + 1] > 0
    OBVIOUS
  <2>1. (n + 1) + 1 \in 1..N /\ ((n + 1) + 1) - 1 = n + 1 /\ v[n + 1] > 0 /\ n + 1 \in 0..N
    BY <1>1, <1>4
  <2>2. v[(n + 1) + 1] = 10 * v[n + 1] + a[(n + 1) + 1] /\ a[(n + 1) + 1] \in 0..9
    BY <1>1, <1>2, <2>1
  <2>3. v[n + 1] \in Nat
    BY <2>1
  <2>4. QED
    BY <2>1, <2>2, <2>3
<1>5. Nat \subseteq T
  <2> HIDE DEF T
  <2>1. QED
    BY <1>3, <1>4, AllFromZero
<1>6. N - 1 \in T /\ (N - 1) + 1 = N
  BY <1>1, <1>5
<1>7. QED
  BY <1>1, <1>2, <1>6

\* SortsBefore(), element by element
Precedes(a, b) ==
  \/ Len(a) < Len(b) /\ \A i \in 1..Len(a) : a[i] = b[i]
  \/ \E k \in 1..Len(a) :
       /\ k <= Len(b) /\ a[k] < b[k]
       /\ \A j \in 1..(k - 1) : a[j] = b[j]

LEMMA SortsPrecedes ==
  ASSUME NEW a \in Seq(0..9), NEW b \in Seq(0..9)
  PROVE  SortsBefore(a, b) <=> Precedes(a, b)
<1>1. Len(a) \in Nat /\ Len(b) \in Nat /\ DOMAIN a = 1..Len(a) /\ DOMAIN b = 1..Len(b)
  OBVIOUS
<1>2. ASSUME Len(a) < Len(b) PROVE IsPrefix(a, b) <=> \A i \in 1..Len(a) : a[i] = b[i]
  <2>1. /\ SubSeq(a, 1, Len(a)) \in Seq(0..9) /\ Len(SubSeq(a, 1, Len(a))) = Len(a)
        /\ \A i \in 1..Len(a) : SubSeq(a, 1, Len(a))[i] = a[i]
    OBVIOUS
  <2>2. /\ SubSeq(b, 1, Len(a)) \in Seq(0..9) /\ Len(SubSeq(b, 1, Len(a))) = Len(a)
        /\ \A i \in 1..Len(a) : SubSeq(b, 1, Len(a))[i] = b[i]
    BY <1>1, <1>2
  <2> DEFINE u == SubSeq(a, 1, Len(a))
             v == SubSeq(b, 1, Len(a))
  <2>3. IsPrefix(a, b) <=> u = v
    BY <1>1, <1>2 DEF IsPrefix
  <2>4. u = v <=> \A i \in 1..Len(a) : u[i] = v[i]
    <3> HIDE DEF u, v
    <3>1. u \in Seq(0..9) /\ v \in Seq(0..9) /\ Len(u) = Len(a) /\ Len(v) = Len(a)
      BY <2>1, <2>2 DEF u, v
    <3>2. QED
      BY <1>1, <3>1
  <2>5. QED
    BY <2>1, <2>2, <2>3, <2>4
<1>3. (\E i \in DOMAIN a \cap DOMAIN b : a[i] < b[i] /\ \A j \in 1..i - 1 : a[j] = b[j])
      <=> \E k \in 1..Len(a) : /\ k <= Len(b) /\ a[k] < b[k]
                               /\ \A j \in 1..(k - 1) : a[j] = b[j]
  BY <1>1
<1>4. QED
  BY <1>2, <1>3 DEF SortsBefore, Precedes

\* Strings are ordered.
LEMMA NoneSortsBeforeItself == ASSUME NEW a \in Seq(0..9) PROVE ~SortsBefore(a, a)
<1>1. Len(a) \in Nat /\ \A i \in 1..Len(a) : a[i] \in 0..9
  OBVIOUS
<1>2. ~Precedes(a, a)
  BY <1>1 DEF Precedes
<1>3. QED
  BY <1>2, SortsPrecedes

LEMMA SortingIsTransitive ==
  ASSUME NEW a \in Seq(0..9), NEW b \in Seq(0..9), NEW c \in Seq(0..9),
         SortsBefore(a, b), SortsBefore(b, c)
  PROVE  SortsBefore(a, c)
<1>1. Precedes(a, b) /\ Precedes(b, c)
  BY SortsPrecedes
<1>2. /\ Len(a) \in Nat /\ Len(b) \in Nat /\ Len(c) \in Nat
      /\ (\A i \in 1..Len(a) : a[i] \in Int) /\ (\A i \in 1..Len(b) : b[i] \in Int)
      /\ \A i \in 1..Len(c) : c[i] \in Int
  <2>1. ASSUME NEW s \in Seq(0..9), NEW i \in 1..Len(s) PROVE s[i] \in Int
    <3>1. s[i] \in 0..9
      OBVIOUS
    <3>2. QED
      BY <3>1
  <2>2. QED
    BY <2>1
<1>3. CASE Len(a) < Len(b) /\ \A i \in 1..Len(a) : a[i] = b[i]
  <2>1. CASE Len(b) < Len(c) /\ \A i \in 1..Len(b) : b[i] = c[i]
    <3>1. Len(a) < Len(c) /\ \A i \in 1..Len(a) : a[i] = c[i]
      BY <1>2, <1>3, <2>1
    <3>2. QED
      BY <3>1, SortsPrecedes DEF Precedes
  <2>2. CASE \E k \in 1..Len(b) : /\ k <= Len(c) /\ b[k] < c[k]
                                  /\ \A j \in 1..(k - 1) : b[j] = c[j]
    <3>1. PICK k \in 1..Len(b) : /\ k <= Len(c) /\ b[k] < c[k]
                                 /\ \A j \in 1..(k - 1) : b[j] = c[j]
      BY <2>2
    <3>2. CASE k <= Len(a)
      <4>1. k \in 1..Len(a) /\ a[k] < c[k] /\ \A j \in 1..(k - 1) : a[j] = c[j]
        BY <1>2, <1>3, <3>1, <3>2
      <4>2. QED
        BY <3>1, <4>1, SortsPrecedes DEF Precedes
    <3>3. CASE k > Len(a)
      <4>1. Len(a) < Len(c) /\ \A i \in 1..Len(a) : a[i] = c[i]
        BY <1>2, <1>3, <3>1, <3>3
      <4>2. QED
        BY <4>1, SortsPrecedes DEF Precedes
    <3>4. QED
      BY <1>2, <3>2, <3>3
  <2>3. QED
    BY <1>1, <2>1, <2>2 DEF Precedes
<1>4. CASE \E k \in 1..Len(a) : /\ k <= Len(b) /\ a[k] < b[k]
                                /\ \A j \in 1..(k - 1) : a[j] = b[j]
  <2>1. PICK k \in 1..Len(a) : /\ k <= Len(b) /\ a[k] < b[k]
                               /\ \A j \in 1..(k - 1) : a[j] = b[j]
    BY <1>4
  <2>2. CASE Len(b) < Len(c) /\ \A i \in 1..Len(b) : b[i] = c[i]
    <3>1. k <= Len(c) /\ a[k] < c[k] /\ \A j \in 1..(k - 1) : a[j] = c[j]
      BY <1>2, <2>1, <2>2
    <3>2. QED
      BY <3>1, SortsPrecedes DEF Precedes
  <2>3. CASE \E m \in 1..Len(b) : /\ m <= Len(c) /\ b[m] < c[m]
                                  /\ \A j \in 1..(m - 1) : b[j] = c[j]
    <3>1. PICK m \in 1..Len(b) : /\ m <= Len(c) /\ b[m] < c[m]
                                 /\ \A j \in 1..(m - 1) : b[j] = c[j]
      BY <2>3
    <3>2. CASE k <= m
      <4>1. k <= Len(c) /\ \A j \in 1..(k - 1) : a[j] = c[j]
        BY <1>2, <2>1, <3>1, <3>2
      <4>2. a[k] < c[k]
        <5>1. k = m \/ b[k] = c[k]
          BY <1>2, <3>1, <3>2
        <5>2. a[k] \in Int /\ b[k] \in Int /\ c[k] \in Int
          BY <1>2, <2>1, <4>1
        <5>3. QED
          BY <2>1, <3>1, <5>1, <5>2
      <4>3. QED
        BY <4>1, <4>2, SortsPrecedes DEF Precedes
    <3>3. CASE m < k
      <4>1. m \in 1..Len(a) /\ a[m] < c[m] /\ \A j \in 1..(m - 1) : a[j] = c[j]
        BY <1>2, <2>1, <3>1, <3>3
      <4>2. QED
        BY <3>1, <4>1, SortsPrecedes DEF Precedes
    <3>4. QED
      BY <1>2, <3>2, <3>3
  <2>4. QED
    BY <1>1, <2>2, <2>3 DEF Precedes
<1>5. QED
  BY <1>1, <1>3, <1>4 DEF Precedes

\* What does not sort before a number of as many digits, behind the same ones, is no less.
LEMMA LastIsNoLess ==
  ASSUME NEW p \in Seq(0..9), NEW x \in Seq(0..9), NEW y \in Seq(0..9), Len(x) = Len(y),
         ~SortsBefore(p \o y, p \o x)
  PROVE  Value(x) <= Value(y)
<1> DEFINE N == Len(x)
           M == Len(p)
           Unlike == {k \in 1..N : x[k] # y[k]}
<1>1. /\ N \in Nat /\ M \in Nat
      /\ \A i \in 1..N : x[i] \in 0..9 /\ y[i] \in 0..9
  OBVIOUS
<1>2. CASE Unlike = {}
  <2>1. \A i \in 1..N : x[i] = y[i]
    BY <1>2
  <2>2. x = y
    BY <2>1
  <2>3. Value(x) \in Nat
    BY ValueType
  <2>4. QED
    BY <2>2, <2>3
<1>3. CASE Unlike # {}
  <2>1. Unlike \in SUBSET Nat
    BY <1>1
  <2> HIDE DEF Unlike
  <2>2. PICK k \in Unlike : \A m \in Unlike : k <= m
    BY <1>3, <2>1, LowestOf
  <2> USE DEF Unlike
  <2>3. k \in 1..N /\ x[k] # y[k] /\ \A j \in 1..(k - 1) : x[j] = y[j]
    BY <1>1, <2>2
  <2> HIDE DEF Unlike
  <2>4. CASE x[k] < y[k]
    <3>1. Value(x) < Value(y)
      BY <2>3, <2>4, DigitsOrder
    <3>2. Value(x) \in Nat /\ Value(y) \in Nat
      BY ValueType
    <3>3. QED
      BY <3>1, <3>2
  <2>5. CASE y[k] < x[k]
    <3> DEFINE a == p \o y
               b == p \o x
    <3>1. /\ a \in Seq(0..9) /\ Len(a) = M + N
          /\ \A i \in 1..(M + N) : a[i] = IF i <= M THEN p[i] ELSE y[i - M]
      BY ConcatProperties
    <3>2. /\ b \in Seq(0..9) /\ Len(b) = M + N
          /\ \A i \in 1..(M + N) : b[i] = IF i <= M THEN p[i] ELSE x[i - M]
      BY ConcatProperties
    <3>3. ~SortsBefore(a, b)
      OBVIOUS
    <3> HIDE DEF a, b, N, M
    <3>4. M + k \in 1..(M + N) /\ ~(M + k <= M) /\ (M + k) - M = k
      BY <1>1, <2>3
    <3>5. a[M + k] < b[M + k]
      BY <2>5, <3>1, <3>2, <3>4
    <3>6. ASSUME NEW j \in 1..((M + k) - 1) PROVE a[j] = b[j]
      <4>1. j \in 1..(M + N) /\ (~(j <= M) => j - M \in 1..(k - 1))
        BY <1>1, <2>3
      <4>2. QED
        BY <2>3, <3>1, <3>2, <4>1
    <3>7. Precedes(a, b)
      BY <3>1, <3>2, <3>4, <3>5, <3>6 DEF Precedes
    <3>8. QED
      BY <3>1, <3>2, <3>3, <3>7, SortsPrecedes
  <2>6. x[k] < y[k] \/ y[k] < x[k]
    <3>1. x[k] \in 0..9 /\ y[k] \in 0..9
      BY <1>1, <2>3
    <3>2. QED
      BY <2>3, <3>1
  <2>7. QED
    BY <2>4, <2>5, <2>6
<1>4. QED
  BY <1>2, <1>3

\* The reduce() of a strict order finds one that no other is better than.
LEMMA FirstBestIs ==
  ASSUME NEW n \in Nat, n >= 1, NEW beaten \in [1..n -> SUBSET (1..n)],
         \A i \in 1..n : i \notin beaten[i],
         \A i, j, k \in 1..n : j \in beaten[i] /\ k \in beaten[j] => k \in beaten[i]
  PROVE  FirstBest(beaten) \in 1..n /\ \A j \in 1..n : FirstBest(beaten) \notin beaten[j]
<1> DEFINE Is(g, m) == g = [i \in 1..m |-> IF i = 1 THEN 1
                                           ELSE IF g[i - 1] \in beaten[i] THEN i ELSE g[i - 1]]
           T == {m \in Nat : m <= n => \E g : Is(g, m)}
<1>1. 0 \in T
  <2> DEFINE g == [i \in 1..0 |-> 1]
  <2>1. \A i \in 1..0 : FALSE
    OBVIOUS
  <2>2. Is(g, 0)
    BY <2>1
  <2>3. QED
    BY <2>2
<1>2. ASSUME NEW m \in Nat, m \in T PROVE m + 1 \in T
  <2> HIDE DEF Is
  <2> SUFFICES ASSUME m + 1 <= n PROVE \E h : Is(h, m + 1)
    OBVIOUS
  <2>1. PICK g : Is(g, m)
    BY <1>2
  <2> USE DEF Is
  <2> DEFINE next == IF m + 1 = 1 THEN 1 ELSE IF g[m] \in beaten[m + 1] THEN m + 1 ELSE g[m]
             h == [i \in 1..(m + 1) |-> IF i = m + 1 THEN next ELSE g[i]]
  <2>2. \A i \in 1..m : g[i] = IF i = 1 THEN 1
                               ELSE IF g[i - 1] \in beaten[i] THEN i ELSE g[i - 1]
    BY <2>1
  <2>3. /\ h[m + 1] = next /\ \A i \in 1..m : h[i] = g[i]
        /\ h = [i \in 1..(m + 1) |-> h[i]]
    OBVIOUS
  <2> HIDE DEF h
  <2>4. ASSUME NEW i \in 1..(m + 1)
        PROVE  h[i] = IF i = 1 THEN 1 ELSE IF h[i - 1] \in beaten[i] THEN i ELSE h[i - 1]
    <3>1. CASE i = m + 1 /\ i # 1
      <4>1. i - 1 = m /\ m \in 1..m
        BY <3>1
      <4>2. QED
        BY <2>3, <3>1, <4>1
    <3>2. CASE i = m + 1 /\ i = 1
      BY <2>3, <3>2
    <3>3. CASE i # m + 1 /\ i # 1
      <4>1. i \in 1..m /\ i - 1 \in 1..m
        BY <3>3
      <4>2. QED
        BY <2>2, <2>3, <3>3, <4>1
    <3>4. CASE i # m + 1 /\ i = 1
      <4>1. i \in 1..m
        BY <3>4
      <4>2. QED
        BY <2>2, <2>3, <3>4, <4>1
    <3>5. QED
      BY <3>1, <3>2, <3>3, <3>4
  <2>5. Is(h, m + 1)
    BY <2>3, <2>4
  <2>6. QED
    BY <2>5
<1>3. n \in T
  <2> HIDE DEF T
  <2>1. QED
    BY <1>1, <1>2, AllFromZero
<1>4. PICK g : Is(g, n)
  BY <1>3
<1>5. DOMAIN beaten = 1..n /\ Len(beaten) = n
  OBVIOUS
<1> DEFINE Built(h) == h = [i \in DOMAIN beaten |->
                  IF i = 1 THEN 1 ELSE IF h[i - 1] \in beaten[i] THEN i ELSE h[i - 1]]
           f == CHOOSE h : Built(h)
<1>a. Built(g)
  BY <1>4, <1>5
<1>b. Built(f)
  <2> HIDE DEF Built
  <2>1. QED
    BY <1>a
<1>6. f = [i \in 1..n |-> IF i = 1 THEN 1
                          ELSE IF f[i - 1] \in beaten[i] THEN i ELSE f[i - 1]]
  BY <1>5, <1>b
<1>7. FirstBest(beaten) = f[n]
  BY <1>5 DEF FirstBest
<1>8. \A i \in 1..n : f[i] = IF i = 1 THEN 1 ELSE IF f[i - 1] \in beaten[i] THEN i ELSE f[i - 1]
  BY <1>6
<1> HIDE DEF f, Is, Built
<1> DEFINE U == {m \in Nat : m + 1 <= n =>
                   f[m + 1] \in 1..(m + 1) /\ \A j \in 1..(m + 1) : f[m + 1] \notin beaten[j]}
<1>9. 0 \in U
  <2>1. f[1] = 1 /\ \A j \in 1..1 : j = 1
    BY <1>8
  <2>2. QED
    BY <2>1
<1>10. ASSUME NEW m \in Nat, m \in U PROVE m + 1 \in U
  <2> SUFFICES ASSUME (m + 1) + 1 <= n
               PROVE  /\ f[(m + 1) + 1] \in 1..((m + 1) + 1)
                      /\ \A j \in 1..((m + 1) + 1) : f[(m + 1) + 1] \notin beaten[j]
    OBVIOUS
  <2>1. PICK k \in 1..n : k = (m + 1) + 1
    OBVIOUS
  <2>2. /\ k # 1 /\ k - 1 = m + 1 /\ 1..(m + 1) = 1..(k - 1)
        /\ \A j \in 1..k : j \in 1..n /\ (j \in 1..(k - 1) \/ j = k)
    BY <2>1
  <2>3. PICK b \in 1..n : b = f[k - 1]
    BY <1>10, <2>1, <2>2
  <2>4. b \in 1..(k - 1) /\ \A j \in 1..(k - 1) : b \notin beaten[j]
    BY <1>10, <2>1, <2>2, <2>3
  <2>5. f[k] = IF b \in beaten[k] THEN k ELSE b
    BY <1>8, <2>2, <2>3
  <2>6. f[k] \in 1..k
    BY <2>4, <2>5
  <2>7. ASSUME NEW j \in 1..k PROVE f[k] \notin beaten[j]
    <3>1. CASE b \in beaten[k]
      <4>1. f[k] = k
        BY <2>5, <3>1
      <4>2. j \in 1..n /\ (j \in 1..(k - 1) \/ j = k)
        BY <2>2
      <4>3. QED
        BY <2>4, <3>1, <4>1, <4>2
    <3>2. CASE b \notin beaten[k]
      <4>1. f[k] = b
        BY <2>5, <3>2
      <4>2. QED
        BY <2>2, <2>4, <3>2, <4>1
    <3>3. QED
      BY <3>1, <3>2
  <2>8. QED
    BY <2>1, <2>6, <2>7
<1>11. Nat \subseteq U
  <2> HIDE DEF U
  <2>1. QED
    BY <1>9, <1>10, AllFromZero
<1>12. n - 1 \in U /\ (n - 1) + 1 = n
  BY <1>11
<1>13. QED
  BY <1>7, <1>12

-----------------------------------------------------------------------------
(* Simulations: the invariant *)

SimulationResults ==
  [state : {"pending", "success", "error"}, base : Seq(0..9), resource : Seq(0..9)]

\* Only what succeeds has a fee.
FitResult(r) ==
  /\ r \in SimulationResults
  /\ r.state = "success" => r.base \in BaseFees /\ r.resource \in ResourceFees
  /\ r.state # "success" => r.base = <<0>> /\ r.resource = <<0>>

ResultsFit ==
  /\ compared \in Seq(SimulationResults)
  /\ \A i \in 1..Len(compared) : FitResult(compared[i])

\* A comparison is of all the results, after the last of them.
ComparisonIsOfResults ==
  comparison # NoComparison =>
    /\ compared # <<>> /\ \A i \in 1..Len(compared) : compared[i].state # "pending"
    /\ comparison = [leastExpensive |-> FirstBest(LessExpensiveThan),
                     mostEfficient |-> FirstBest(MoreEfficientThan)]

\* The history ends as the list of all simulations does.
HistoryIsLast ==
  /\ simulations \in Seq(Nat) /\ historicalData \in Seq(Nat)
  /\ Len(historicalData) <= HistoryLimit /\ Len(historicalData) <= Len(simulations)
  /\ Len(historicalData) < HistoryLimit => Len(historicalData) = Len(simulations)
  /\ \A i \in 1..Len(historicalData) :
       historicalData[i] = simulations[(Len(simulations) - Len(historicalData)) + i]

SimulationIInv == ResultsFit /\ ComparisonIsOfResults /\ HistoryIsLast

LEMMA SimulationConstants ==
  /\ HistoryLimit \in Nat /\ MaxCompared \in Nat
  /\ \A fee \in FeeTargets : fee \in Nat
  /\ \A base \in BaseFees : base \in Seq(0..9) /\ base # <<>> /\ Head(base) # 0
  /\ \A resource \in ResourceFees : resource \in Seq(0..9)
BY SimulationAssumption DEF SimulationAssumption

LEMMA PendingFits == FitResult(Pending) /\ Pending.state = "pending"
<1>1. <<0>> \in Seq(0..9)
  OBVIOUS
<1>2. QED
  BY <1>1 DEF FitResult, SimulationResults, Pending

LEMMA OnlyPendingPends ==
  ASSUME NEW r, FitResult(r), r.state = "pending"
  PROVE  r = Pending
BY DEF FitResult, SimulationResults, Pending

LEMMA SimulationInvInit == SimulationInit => SimulationIInv
<1> SUFFICES ASSUME SimulationInit PROVE SimulationIInv
  OBVIOUS
<1>1. /\ compared = <<>> /\ comparison = NoComparison
      /\ historicalData = <<>> /\ simulations = <<>>
  BY DEF SimulationInit
<1>2. ResultsFit /\ ComparisonIsOfResults
  BY <1>1 DEF ResultsFit, ComparisonIsOfResults
<1>3. HistoryIsLast
  BY <1>1, SimulationConstants DEF HistoryIsLast
<1>4. QED
  BY <1>2, <1>3 DEF SimulationIInv

\* What a comparison is of is what is compared.
LEMMA SameComparison ==
  ASSUME ComparisonIsOfResults, UNCHANGED <<compared, comparison>>
  PROVE  ComparisonIsOfResults'
BY DEF ComparisonIsOfResults, LessExpensiveThan, MoreEfficientThan

LEMMA CompareKeeps ==
  ASSUME SimulationIInv, NEW count \in 1..MaxCompared, CompareTransactions(count)
  PROVE  SimulationIInv'
<1>1. /\ compared = <<>> /\ compared' = [i \in 1..count |-> Pending]
      /\ UNCHANGED <<comparison, historicalData, simulations>>
  BY DEF CompareTransactions
<1>2. comparison' = NoComparison
  BY <1>1 DEF SimulationIInv, ComparisonIsOfResults
<1>3. count \in Nat /\ Pending \in SimulationResults
  BY SimulationConstants, PendingFits DEF FitResult
<1>4. compared' \in Seq(SimulationResults) /\ Len(compared') = count
  BY <1>1, <1>3
<1>5. ResultsFit'
  <2>1. \A i \in 1..count : compared'[i] = Pending
    BY <1>1
  <2>2. QED
    BY <1>4, <2>1, PendingFits DEF ResultsFit, FitResult
<1>6. ComparisonIsOfResults'
  BY <1>2 DEF ComparisonIsOfResults, NoComparison
<1>7. HistoryIsLast'
  BY <1>1 DEF SimulationIInv, HistoryIsLast
<1>8. QED
  BY <1>5, <1>6, <1>7 DEF SimulationIInv

LEMMA EndingKeeps ==
  ASSUME SimulationIInv, NEW state, NEW base, NEW resource,
         SimulationEnds(state, base, resource),
         FitResult([state |-> state, base |-> base, resource |-> resource])
  PROVE  SimulationIInv'
<1> DEFINE r == [state |-> state, base |-> base, resource |-> resource]
<1>1. /\ \E i \in DOMAIN compared : compared[i] = Pending /\ compared' = [compared EXCEPT ![i] = r]
      /\ UNCHANGED <<comparison, historicalData, simulations>>
  BY DEF SimulationEnds
<1> HIDE DEF r
<1>2. PICK i \in DOMAIN compared : compared[i] = Pending /\ compared' = [compared EXCEPT ![i] = r]
  BY <1>1
<1>3. /\ compared \in Seq(SimulationResults) /\ i \in 1..Len(compared)
      /\ \A j \in 1..Len(compared) : FitResult(compared[j])
  BY <1>2 DEF SimulationIInv, ResultsFit
<1>4. FitResult(r) /\ r \in SimulationResults
  BY DEF r, FitResult
<1>5. comparison' = NoComparison
  BY <1>1, <1>2, <1>3, PendingFits DEF SimulationIInv, ComparisonIsOfResults
<1>6. /\ compared' \in Seq(SimulationResults) /\ Len(compared') = Len(compared)
      /\ \A j \in 1..Len(compared) : compared'[j] = IF j = i THEN r ELSE compared[j]
  BY <1>2, <1>3, <1>4, ExceptSeq
<1>7. ResultsFit'
  <2>1. ASSUME NEW j \in 1..Len(compared) PROVE FitResult(compared'[j])
    BY <1>3, <1>4, <1>6
  <2>2. QED
    BY <1>6, <2>1 DEF ResultsFit, FitResult
<1>8. ComparisonIsOfResults'
  BY <1>5 DEF ComparisonIsOfResults, NoComparison
<1>9. HistoryIsLast'
  BY <1>1 DEF SimulationIInv, HistoryIsLast
<1>10. QED
  BY <1>7, <1>8, <1>9 DEF SimulationIInv

LEMMA EndComparisonKeeps ==
  ASSUME SimulationIInv, EndComparison
  PROVE  SimulationIInv'
<1>1. /\ compared # <<>> /\ Pending \notin Range(compared)
      /\ comparison' = [leastExpensive |-> FirstBest(LessExpensiveThan),
                        mostEfficient |-> FirstBest(MoreEfficientThan)]
      /\ UNCHANGED <<compared, historicalData, simulations>>
  BY DEF EndComparison
<1>2. ASSUME NEW i \in 1..Len(compared) PROVE compared[i].state # "pending"
  <2>1. compared[i] # Pending /\ FitResult(compared[i])
    BY <1>1 DEF Range, SimulationIInv, ResultsFit
  <2>2. QED
    BY <2>1, OnlyPendingPends
<1>3. ComparisonIsOfResults'
  BY <1>1, <1>2 DEF ComparisonIsOfResults, LessExpensiveThan, MoreEfficientThan
<1>4. ResultsFit' /\ HistoryIsLast'
  BY <1>1 DEF SimulationIInv, ResultsFit, FitResult, HistoryIsLast
<1>5. QED
  BY <1>3, <1>4 DEF SimulationIInv

\* What is tracked is the last of the history, whose first is forgotten at the limit.
LEMMA TrackingKeeps ==
  ASSUME SimulationIInv, TrackSimulation
  PROVE  SimulationIInv'
<1> DEFINE n == Len(simulations) + 1
           longer == Append(historicalData, n)
           L == Len(historicalData)
<1>1. /\ simulations' = Append(simulations, n) /\ historicalData' = Tracked(historicalData, n)
      /\ UNCHANGED <<compared, comparison>>
  BY DEF TrackSimulation
<1>2. /\ simulations \in Seq(Nat) /\ historicalData \in Seq(Nat) /\ n \in Nat /\ L \in Nat
      /\ L <= HistoryLimit /\ L + 1 <= n /\ (L < HistoryLimit => L + 1 = n)
      /\ \A i \in 1..L : historicalData[i] = simulations[((n - 1) - L) + i]
  <2>1. HistoryIsLast
    BY DEF SimulationIInv
  <2>2. PICK m \in Nat, l \in Nat : m = Len(simulations) /\ l = Len(historicalData)
    BY <2>1 DEF HistoryIsLast
  <2>3. /\ simulations \in Seq(Nat) /\ historicalData \in Seq(Nat)
        /\ l <= m /\ l <= HistoryLimit /\ (l < HistoryLimit => l = m)
        /\ \A i \in 1..l : historicalData[i] = simulations[(m - l) + i]
    BY <2>1, <2>2 DEF HistoryIsLast
  <2>4. n = m + 1 /\ L = l
    BY <2>2
  <2> HIDE DEF n, L
  <2>5. n \in Nat /\ L \in Nat /\ L + 1 <= n /\ (L < HistoryLimit => L + 1 = n) /\ n - 1 = m
    BY <2>2, <2>3, <2>4
  <2>6. QED
    BY <2>3, <2>4, <2>5
<1>3. /\ simulations' \in Seq(Nat) /\ Len(simulations') = n /\ simulations'[n] = n
      /\ \A i \in 1..(n - 1) : simulations'[i] = simulations[i]
  BY <1>1, <1>2, AppendProperties
<1>4. /\ longer \in Seq(Nat) /\ Len(longer) = L + 1 /\ longer[L + 1] = n
      /\ \A i \in 1..L : longer[i] = historicalData[i]
  BY <1>2, AppendProperties
<1>5. historicalData' = IF Len(longer) > HistoryLimit THEN Tail(longer) ELSE longer
  BY <1>1 DEF Tracked
<1> HIDE DEF longer, n, L
<1>6. ASSUME NEW i \in 1..(L + 1) PROVE longer[i] = simulations'[(n - (L + 1)) + i]
  <2>1. CASE i = L + 1
    BY <1>2, <1>3, <1>4, <2>1
  <2>2. CASE i \in 1..L
    <3>1. ((n - 1) - L) + i \in 1..(n - 1) /\ (n - (L + 1)) + i = ((n - 1) - L) + i
      BY <1>2, <2>2
    <3>2. QED
      BY <1>2, <1>3, <1>4, <2>2, <3>1
  <2>3. QED
    BY <1>2, <2>1, <2>2
<1>7. HistoryIsLast'
  <2>1. CASE L + 1 > HistoryLimit
    <3>1. /\ historicalData' \in Seq(Nat) /\ Len(historicalData') = L
          /\ \A i \in 1..L : historicalData'[i] = longer[i + 1]
      BY <1>2, <1>4, <1>5, <2>1, HeadTailProperties
    <3>2. ASSUME NEW i \in 1..L PROVE historicalData'[i] = simulations'[(n - L) + i]
      <4>1. i + 1 \in 1..(L + 1) /\ (n - (L + 1)) + (i + 1) = (n - L) + i
        BY <1>2
      <4>2. QED
        BY <1>6, <3>1, <4>1
    <3>3. L = HistoryLimit /\ L <= n /\ HistoryLimit \in Nat
      BY <1>2, <2>1, SimulationConstants
    <3>4. QED
      BY <1>3, <3>1, <3>2, <3>3 DEF HistoryIsLast
  <2>2. CASE L + 1 <= HistoryLimit
    <3>1. historicalData' = longer
      BY <1>2, <1>4, <1>5, <2>2, SimulationConstants
    <3>2. L + 1 = n
      BY <1>2, <2>2, SimulationConstants
    <3>3. QED
      BY <1>2, <1>3, <1>4, <1>6, <2>2, <3>1, <3>2 DEF HistoryIsLast
  <2>3. QED
    BY <1>2, <2>1, <2>2, SimulationConstants
<1>8. ResultsFit' /\ ComparisonIsOfResults'
  <2>1. ResultsFit /\ ComparisonIsOfResults
    BY DEF SimulationIInv
  <2>2. QED
    BY <1>1, <2>1, SameComparison DEF ResultsFit, FitResult
<1>9. QED
  BY <1>7, <1>8 DEF SimulationIInv

\* Without results there is no comparison.
LEMMA NothingCompared ==
  ASSUME SimulationIInv, compared' = <<>>, comparison' = NoComparison,
         UNCHANGED <<historicalData, simulations>>
  PROVE  SimulationIInv'
<1>1. ResultsFit' /\ ComparisonIsOfResults'
  BY DEF ResultsFit, ComparisonIsOfResults, NoComparison
<1>2. HistoryIsLast'
  BY DEF SimulationIInv, HistoryIsLast
<1>3. QED
  BY <1>1, <1>2 DEF SimulationIInv

LEMMA SimulationInvStep == SimulationIInv /\ [SimulationNext]_simulationVars => SimulationIInv'
<1> SUFFICES ASSUME SimulationIInv, [SimulationNext]_simulationVars PROVE SimulationIInv'
  OBVIOUS
<1>1. CASE \E count \in 1..MaxCompared : CompareTransactions(count)
  BY <1>1, CompareKeeps
<1>2. ASSUME NEW base \in BaseFees, NEW resource \in ResourceFees,
             SimulationEnds("success", base, resource)
      PROVE  SimulationIInv'
  <2>1. FitResult([state |-> "success", base |-> base, resource |-> resource])
    BY SimulationConstants DEF FitResult, SimulationResults
  <2>2. QED
    BY <1>2, <2>1, EndingKeeps
<1>3. CASE SimulationEnds("error", <<0>>, <<0>>)
  <2>1. <<0>> \in Seq(0..9)
    OBVIOUS
  <2>2. FitResult([state |-> "error", base |-> <<0>>, resource |-> <<0>>])
    BY <2>1 DEF FitResult, SimulationResults
  <2>3. QED
    BY <1>3, <2>2, EndingKeeps
<1>4. CASE SimulationThrows
  BY <1>4, NothingCompared DEF SimulationThrows
<1>5. CASE EndComparison
  BY <1>5, EndComparisonKeeps
<1>6. CASE ForgetComparison
  BY <1>6, NothingCompared DEF ForgetComparison
<1>7. CASE TrackSimulation
  BY <1>7, TrackingKeeps
<1>8. CASE UNCHANGED simulationVars
  <2>1. ResultsFit /\ ComparisonIsOfResults /\ HistoryIsLast
    BY DEF SimulationIInv
  <2>2. UNCHANGED <<compared, comparison, historicalData, simulations>>
    BY <1>8 DEF simulationVars
  <2>3. ComparisonIsOfResults'
    BY <2>1, <2>2, SameComparison
  <2>4. ResultsFit' /\ HistoryIsLast'
    BY <2>1, <2>2 DEF ResultsFit, FitResult, HistoryIsLast
  <2>5. QED
    BY <2>3, <2>4 DEF SimulationIInv
<1>9. QED
  BY <1>1, <1>2, <1>3, <1>4, <1>5, <1>6, <1>7, <1>8 DEF SimulationNext

-----------------------------------------------------------------------------
(* Simulations: what is compared *)

\* The recommended fee, and its value
LEMMA RecommendedFees ==
  ASSUME NEW r, FitResult(r)
  PROVE  /\ r.state = "success" => /\ RecommendedFee(r) = r.base \o r.resource
                                   /\ Value(RecommendedFee(r)) > 0
         /\ r.state # "success" => Value(RecommendedFee(r)) = 0
         /\ RecommendedFee(r) \in Seq(0..9) /\ Value(RecommendedFee(r)) \in Nat
<1>1. CASE r.state = "success"
  <2>1. r.base \in Seq(0..9) /\ r.base # <<>> /\ Head(r.base) # 0 /\ r.resource \in Seq(0..9)
    BY <1>1, SimulationConstants DEF FitResult
  <2>2. RecommendedFee(r) = r.base \o r.resource
    BY <1>1 DEF RecommendedFee
  <2>3. PICK b \in Seq(0..9), x \in Seq(0..9) : b = r.base /\ x = r.resource
    BY <2>1
  <2>7. PICK c \in Seq(0..9) :
          c = b \o x /\ Len(c) = Len(b) + Len(x) /\ \A i \in 1..Len(b) : c[i] = b[i]
    <3>1. b \o x \in Seq(0..9)
      BY ConcatProperties
    <3>2. Len(b \o x) = Len(b) + Len(x)
      OBVIOUS
    <3>3. \A i \in 1..Len(b) : (b \o x)[i] = b[i]
      OBVIOUS
    <3>4. QED
      BY <3>1, <3>2, <3>3
  <2>8. Len(b) \in Nat /\ Len(b) >= 1 /\ Len(x) \in Nat /\ Head(b) = b[1]
    BY <2>1, <2>3
  <2>9. Len(c) >= 1 /\ c[1] = b[1]
    BY <2>7, <2>8
  <2>4. c \in Seq(0..9) /\ c # <<>> /\ Head(c) = Head(b)
    BY <2>7, <2>8, <2>9
  <2>5. Value(c) > 0 /\ Value(c) \in Nat
    BY <2>1, <2>3, <2>4, PositiveValue, ValueType
  <2>6. QED
    BY <1>1, <2>2, <2>3, <2>4, <2>5, <2>7
<1>2. CASE r.state # "success"
  <2>1. RecommendedFee(r) = <<0>>
    BY <1>2 DEF RecommendedFee
  <2>2. <<0>> \in Seq(0..9) /\ Len(<<0>>) = 1 /\ <<0>>[1] = 0 /\ 1 \in 1..1
    OBVIOUS
  <2>3. PICK v \in [0..1 -> Nat] :
          /\ v[0] = 0 /\ \A n \in 1..1 : v[n] = 10 * v[n - 1] + <<0>>[n]
          /\ Value(<<0>>) = v[1]
    BY <2>2, ValuesOf
  <2>4. v[1] = 10 * v[0] + 0
    BY <2>2, <2>3
  <2>5. Value(<<0>>) = 0
    BY <2>3, <2>4
  <2>6. QED
    BY <1>2, <2>1, <2>2, <2>5
<1>3. QED
  BY <1>1, <1>2

\* A failure is taken for less expensive than any success, by no other.
LEMMA LessFeeMeans ==
  ASSUME NEW r, FitResult(r), NEW s, FitResult(s)
  PROVE  /\ r.state = "success" /\ s.state = "success" =>
              (LessFee(r, s) <=> SortsBefore(RecommendedFee(r), RecommendedFee(s)))
         /\ r.state # "success" /\ s.state = "success" => LessFee(r, s)
         /\ s.state # "success" => ~LessFee(r, s)
<1> DEFINE x == Value(RecommendedFee(r))
           y == Value(RecommendedFee(s))
<1>1. /\ x \in Nat /\ y \in Nat
      /\ (s.state = "success" => y > 0) /\ (s.state # "success" => y = 0)
      /\ (r.state # "success" => x = 0)
  BY RecommendedFees
<1>2. LessFee(r, s) <=> IF r.state = "success" /\ s.state = "success"
                        THEN SortsBefore(RecommendedFee(r), RecommendedFee(s)) ELSE x < y
  BY DEF LessFee
<1> HIDE DEF x, y
<1>3. QED
  BY <1>1, <1>2

\* So results are ordered by it,
LEMMA LessFeeIsStrict ==
  ASSUME NEW r, FitResult(r), NEW s, FitResult(s), NEW t, FitResult(t)
  PROVE  ~LessFee(r, r) /\ (LessFee(r, s) /\ LessFee(s, t) => LessFee(r, t))
<1> DEFINE Fee(q) == RecommendedFee(q)
<1>1. Fee(r) \in Seq(0..9) /\ Fee(s) \in Seq(0..9) /\ Fee(t) \in Seq(0..9)
  BY RecommendedFees
<1>2. ~LessFee(r, r)
  BY <1>1, NoneSortsBeforeItself, LessFeeMeans
<1>3. ASSUME LessFee(r, s), LessFee(s, t) PROVE LessFee(r, t)
  <2>1. s.state = "success" /\ t.state = "success" /\ SortsBefore(Fee(s), Fee(t))
    BY <1>3, LessFeeMeans
  <2>2. CASE r.state = "success"
    <3>1. SortsBefore(Fee(r), Fee(s))
      BY <1>3, <2>1, <2>2, LessFeeMeans
    <3>2. SortsBefore(Fee(r), Fee(t))
      BY <1>1, <2>1, <3>1, SortingIsTransitive
    <3>3. QED
      BY <2>1, <2>2, <3>2, LessFeeMeans
  <2>3. CASE r.state # "success"
    BY <2>1, <2>3, LessFeeMeans
  <2>4. QED
    BY <2>2, <2>3
<1>4. QED
  BY <1>2, <1>3

\* and the one that is found is one that none is less expensive than.
LEMMA LeastExpensive ==
  ASSUME ResultsFit, compared # <<>>
  PROVE  /\ FirstBest(LessExpensiveThan) \in 1..Len(compared)
         /\ \A i \in 1..Len(compared) :
              ~LessFee(compared[i], compared[FirstBest(LessExpensiveThan)])
<1> DEFINE n == Len(compared)
           beaten == LessExpensiveThan
<1>1. n \in Nat /\ n >= 1 /\ DOMAIN compared = 1..n /\ \A i \in 1..n : FitResult(compared[i])
  BY DEF ResultsFit
<1>2. beaten = [i \in 1..n |-> {j \in 1..n : LessFee(compared[i], compared[j])}]
  BY <1>1 DEF LessExpensiveThan
<1> HIDE DEF beaten, n
<1>3. beaten \in [1..n -> SUBSET (1..n)]
  BY <1>2
<1>4. \A i, j \in 1..n : j \in beaten[i] <=> LessFee(compared[i], compared[j])
  BY <1>2
<1>5. \A i \in 1..n : i \notin beaten[i]
  BY <1>1, <1>4, LessFeeIsStrict
<1>6. \A i, j, k \in 1..n : j \in beaten[i] /\ k \in beaten[j] => k \in beaten[i]
  BY <1>1, <1>4, LessFeeIsStrict
<1>7. FirstBest(beaten) \in 1..n /\ \A i \in 1..n : FirstBest(beaten) \notin beaten[i]
  BY <1>1, <1>3, <1>5, <1>6, FirstBestIs
<1>8. QED
  BY <1>4, <1>7 DEF beaten, n

\* None is more efficient than the most efficient.
LEMMA MostEfficient ==
  ASSUME ResultsFit, compared # <<>>
  PROVE  /\ FirstBest(MoreEfficientThan) \in 1..Len(compared)
         /\ (\E i \in 1..Len(compared) : compared[i].state = "success") =>
              compared[FirstBest(MoreEfficientThan)].state = "success"
<1> DEFINE n == Len(compared)
           beaten == MoreEfficientThan
           cost == [i \in 1..n |-> Inefficiency(compared[i])]
<1>1. n \in Nat /\ n >= 1 /\ DOMAIN compared = 1..n /\ \A i \in 1..n : FitResult(compared[i])
  BY DEF ResultsFit
<1>2. beaten = [i \in 1..n |-> {j \in 1..n : Inefficiency(compared[i]) < Inefficiency(compared[j])}]
  BY <1>1 DEF MoreEfficientThan
<1>3. ASSUME NEW i \in 1..n
      PROVE  /\ cost[i] \in Nat
             /\ compared[i].state = "success" <=> cost[i] <= Million
  <2>1. PICK x \in Nat : x = Value(RecommendedFee(compared[i]))
    BY <1>1, RecommendedFees
  <2>2. cost[i] = IF compared[i].state # "success" THEN Million + 1
                  ELSE IF x < Million THEN x ELSE Million
    BY <2>1 DEF Inefficiency
  <2> HIDE DEF cost
  <2>3. QED
    BY <2>2 DEF Million
<1>4. \A i, j \in 1..n : j \in beaten[i] <=> cost[i] < cost[j]
  BY <1>2
<1>5. beaten \in [1..n -> SUBSET (1..n)]
  BY <1>2
<1> HIDE DEF beaten, n, cost
<1>6. \A i \in 1..n : i \notin beaten[i]
  BY <1>3, <1>4
<1>7. \A i, j, k \in 1..n : j \in beaten[i] /\ k \in beaten[j] => k \in beaten[i]
  BY <1>3, <1>4
<1>8. PICK b \in 1..n : b = FirstBest(beaten) /\ \A i \in 1..n : b \notin beaten[i]
  BY <1>1, <1>5, <1>6, <1>7, FirstBestIs
<1>9. ASSUME NEW i \in 1..n, compared[i].state = "success" PROVE compared[b].state = "success"
  <2>1. ~(cost[i] < cost[b]) /\ cost[i] <= Million
    BY <1>3, <1>4, <1>8, <1>9
  <2>2. cost[b] <= Million
    BY <1>3, <2>1 DEF Million
  <2>3. QED
    BY <1>3, <2>2
<1>10. QED
  BY <1>8, <1>9 DEF beaten, n

\* A limit is kept in numbers, too, unless it is 0.
LEMMA TargetsAreKept ==
  ASSUME NEW r, FitResult(r), r.state = "success", NEW maxFee \in Nat \ {0},
         WithinTarget(r, maxFee)
  PROVE  TotalFee(r) <= maxFee
<1>1. r.base \in Seq(0..9) /\ r.resource \in Seq(0..9)
  BY SimulationConstants DEF FitResult
<1>2. PICK b \in Seq(0..9), x \in Seq(0..9) : b = r.base /\ x = r.resource
  BY <1>1
<1>3. Value(b) \in Nat /\ Value(x) \in Nat /\ Value(b \o x) \in Nat
      /\ Value(b) + Value(x) <= Value(b \o x)
  <2>1. b \o x \in Seq(0..9)
    BY ConcatProperties
  <2>2. QED
    BY <2>1, ValueType, ValueOfTwo
<1>4. Value(b \o x) <= maxFee
  BY <1>2, <1>3 DEF WithinTarget, RecommendedFee
<1>5. TotalFee(r) = Value(b) + Value(x)
  BY <1>2 DEF TotalFee
<1>6. QED
  BY <1>3, <1>4, <1>5

\* Of results whose fees start alike and are as long, the least expensive is so.
LEMMA CheapestIsCheapest ==
  ASSUME NEW r, FitResult(r), NEW s, FitResult(s), ~LessFee(s, r),
         s.state = r.state, s.base = r.base, Len(s.resource) = Len(r.resource)
  PROVE  TotalFee(r) <= TotalFee(s)
<1>1. CASE r.state = "success"
  <2>1. r.base \in Seq(0..9) /\ r.resource \in Seq(0..9) /\ s.resource \in Seq(0..9)
    BY <1>1, SimulationConstants DEF FitResult
  <2>2. PICK b \in Seq(0..9), x \in Seq(0..9), y \in Seq(0..9) :
          b = r.base /\ x = r.resource /\ y = s.resource
    BY <2>1
  <2>3. RecommendedFee(r) = b \o x /\ RecommendedFee(s) = b \o y
    BY <1>1, <2>2 DEF RecommendedFee
  <2>4. ~SortsBefore(b \o y, b \o x)
    BY <1>1, <2>3, LessFeeMeans
  <2>5. Value(x) <= Value(y)
    BY <2>2, <2>4, LastIsNoLess
  <2>6. Value(b) \in Nat /\ Value(x) \in Nat /\ Value(y) \in Nat
    BY ValueType
  <2>7. TotalFee(r) = Value(b) + Value(x) /\ TotalFee(s) = Value(b) + Value(y)
    BY <2>2 DEF TotalFee
  <2>8. QED
    BY <2>5, <2>6, <2>7
<1>2. CASE r.state # "success"
  <2>1. r.base = <<0>> /\ r.resource = <<0>> /\ s.base = <<0>> /\ s.resource = <<0>>
    BY <1>2 DEF FitResult
  <2>2. <<0>> \in Seq(0..9)
    OBVIOUS
  <2>3. Value(<<0>>) \in Nat
    BY <2>2, ValueType
  <2>4. TotalFee(r) = TotalFee(s) /\ TotalFee(r) \in Nat
    BY <2>1, <2>3 DEF TotalFee
  <2>5. QED
    BY <2>4
<1>3. QED
  BY <1>1, <1>2

\* The history is the end of the list of all simulations.
LEMMA HistoryIsEnd ==
  ASSUME HistoryIsLast
  PROVE  /\ historicalData
              = SubSeq(simulations, Len(simulations) - Len(historicalData) + 1, Len(simulations))
         /\ Range(historicalData) \subseteq Range(simulations)
<1> DEFINE n == Len(simulations)
           l == Len(historicalData)
<1>1. /\ simulations \in Seq(Nat) /\ historicalData \in Seq(Nat) /\ n \in Nat /\ l \in Nat
      /\ l <= n /\ DOMAIN simulations = 1..n /\ DOMAIN historicalData = 1..l
      /\ \A i \in 1..l : historicalData[i] = simulations[(n - l) + i]
  <2>1. simulations \in Seq(Nat) /\ historicalData \in Seq(Nat)
    BY DEF HistoryIsLast
  <2>2. /\ n \in Nat /\ l \in Nat
        /\ DOMAIN simulations = 1..n /\ DOMAIN historicalData = 1..l
    BY <2>1
  <2>3. l <= n /\ \A i \in 1..l : historicalData[i] = simulations[(n - l) + i]
    BY DEF HistoryIsLast
  <2>4. QED
    BY <2>1, <2>2, <2>3
<1> DEFINE end == SubSeq(simulations, n - l + 1, n)
<1> HIDE DEF n, l
<1>2. /\ end \in Seq(Nat) /\ Len(end) = l
      /\ \A i \in 1..l : end[i] = simulations[(n - l) + i]
  BY <1>1
<1> HIDE DEF end
<1>3. historicalData = end
  <2>1. Len(historicalData) = l /\ Len(end) = l
    BY <1>2 DEF l
  <2>2. \A i \in 1..Len(historicalData) : historicalData[i] = end[i]
    BY <1>1, <1>2, <2>1
  <2>3. historicalData \in Seq(Nat) /\ end \in Seq(Nat)
    BY <1>1, <1>2
  <2> HIDE DEF end, l
  <2>4. QED
    BY <2>1, <2>2, <2>3
<1>4. \A i \in 1..l : (n - l) + i \in 1..n
  BY <1>1
<1>5. Range(historicalData) \subseteq Range(simulations)
  BY <1>1, <1>4 DEF Range
<1>6. QED
  BY <1>3, <1>5 DEF end, n, l

LEMMA SimulationInvMeans == SimulationIInv => SimulationTypeOK /\ SimulationsAreCompared
<1> SUFFICES ASSUME SimulationIInv PROVE SimulationTypeOK /\ SimulationsAreCompared
  OBVIOUS
<1>1. ResultsFit /\ HistoryIsLast /\ ComparisonIsOfResults
  BY DEF SimulationIInv
<1>2. Len(compared) \in Nat /\ DOMAIN compared = 1..Len(compared)
      /\ \A i \in 1..Len(compared) : FitResult(compared[i])
  BY <1>1 DEF ResultsFit
<1>3. ASSUME comparison # NoComparison
      PROVE  /\ comparison.leastExpensive = FirstBest(LessExpensiveThan)
             /\ comparison.mostEfficient = FirstBest(MoreEfficientThan)
             /\ compared # <<>>
  BY <1>1, <1>3 DEF ComparisonIsOfResults
<1>4. SimulationTypeOK
  <2>1. CASE comparison = NoComparison
    BY <1>1, <1>2, <2>1, HistoryIsEnd DEF SimulationTypeOK, NoComparison
  <2>2. CASE comparison # NoComparison
    <3>1. /\ comparison.leastExpensive \in 1..Len(compared)
          /\ comparison.mostEfficient \in 1..Len(compared)
      BY <1>1, <1>3, <2>2, LeastExpensive, MostEfficient
    <3>2. QED
      BY <1>1, <1>2, <3>1, HistoryIsEnd DEF SimulationTypeOK
  <2>3. QED
    BY <2>1, <2>2
<1> DEFINE successes == {i \in DOMAIN compared : compared[i].state = "success"}
           cheapest == compared[comparison.leastExpensive]
<1>5. ASSUME comparison # NoComparison
      PROVE  /\ successes # {} => comparison.mostEfficient \in successes
             /\ successes # DOMAIN compared => comparison.leastExpensive \notin successes
             /\ \A i \in DOMAIN compared :
                  compared[i].state = cheapest.state /\ compared[i].base = cheapest.base
                  /\ Len(compared[i].resource) = Len(cheapest.resource)
                    => TotalFee(cheapest) <= TotalFee(compared[i])
  <2>1. PICK b \in 1..Len(compared), c \in 1..Len(compared) :
          /\ b = comparison.leastExpensive /\ c = comparison.mostEfficient
          /\ \A i \in 1..Len(compared) : ~LessFee(compared[i], compared[b])
          /\ (\E i \in 1..Len(compared) : compared[i].state = "success") =>
               compared[c].state = "success"
    BY <1>1, <1>3, <1>5, LeastExpensive, MostEfficient
  <2>2. successes # {} => c \in successes
    BY <1>2, <2>1
  <2>3. ASSUME NEW i \in 1..Len(compared), compared[i].state # "success"
        PROVE  compared[b].state # "success"
    BY <1>2, <2>1, <2>3, LessFeeMeans
  <2>4. ASSUME NEW i \in 1..Len(compared),
               compared[i].state = compared[b].state, compared[i].base = compared[b].base,
               Len(compared[i].resource) = Len(compared[b].resource)
        PROVE  TotalFee(compared[b]) <= TotalFee(compared[i])
    BY <1>2, <2>1, <2>4, CheapestIsCheapest
  <2>5. QED
    BY <1>2, <2>1, <2>2, <2>3, <2>4
<1>6. ASSUME NEW i \in DOMAIN compared, NEW maxFee \in FeeTargets,
             maxFee # 0, compared[i].state = "success", WithinTarget(compared[i], maxFee)
      PROVE  TotalFee(compared[i]) <= maxFee
  BY <1>2, <1>6, SimulationConstants, TargetsAreKept
<1>7. SimulationsAreCompared
  BY <1>1, <1>5, <1>6, HistoryIsEnd DEF SimulationsAreCompared, HistoryIsLast
<1>8. QED
  BY <1>4, <1>7

\* However many simulations run together, end and are tracked, what is said of
\* them by comparison holds of their fees in numbers, as does what is said of any
\* limit but 0, which the code takes for none; and the history is the last of them
\* (packages/core/src/transaction/transactionSimulator.ts:155-192, 242, 322-328).
THEOREM SimulationsCompare == SimulationSpec => [](SimulationTypeOK /\ SimulationsAreCompared)
<1>1. SimulationInit => SimulationIInv
  BY SimulationInvInit
<1>2. SimulationIInv /\ [SimulationNext]_simulationVars => SimulationIInv'
  BY SimulationInvStep
<1>3. SimulationIInv => SimulationTypeOK /\ SimulationsAreCompared
  BY SimulationInvMeans
<1>4. QED
  BY <1>1, <1>2, <1>3, PTL DEF SimulationSpec
=============================================================================
