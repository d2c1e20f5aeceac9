-------------------------- MODULE BatchTransactions --------------------------
(***************************************************************************)
(* processBatchTransactions() of packages/core's EnhancedTransaction-      *)
(* Builder: transactions of one account are built, signed, submitted and   *)
(* polled, one after the other or all together.  Their numbers come from   *)
(* getAccountWithCache(), which goes on counting from what it read last    *)
(* when the network does not answer.  (StellarClient leaves the hook that   *)
(* makes its requests to a subclass; the client here is such a subclass.)  *)
(*                                                                         *)
(* The ledger holds one pending transaction of an account and takes it     *)
(* only with the account's next number; what it refuses is polled in vain, *)
(* since the answer of sendTransaction() is not looked at.  Nobody else    *)
(* uses the account.  The delay between transactions is part of the time   *)
(* that may pass before the next one begins.                               *)
(***************************************************************************)
EXTENDS Integers, Sequences

CONSTANTS
  Batches,       \* the batches asked for: [parallel, length]
  NoNumber,      \* nothing is cached
  MaxEstimates   \* bound on estimates of the cost of a transaction

ASSUME BatchAssumption ==
  /\ Batches \subseteq [parallel : BOOLEAN, length : Nat]
  /\ MaxEstimates \in Nat /\ NoNumber \notin Int

VARIABLES
  batch,         \* the one that is processed
  items,         \* the transactions of the batch; `unsure' if the number was counted
                 \* from one that nothing was built with
  foundOut,      \* those whose outcome a poll found
  cachedNumber,  \* accountSequenceCache, of the account
  accountNumber, \* the number the account used last
  inLedger,      \* transactions in the ledger, oldest first
  estimates,     \* estimates made so far
  skipped        \* whether nothing was built with the cached number

batchVars == <<batch, items, foundOut, cachedNumber, accountNumber, inLedger, estimates, skipped>>

Items == 1..batch.length

\* The number read before the batch began was used.
BatchInit ==
  /\ batch \in Batches
  /\ items = [i \in Items |-> [stage |-> "waiting", number |-> 0, unsure |-> FALSE,
                               result |-> "none", chain |-> "none"]]
  /\ foundOut = {} /\ cachedNumber \in {NoNumber, 0} /\ accountNumber = 1
  /\ inLedger = <<>> /\ estimates = 0 /\ skipped = FALSE

\* Mutant: the next transaction does not wait for the end of the one before.
TurnAtOnce(i) == \A j \in 1..i - 1 : items[j].stage # "waiting"

\* The loop of a sequential batch comes to its i-th transaction; in a parallel one
\* all begin at once.
Turn(i) == batch.parallel \/ \A j \in 1..i - 1 : items[j].stage = "over"

Begin(i) ==
  /\ items[i].stage = "waiting" /\ Turn(i)
  /\ items' = IF batch.parallel THEN [j \in Items |-> [items[j] EXCEPT !.stage = "account"]]
              ELSE [items EXCEPT ![i].stage = "account"]
  /\ UNCHANGED <<batch, foundOut, cachedNumber, accountNumber, inLedger, estimates, skipped>>

\* The end of buildAndSignTransaction(), or a catch: the result of the transaction
Ended(i, result) ==
  items' = [items EXCEPT ![i].stage = "over", ![i].result = result]

\* buildTransaction() with the account the network gave
AccountAnswers(i) ==
  /\ items[i].stage = "account"
  /\ cachedNumber' = accountNumber /\ skipped' = FALSE
  /\ items' = [items EXCEPT ![i].stage = "built", ![i].number = accountNumber + 1]
  /\ UNCHANGED <<batch, foundOut, accountNumber, inLedger, estimates>>

\* Mutant: the number that was given is not kept.
RepeatCached == cachedNumber

\* getAccountWithCache() without the network: the account it returns.
NextCached == cachedNumber + 1

\* or with the one that was cached, if it was not too long ago.
AccountFails(i) ==
  /\ items[i].stage = "account"
  /\ IF cachedNumber = NoNumber
     THEN Ended(i, "failed") /\ UNCHANGED cachedNumber
     ELSE /\ cachedNumber' = NextCached
          /\ items' = [items EXCEPT ![i].stage = "built", ![i].number = cachedNumber + 2,
                                    ![i].unsure = skipped]
  /\ UNCHANGED <<batch, foundOut, accountNumber, inLedger, estimates, skipped>>

\* The networks differ, the simulation fails, the wallet declines, or the
\* transaction cannot be sent.
Throws(i) ==
  /\ items[i].stage \in {"account", "built"}
  /\ Ended(i, "failed")
  /\ UNCHANGED <<batch, foundOut, cachedNumber, accountNumber, inLedger, estimates, skipped>>

LedgerTakesNumber(number) ==
  number = accountNumber + 1 /\ \A j \in Items : items[j].chain # "pending"

Submit(i) ==
  /\ items[i].stage = "built"
  /\ items' = [items EXCEPT
       ![i].stage = "polling",
       ![i].chain = IF LedgerTakesNumber(items[i].number) THEN "pending" ELSE "refused"]
  /\ UNCHANGED <<batch, foundOut, cachedNumber, accountNumber, inLedger, estimates, skipped>>

\* A pending transaction is applied, or its time is over.
LedgerDecides(i) ==
  /\ items[i].chain = "pending"
  /\ \E outcome \in {"SUCCESS", "FAILED", "expired"} :
       /\ items' = [items EXCEPT ![i].chain = outcome]
       /\ IF outcome = "expired" THEN UNCHANGED <<accountNumber, inLedger>>
          ELSE accountNumber' = items[i].number /\ inLedger' = Append(inLedger, i)
  /\ UNCHANGED <<batch, foundOut, cachedNumber, estimates, skipped>>

\* pollTransaction() finds what became of it
PollFindsOut(i) ==
  /\ items[i].stage = "polling" /\ items[i].chain \in {"SUCCESS", "FAILED"}
  /\ Ended(i, IF items[i].chain = "SUCCESS" THEN "successful" ELSE "failed")
  /\ foundOut' = foundOut \cup {i}
  /\ UNCHANGED <<batch, cachedNumber, accountNumber, inLedger, estimates, skipped>>

\* or throws: its time is over, sooner than that of the transaction, or a request
\* fails.
PollThrows(i) ==
  /\ items[i].stage = "polling"
  /\ Ended(i, "failed")
  /\ UNCHANGED <<batch, foundOut, cachedNumber, accountNumber, inLedger, estimates, skipped>>

\* estimateBatchCost() of a transaction, which builds it to have it simulated
Estimate(answers) ==
  /\ estimates < MaxEstimates /\ estimates' = estimates + 1
  /\ IF answers THEN cachedNumber' = accountNumber /\ skipped' = TRUE
     ELSE /\ cachedNumber # NoNumber
          /\ cachedNumber' = NextCached /\ skipped' = TRUE
  /\ UNCHANGED <<batch, items, foundOut, accountNumber, inLedger>>

\* The cached number grows too old.
CacheExpires ==
  /\ cachedNumber # NoNumber /\ cachedNumber' = NoNumber
  /\ UNCHANGED <<batch, items, foundOut, accountNumber, inLedger, estimates, skipped>>

BatchNext ==
  \/ \E i \in Items :
       \/ Begin(i) \/ AccountAnswers(i) \/ AccountFails(i) \/ Throws(i) \/ Submit(i)
       \/ LedgerDecides(i) \/ PollFindsOut(i) \/ PollThrows(i)
  \/ \E answers \in BOOLEAN : Estimate(answers)
  \/ CacheExpires

BatchSpec == BatchInit /\ [][BatchNext]_batchVars

-----------------------------------------------------------------------------
(* Properties *)

BatchTypeOK ==
  /\ cachedNumber \in Nat \cup {NoNumber} /\ foundOut \subseteq Items
  /\ \A i \in Items :
       items[i].chain \in {"none", "refused", "pending", "SUCCESS", "FAILED", "expired"}

(* The results of a batch are what became of its transactions: one reported as
   successful is in the ledger, and one that is there although it was reported
   as failed is one whose poll gave up.  A sequential batch is applied in its
   order, and the first transaction to be refused for its number comes after one
   whose outcome the batch never learnt, or after a number was spent on an
   estimate.
   (packages/core/src/transaction/enhancedTransactionBuilder.ts:97-141,
    packages/core/src/client/stellarClient.ts:543-557) *)
BatchTellsTruth ==
  /\ \A i \in Items :
       /\ items[i].result = "successful" => items[i].chain = "SUCCESS"
       /\ items[i].chain = "SUCCESS" /\ items[i].result = "failed" => i \notin foundOut
  /\ ~batch.parallel =>
       /\ \A m, n \in DOMAIN inLedger : m < n => inLedger[m] < inLedger[n]
       /\ \A i \in Items :
            items[i].chain = "refused" => items[i].unsure \/ \E j \in 1..i - 1 : j \notin foundOut
=============================================================================
