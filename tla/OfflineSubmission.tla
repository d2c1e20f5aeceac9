-------------------------- MODULE OfflineSubmission --------------------------
(***************************************************************************)
(* The sequence numbers of one account in StellarClient                    *)
(* (src/client/stellarClient.ts): getAccountWithCache() asks the network   *)
(* and falls back on a cached number, submitTransactionsSequentially()     *)
(* sends the transactions that were built with them.                       *)
(*                                                                         *)
(* The application builds a transaction from an account or leaves it, and  *)
(* submits what it has built, in that order, as one array.  A call of      *)
(* getAccountWithCache() fails when getAccount() rejects and when its      *)
(* timeout comes first; what is answered after that is not looked at.      *)
(***************************************************************************)
EXTENDS Integers, Sequences, FiniteSets

CONSTANTS Calls,       \* identities of runs of getAccountWithCache()
          Ttl,         \* cacheTtlMs, in ticks
          MaxBuilt,    \* bound on the transactions of one array
          MaxSequence  \* bound on sequence numbers

ASSUME BoundsAssumption == Ttl \in Nat /\ MaxBuilt \in Nat /\ MaxSequence \in Nat

VARIABLES
  sequence,   \* the account's sequence number on the network
  pool,       \* the number of a transaction accepted and not yet in a ledger, or None
  cache,      \* accountSequenceCache: the number and its age, up to Ttl + 1
  accountCalls, \* the runs of getAccountWithCache(), and the number the network read
  offline,    \* the numbers handed out from the cache since the network last answered
  built,      \* the sequence numbers of the transactions built and not submitted
  submission, \* the run of submitTransactionsSequentially()
  received    \* the positions of the transactions the network received in it

submissionVars == <<sequence, pool, cache, accountCalls, offline, built, submission, received>>

None == -1
NoCache == [seq |-> None, age |-> 0]
NotSubmitting == [phase |-> "idle", results |-> 0]
InFlight == {c \in Calls : accountCalls[c].state # "idle"}

SubmissionInit ==
  /\ sequence = 0 /\ pool = None
  /\ cache = NoCache
  /\ accountCalls = [c \in Calls |-> [state |-> "idle", read |-> None]]
  /\ offline = {}
  /\ built = <<>>
  /\ submission = NotSubmitting /\ received = <<>>

-----------------------------------------------------------------------------
\* The application may build a transaction with the account it was given.
Build(n) ==
  \/ UNCHANGED built
  \/ /\ submission.phase = "idle" /\ Len(built) < MaxBuilt
     /\ built' = Append(built, n + 1)

Finish(c) == accountCalls' = [accountCalls EXCEPT ![c] = [state |-> "idle", read |-> None]]

\* getAccountWithCache(), up to its await
GetAccount(c) ==
  /\ accountCalls[c].state = "idle"
  /\ cache.seq + Cardinality(InFlight) < MaxSequence /\ sequence < MaxSequence
  /\ accountCalls' = [accountCalls EXCEPT ![c] = [state |-> "asked", read |-> None]]
  /\ UNCHANGED <<sequence, pool, cache, offline, built, submission, received>>

\* The network reads the account; the answer is on its way.
NetworkReads(c) ==
  /\ accountCalls[c].state = "asked"
  /\ accountCalls' = [accountCalls EXCEPT ![c] = [state |-> "read", read |-> sequence]]
  /\ UNCHANGED <<sequence, pool, cache, offline, built, submission, received>>

\* The answer arrives in time: whatever it says goes into the cache.
Online(c) ==
  /\ accountCalls[c].state = "read"
  /\ cache' = [seq |-> accountCalls[c].read, age |-> 0]
  /\ offline' = {}
  /\ Build(accountCalls[c].read)
  /\ Finish(c)
  /\ UNCHANGED <<sequence, pool, submission, received>>

Expired == cache # NoCache /\ cache.age > Ttl

\* Mutant: the incremented number is not stored.
OfflineNotStored(c) ==
  /\ accountCalls[c].state # "idle"
  /\ cache' = IF Expired THEN NoCache ELSE cache
  /\ IF cache = NoCache \/ Expired THEN UNCHANGED <<offline, built>>
     ELSE /\ offline' = offline \cup {cache.seq + 1}
          /\ Build(cache.seq + 1)
  /\ Finish(c)
  /\ UNCHANGED <<sequence, pool, submission, received>>

\* getAccount() rejects, or the timeout comes first.  An expired entry is
\* deleted and the call rejects; one that is used is as good as new.
Offline(c) ==
  /\ accountCalls[c].state # "idle"
  /\ IF cache = NoCache \/ Expired
     THEN /\ cache' = NoCache
          /\ UNCHANGED <<offline, built>>
     ELSE /\ cache' = [seq |-> cache.seq + 1, age |-> 0]
          /\ offline' = offline \cup {cache.seq + 1}
          /\ Build(cache.seq + 1)
  /\ Finish(c)
  /\ UNCHANGED <<sequence, pool, submission, received>>

\* clearCache(), and cleanupExpiredCache(), which deletes what has expired.
ClearCache ==
  /\ cache # NoCache
  /\ cache' = NoCache
  /\ UNCHANGED <<sequence, pool, accountCalls, offline, built, submission, received>>

-----------------------------------------------------------------------------
\* submitTransactionsSequentially(built)
Submit ==
  /\ submission.phase = "idle" /\ built # <<>>
  /\ submission' = [phase |-> "sending", results |-> 0]
  /\ received' = <<>>
  /\ UNCHANGED <<sequence, pool, cache, accountCalls, offline, built>>

Turn == submission.results + 1

\* The network receives the transaction, and accepts it if its turn has come.
\* Any other number is refused, with an answer that says so.
Receive ==
  /\ submission.phase = "sending"
  /\ received' = Append(received, Turn)
  /\ submission' = [submission EXCEPT !.phase = "received"]
  /\ pool' = IF pool = None /\ built[Turn] = sequence + 1 THEN built[Turn] ELSE pool
  /\ UNCHANGED <<sequence, cache, accountCalls, offline, built>>

\* Mutant: a refused transaction is sent again.
AnswerSendsAgain ==
  /\ submission.phase = "received"
  /\ submission' = [submission EXCEPT !.phase = "pausing",
                                      !.results = IF pool = built[Turn] THEN @ + 1 ELSE @]
  /\ UNCHANGED <<sequence, pool, cache, accountCalls, offline, built, received>>

\* The answer of sendTransaction(), whatever its status; then the pause of 100 ms.
SubmissionAnswered ==
  /\ submission.phase = "received"
  /\ submission' = [phase |-> "pausing", results |-> Turn]
  /\ UNCHANGED <<sequence, pool, cache, accountCalls, offline, built, received>>

\* Mutant: `<=' for `<' in the loop condition.
PauseOverByOne ==
  /\ submission.phase = "pausing"
  /\ IF submission.results <= Len(built)
     THEN submission' = [submission EXCEPT !.phase = "sending"] /\ UNCHANGED built
     ELSE submission' = NotSubmitting /\ built' = <<>>
  /\ UNCHANGED <<sequence, pool, cache, accountCalls, offline, received>>

\* The next turn of the loop, or its end.
PauseOver ==
  /\ submission.phase = "pausing"
  /\ IF submission.results < Len(built)
     THEN submission' = [submission EXCEPT !.phase = "sending"] /\ UNCHANGED built
     ELSE submission' = NotSubmitting /\ built' = <<>>
  /\ UNCHANGED <<sequence, pool, cache, accountCalls, offline, received>>

\* sendTransaction() throws, before or after the network has the transaction:
\* the rest is not sent.  An error about sequence numbers clears the cache.
SendFails ==
  /\ submission.phase \in {"sending", "received"}
  /\ cache' \in {cache, NoCache}
  /\ submission' = NotSubmitting /\ built' = <<>>
  /\ UNCHANGED <<sequence, pool, accountCalls, offline, received>>

-----------------------------------------------------------------------------
\* The network: a ledger closes with the transaction in the pool; somebody else
\* uses the account; time passes.
PoolIsApplied ==
  /\ pool # None
  /\ sequence' = pool /\ pool' = None
  /\ UNCHANGED <<cache, accountCalls, offline, built, submission, received>>
OthersSubmit ==
  /\ pool = None /\ sequence < MaxSequence
  /\ sequence' = sequence + 1
  /\ UNCHANGED <<pool, cache, accountCalls, offline, built, submission, received>>
CacheAges ==
  /\ cache # NoCache /\ cache.age <= Ttl
  /\ cache' = [cache EXCEPT !.age = @ + 1]
  /\ UNCHANGED <<sequence, pool, accountCalls, offline, built, submission, received>>

SubmissionNext ==
  \/ \E c \in Calls : GetAccount(c) \/ NetworkReads(c) \/ Online(c) \/ Offline(c)
  \/ ClearCache \/ Submit \/ Receive \/ SubmissionAnswered \/ PauseOver \/ SendFails
  \/ PoolIsApplied \/ OthersSubmit \/ CacheAges

SubmissionSpec == SubmissionInit /\ [][SubmissionNext]_submissionVars

-----------------------------------------------------------------------------
(* Every variable has its type, and the loop stays within the array. *)
SubmissionTypeOK ==
  /\ sequence \in Nat /\ pool \in Nat \cup {None}
  /\ cache \in [seq : Nat, age : 0..(Ttl + 1)] \cup {NoCache}
  /\ accountCalls \in [Calls -> [state : {"idle", "asked", "read"}, read : Nat \cup {None}]]
  /\ offline \subseteq Nat
  /\ built \in Seq(Nat) /\ received \in Seq(Nat)
  /\ submission \in [phase : {"idle", "sending", "received", "pausing"}, results : Nat]
  /\ submission.phase \in {"sending", "received"} => submission.results < Len(built)

(* Until the network answers again, the numbers handed out from the cache are
   consecutive, up to the cached one: no two calls of getAccountWithCache(),
   however they overlap, get the same number, and none is left out. *)
OfflineNumbersConsecutive ==
  cache # NoCache => offline = (cache.seq - Cardinality(offline) + 1)..cache.seq

(* The network has received the transactions in the order of the array, each
   once, and none beyond the one that is being sent: what follows a transaction
   that failed to be sent never leaves the client. *)
SubmittedInOrder ==
  /\ \A i \in 1..Len(received) : received[i] = i
  /\ submission.phase # "idle" =>
       Len(received) = submission.results + (IF submission.phase = "received" THEN 1 ELSE 0)

(* "Transactions are submitted one at a time, waiting for each to succeed before
   submitting the next" (stellarClient.ts:746): the number of a transaction that
   has succeeded is used up. *)
WaitsForSuccess ==
  submission.phase = "sending" => \A i \in 1..submission.results : built[i] <= sequence
=============================================================================
