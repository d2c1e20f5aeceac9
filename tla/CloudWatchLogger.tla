-------------------------- MODULE CloudWatchLogger --------------------------
(***************************************************************************)
(* The log shipper of src/utils/logging/cloudwatch/cloudWatchLogger.ts:    *)
(* entries are queued and sent in batches by flush(), which a timer, a     *)
(* full queue, the application and destroy() call, and which may overlap.  *)
(*                                                                         *)
(* A flush is one run of flush() that found something to send; it waits    *)
(* for PutLogEvents, for DescribeLogStreams or for the backoff timer.  The *)
(* import() of the AWS module, loaded once, is not a step of its own.  Of  *)
(* a sequence token only matters whether it is the one CloudWatch expects: *)
(* whatever CloudWatch stores makes every token but the answer's stale.    *)
(***************************************************************************)
EXTENDS Integers, Sequences, FiniteSets, SequencesExt

CONSTANTS
  Entries,     \* log entries; each is logged at most once
  InitCalls,   \* explicit calls of initialize()
  Flushes,     \* identities of runs of flush()
  BatchSize,   \* config.batchSize
  MaxRetries,  \* config.maxRetries
  ChecksToken, \* CloudWatch rejects a stale sequence token
  MaxFailures  \* bound on the requests that fail for another reason

ASSUME ConfigAssumption ==
  /\ BatchSize \in Nat \ {0} /\ MaxRetries \in Nat \ {0}
  /\ ChecksToken \in BOOLEAN /\ MaxFailures \in Nat

VARIABLES
  logQueue,      \* this.logQueue
  flushTimer,    \* this.flushTimer is set
  tokenFresh,    \* this.sequenceToken is the one CloudWatch expects
  client,        \* this.client is set
  isInitialized, \* this.isInitialized
  isDestroyed,   \* this.isDestroyed
  callers,       \* progress of each log() and initialize()
  flushes,       \* the runs of flush()
  stored,        \* how often CloudWatch stored an entry: 0, 1, or 2 for more
  lostAcks,      \* entries stored by a request whose answer was an error
  failures,      \* requests that have failed, but for their token
  remaining      \* the queue when destroy() was called and has not finished

vars == <<logQueue, flushTimer, tokenFresh, client, isInitialized, isDestroyed,
          callers, flushes, stored, lostAcks, failures, remaining>>

Callers == Entries \cup InitCalls
Idle == [phase |-> "idle", batch |-> <<>>, attempt |-> 1, fresh |-> FALSE, last |-> FALSE]

Accepted(e) == callers[e] = "done"
InFlight == {f \in Flushes : flushes[f].phase # "idle"}
Batches == {flushes[f].batch : f \in InFlight}

-----------------------------------------------------------------------------
(* flush() on queue q, in run f; last says that destroy() waits for it. *)

Min2(a, b) == IF a < b THEN a ELSE b

\* Mutant: slice() for splice(), the batch stays in the queue.
RestKeepsBatch(q) == q
Rest(q) == SubSeq(q, 1 + Min2(BatchSize, Len(q)), Len(q))

Splice(q, f, last) ==
  /\ flushes[f].phase = "idle"
  /\ flushes' = [flushes EXCEPT ![f] =
       [phase |-> "put", batch |-> SubSeq(q, 1, Min2(BatchSize, Len(q))),
        attempt |-> 1, fresh |-> tokenFresh, last |-> last]]
  /\ logQueue' = Rest(q)

\* Mutant: the end of a flush that failed drops its batch.
GiveUpDrops(f) ==
  /\ flushes' = [flushes EXCEPT ![f] = Idle]
  /\ UNCHANGED logQueue
  /\ client' = (client /\ ~flushes[f].last)
  /\ remaining' = IF flushes[f].last THEN {} ELSE remaining

\* The catch of flush(): the batch goes back to the front of the queue; when
\* destroy() waits, it goes on and drops the client.
GiveUp(f) ==
  /\ flushes' = [flushes EXCEPT ![f] = Idle]
  /\ logQueue' = flushes[f].batch \o logQueue
  /\ client' = (client /\ ~flushes[f].last)
  /\ remaining' = IF flushes[f].last THEN {} ELSE remaining

\* Mutant: one attempt more than maxRetries.
FailedOneMore(f, invalidToken) ==
  \/ /\ flushes[f].attempt > MaxRetries \/ (invalidToken /\ ~client)
     /\ GiveUp(f)
  \/ /\ flushes[f].attempt <= MaxRetries
     /\ invalidToken => client
     /\ flushes' = [flushes EXCEPT
          ![f].phase = IF invalidToken THEN "describe" ELSE "backoff",
          ![f].fresh = @ /\ flushes[f].phase = "put"]   \* params keep their old token
     /\ UNCHANGED <<logQueue, client, remaining>>

\* The catch of putLogEventsWithRetry(): give up, ask for the token, or wait.
Failed(f, invalidToken) ==
  \/ /\ flushes[f].attempt >= MaxRetries \/ (invalidToken /\ ~client)
     /\ GiveUp(f)
  \/ /\ flushes[f].attempt < MaxRetries
     /\ invalidToken => client
     /\ flushes' = [flushes EXCEPT
          ![f].phase = IF invalidToken THEN "describe" ELSE "backoff",
          ![f].fresh = @ /\ flushes[f].phase = "put"]   \* params keep their old token
     /\ UNCHANGED <<logQueue, client, remaining>>

-----------------------------------------------------------------------------
Init ==
  /\ logQueue = <<>> /\ flushTimer = FALSE
  /\ tokenFresh \in BOOLEAN      \* no token: right for an empty stream only
  /\ client = FALSE /\ isInitialized = FALSE /\ isDestroyed = FALSE
  /\ callers = [c \in Callers |-> "new"]
  /\ flushes = [f \in Flushes |-> Idle]
  /\ stored = [e \in Entries |-> 0]
  /\ lostAcks = {} /\ failures = 0 /\ remaining = {}

\* The rest of log() once initialize() is over: push, and flush a full queue.
Push(e) ==
  LET q == Append(logQueue, e)
  IN  /\ callers' = [callers EXCEPT ![e] = "done"]
      /\ IF client' /\ Len(q) >= BatchSize
           THEN \E f \in Flushes : Splice(q, f, FALSE)
           ELSE logQueue' = q /\ UNCHANGED flushes

Return(c) == IF c \in Entries THEN Push(c)
             ELSE callers' = [callers EXCEPT ![c] = "done"] /\ UNCHANGED <<logQueue, flushes>>

\* log() and initialize(): at once if there is nothing to initialize.
Call(c) ==
  /\ callers[c] = "new"
  /\ IF isInitialized \/ isDestroyed
       THEN UNCHANGED client /\ Return(c)
       ELSE callers' = [callers EXCEPT ![c] = "loading"]
            /\ UNCHANGED <<client, logQueue, flushes>>
  /\ UNCHANGED <<flushTimer, tokenFresh, isInitialized, isDestroyed, stored,
                 lostAcks, failures, remaining>>

\* The AWS module is loaded: create the client, ask for the log group.
Load(c) ==
  /\ callers[c] = "loading"
  /\ callers' = [callers EXCEPT ![c] = "group"]
  /\ client' = TRUE
  /\ UNCHANGED <<logQueue, flushTimer, tokenFresh, isInitialized, isDestroyed,
                 flushes, stored, lostAcks, failures, remaining>>

\* The log group exists: ask for the log stream, if there still is a client.
GroupReady(c) ==
  /\ callers[c] = "group"
  /\ callers' = [callers EXCEPT ![c] = IF client THEN "stream" ELSE "rejected"]
  /\ UNCHANGED <<logQueue, flushTimer, tokenFresh, client, isInitialized,
                 isDestroyed, flushes, stored, lostAcks, failures, remaining>>

\* Mutant: the timer is not started.
StreamReadyNoTimer(c) ==
  /\ callers[c] = "stream"
  /\ isInitialized' = TRUE
  /\ UNCHANGED <<client, flushTimer>>
  /\ Return(c)
  /\ UNCHANGED <<tokenFresh, isDestroyed, stored, lostAcks, failures, remaining>>
\* The log stream exists: start the timer, and go on with log().
StreamReady(c) ==
  /\ callers[c] = "stream"
  /\ flushTimer' = TRUE
  /\ isInitialized' = TRUE
  /\ UNCHANGED client
  /\ Return(c)
  /\ UNCHANGED <<tokenFresh, isDestroyed, stored, lostAcks, failures, remaining>>

\* A step of initialize() fails, and log() with it: the entry is not accepted.
InitializeFails(c) ==
  /\ callers[c] \in {"loading", "group", "stream"}
  /\ callers' = [callers EXCEPT ![c] = "rejected"]
  /\ UNCHANGED <<logQueue, flushTimer, tokenFresh, client, isInitialized,
                 isDestroyed, flushes, stored, lostAcks, failures, remaining>>

\* flush(), called by the application.
Flush(f) ==
  /\ client /\ logQueue # <<>>
  /\ Splice(logQueue, f, FALSE)
  /\ UNCHANGED <<flushTimer, tokenFresh, client, isInitialized, isDestroyed,
                 callers, stored, lostAcks, failures, remaining>>

\* flush(), called by the timer.
TimerFlush(f) == flushTimer /\ Flush(f)

\* CloudWatch stores a batch; only the token it answers with is not stale.
Store(f) ==
  /\ flushes[f].phase = "put"
  /\ ChecksToken => flushes[f].fresh
  /\ stored' = [e \in Entries |-> IF e \in ToSet(flushes[f].batch)
                                    THEN Min2(2, stored[e] + 1) ELSE stored[e]]
  /\ flushes' = [g \in Flushes |->
       IF g = f THEN [flushes[g] EXCEPT !.phase = "stored", !.fresh = TRUE]
       ELSE [flushes[g] EXCEPT !.fresh = FALSE]]
  /\ tokenFresh' = FALSE
  /\ UNCHANGED <<logQueue, flushTimer, client, isInitialized, isDestroyed,
                 callers, lostAcks, failures, remaining>>

\* Mutant: the batch of a flush is put back although it was stored.
AnswerRequeues(f) ==
  /\ flushes[f].phase = "stored"
  /\ GiveUp(f)
  /\ tokenFresh' = flushes[f].fresh
  /\ UNCHANGED <<flushTimer, isInitialized, isDestroyed, callers, stored, lostAcks, failures>>

\* The answer arrives with the next sequence token.
Answer(f) ==
  /\ flushes[f].phase = "stored"
  /\ flushes' = [flushes EXCEPT ![f] = Idle]
  /\ tokenFresh' = flushes[f].fresh
  /\ client' = (client /\ ~flushes[f].last)
  /\ remaining' = IF flushes[f].last THEN {} ELSE remaining
  /\ UNCHANGED <<logQueue, flushTimer, isInitialized, isDestroyed, callers,
                 stored, lostAcks, failures>>

Fails == failures < MaxFailures /\ failures' = failures + 1

\* PutLogEvents fails, before or after the batch was stored.
PutFails(f) ==
  /\ Fails
  /\ flushes[f].phase \in {"put", "stored"}
  /\ Failed(f, FALSE)
  /\ lostAcks' = IF flushes[f].phase = "stored"
                   THEN lostAcks \cup ToSet(flushes[f].batch) ELSE lostAcks
  /\ UNCHANGED <<flushTimer, tokenFresh, isInitialized, isDestroyed, callers, stored>>

\* InvalidSequenceTokenException
TokenRejected(f) ==
  /\ ChecksToken /\ flushes[f].phase = "put" /\ ~flushes[f].fresh
  /\ Failed(f, TRUE)
  /\ UNCHANGED <<flushTimer, tokenFresh, isInitialized, isDestroyed, callers,
                 stored, lostAcks, failures>>

\* DescribeLogStreams answers with the token CloudWatch expects now, if any.
Described(f) ==
  /\ flushes[f].phase = "describe"
  /\ flushes' = [flushes EXCEPT ![f].phase = "backoff", ![f].fresh = TRUE]
  /\ UNCHANGED <<logQueue, flushTimer, tokenFresh, client, isInitialized,
                 isDestroyed, callers, stored, lostAcks, failures, remaining>>
DescribeFails(f) ==
  /\ Fails
  /\ flushes[f].phase = "describe"
  /\ GiveUp(f)
  /\ UNCHANGED <<flushTimer, tokenFresh, isInitialized, isDestroyed, callers,
                 stored, lostAcks>>

\* The backoff is over: send again.  Without a client the attempt fails at once.
Retry(f) ==
  /\ flushes[f].phase = "backoff"
  /\ \/ /\ client \/ flushes[f].attempt + 1 < MaxRetries
        /\ flushes' = [flushes EXCEPT ![f].phase = IF client THEN "put" ELSE "backoff",
                                      ![f].attempt = @ + 1]
        /\ UNCHANGED <<logQueue, client, remaining>>
     \/ /\ ~client /\ flushes[f].attempt + 1 >= MaxRetries
        /\ GiveUp(f)
  /\ UNCHANGED <<flushTimer, tokenFresh, isInitialized, isDestroyed, callers,
                 stored, lostAcks, failures>>

\* destroy()
Destroy ==
  /\ ~isDestroyed
  /\ isDestroyed' = TRUE
  /\ flushTimer' = FALSE
  /\ IF client /\ logQueue # <<>>
       THEN /\ \E f \in Flushes : Splice(logQueue, f, TRUE)
            /\ remaining' = ToSet(logQueue)
            /\ UNCHANGED client
       ELSE /\ client' = FALSE
            /\ UNCHANGED <<logQueue, flushes, remaining>>
  /\ UNCHANGED <<tokenFresh, isInitialized, callers, stored, lostAcks, failures>>

Next ==
  \/ \E c \in Callers : Call(c) \/ Load(c) \/ GroupReady(c) \/ StreamReady(c)
                        \/ InitializeFails(c)
  \/ \E f \in Flushes : Flush(f) \/ TimerFlush(f) \/ Store(f) \/ Answer(f)
                        \/ PutFails(f) \/ TokenRejected(f)
                        \/ Described(f) \/ DescribeFails(f) \/ Retry(f)
  \/ Destroy

Spec == Init /\ [][Next]_vars

\* CloudWatch answers, failures come to an end, and timers fire.
Fairness ==
  \A f \in Flushes :
    /\ WF_vars(TimerFlush(f)) /\ WF_vars(Retry(f)) /\ WF_vars(TokenRejected(f))
    /\ WF_vars(Store(f)) /\ WF_vars(Answer(f)) /\ WF_vars(Described(f))
FairSpec == Spec /\ Fairness

-----------------------------------------------------------------------------
(* Every variable has its type. *)
TypeOK ==
  /\ logQueue \in Seq(Entries)
  /\ {flushTimer, tokenFresh, client, isInitialized, isDestroyed} \subseteq BOOLEAN
  /\ callers \in [Callers -> {"new", "loading", "group", "stream", "done", "rejected"}]
  /\ \A f \in Flushes :
       /\ flushes[f].phase \in {"idle", "put", "stored", "describe", "backoff"}
       /\ flushes[f].batch \in Seq(Entries) /\ Len(flushes[f].batch) <= BatchSize
       /\ flushes[f].attempt \in 1..MaxRetries
       /\ {flushes[f].fresh, flushes[f].last} \subseteq BOOLEAN
  /\ stored \in [Entries -> 0..2]
  /\ failures \in 0..MaxFailures
  /\ lostAcks \subseteq Entries /\ remaining \subseteq Entries

(* No entry log() took is lost, whatever fails and however flushes overlap: it
   is in the queue, in a batch in flight, or stored.  And it is in one place of
   the logger, once: overlapping flushes never take the same entry, and a batch
   that is put back is in no other hands. *)
NothingLost ==
  /\ \A e \in Entries : Accepted(e) =>
       stored[e] > 0 \/ e \in ToSet(logQueue) \/ \E f \in InFlight : e \in ToSet(flushes[f].batch)
  /\ IsInjective(logQueue)
  /\ \A f \in InFlight :
       /\ IsInjective(flushes[f].batch)
       /\ ToSet(flushes[f].batch) \cap ToSet(logQueue) = {}
       /\ \A g \in InFlight \ {f} :
            ToSet(flushes[f].batch) \cap ToSet(flushes[g].batch) = {}

(* CloudWatch stores an entry twice only if the answer to a request that stored
   it was lost: retries and flushes duplicate nothing by themselves. *)
DuplicatesOnlyAfterLostAnswer == \A e \in Entries : stored[e] > 1 => e \in lostAcks

(* Every entry log() took is stored in the end, unless the logger is destroyed
   first. *)
EventuallyStored == \A e \in Entries : Accepted(e) ~> (stored[e] > 0 \/ isDestroyed)

(* "Flush remaining logs" (cloudWatchLogger.ts:161): when the flush of destroy()
   has succeeded, nothing that was in the queue when destroy() was called is
   left behind. *)
RemainingFlushed ==
  [][\A f \in Flushes : Answer(f) /\ flushes[f].last =>
        ToSet(logQueue') \cap remaining = {}]_vars
=============================================================================
