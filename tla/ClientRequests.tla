---------------------------- MODULE ClientRequests ----------------------------
(***************************************************************************)
(* The operations of src's StellarClient down to their requests: some are  *)
(* repeated by retry(), a transaction is signed by the wallet and sent     *)
(* once, and what fails is thrown as one of the SDK's errors.  The         *)
(* application may call an operation in a retry() of its own, which looks  *)
(* at the status of the error it gets; whether that is the status of the   *)
(* answer is for the operation to say.  Calls share the metrics only.      *)
(*                                                                         *)
(* A failure is one of the RPC client: an error of its own, with the       *)
(* status of the answer if there was one, or, from a client that the       *)
(* application brings, an AxionveraError.  Of a message only what the SDK  *)
(* looks for is kept.  getLatestLedger() is like getNetwork().  Middleware *)
(* and fees are in modules of their own.                                   *)
(***************************************************************************)
EXTENDS Integers

CONSTANTS
  Statuses,           \* of answers that fail
  RetryableStatuses,
  MaxRepeats,         \* retryConfig.maxRetries
  MaxCalls            \* bound on the operations of a behaviour

ASSUME ClientRequestsAssumption ==
  /\ Statuses \subseteq Nat /\ RetryableStatuses \subseteq Nat
  /\ MaxRepeats \in Nat /\ MaxCalls \in Nat

VARIABLES
  options,     \* what the client was made with: [retries, wallet]
  call,        \* the operation in flight, or the last one
  counted,     \* metrics of the operation: [started, succeeded, failed]
  calls        \* operations called so far

NoStatus == -1   \* undefined

clientVars == <<options, call, counted, calls>>

Repeating == {"getHealth", "getNetwork", "getAccount", "getTransaction"}
Once == {"simulate", "prepare", "prepareFeeBump", "send"}
Operations == Repeating \cup Once
Counted == {"getHealth", "simulate", "prepare", "send"}

Messages == {"plain", "timeout", "funds", "signature"}
Failure(own, status, message) ==
  [sdk |-> own, type |-> IF own THEN "RpcError" ELSE "Error",
   status |-> status, message |-> message]
SdkError(type, status) == [sdk |-> TRUE, type |-> type, status |-> status, message |-> "plain"]
NoError == SdkError("none", NoStatus)

NoOperation == [operation |-> "none", patient |-> FALSE, stage |-> "idle", tries |-> 0,
                outerTries |-> 0, sent |-> 0, error |-> NoError, own |-> TRUE,
                rawRepeated |-> FALSE]

ClientInit ==
  /\ options \in [retries : BOOLEAN, wallet : BOOLEAN]
  /\ call = NoOperation /\ calls = 0
  /\ counted = [started |-> 0, succeeded |-> 0, failed |-> 0]

-----------------------------------------------------------------------------
(* Errors *)

\* toAxionveraError(): a failure without status is one of the network.
ToAxionveraError(e) ==
  IF e.sdk THEN e
  ELSE SdkError(CASE e.status \in {401, 403} -> "AuthenticationError"
                  [] e.status = 429 -> "RateLimitError"
                  [] e.status \in (400..499) \ {401, 403, 429} -> "ValidationError"
                  [] e.status = NoStatus \/ e.status >= 500 -> "NetworkError"
                  [] OTHER -> "AxionveraError",
                e.status)

\* Mutant: the status is kept, as toAxionveraError() does.
NormalizeWithStatus(e) == IF e.sdk THEN e ELSE SdkError("TransactionError", e.status)

\* The status is not passed on.
NormalizeTransactionError(e) ==
  IF e.sdk THEN e
  ELSE SdkError(CASE e.message = "funds" -> "InsufficientFundsError"
                  [] e.message = "signature" -> "InvalidSignatureError"
                  [] e.message = "timeout" -> "TimeoutError"
                  [] OTHER -> "TransactionError",
                NoStatus)

\* What the catch of an operation throws
ErrorThrown(operation, e) ==
  CASE operation \in {"getHealth", "getAccount", "getTransaction"} -> ToAxionveraError(e)
    [] operation = "getNetwork" -> SdkError("AxionveraRPCError", NoStatus)
    [] operation \in {"simulate", "prepare"} ->
         IF e.sdk THEN e ELSE SdkError("SimulationFailedError", NoStatus)
    [] operation = "prepareFeeBump" -> ToAxionveraError(e)
    [] operation = "send" -> NormalizeTransactionError(e)

-----------------------------------------------------------------------------
(* Calls *)

CountStart(operation) ==
  counted' = IF operation \in Counted THEN [counted EXCEPT !.started = @ + 1] ELSE counted

\* An attempt of an operation: it asks the wallet first, or sends its request.
Attempt(c) ==
  IF c.operation = "send" /\ options.wallet
  THEN [c EXCEPT !.stage = "signing", !.tries = 0, !.outerTries = @ + 1]
  ELSE [c EXCEPT !.stage = "sent", !.tries = 1, !.outerTries = @ + 1, !.sent = @ + 1]

CallOperation(operation, patient) ==
  /\ call.stage \in {"idle", "over"} /\ calls < MaxCalls
  /\ call' = Attempt([NoOperation EXCEPT !.operation = operation, !.patient = patient])
  /\ calls' = calls + 1 /\ CountStart(operation)
  /\ UNCHANGED options

\* Mutant: the number of requests is counted from zero.
RepeatsOnceMoreThan(status, tries) ==
  options.retries /\ status \in RetryableStatuses /\ tries <= MaxRepeats + 1

\* retry(), of the client and of the application, after a number of tries
WorthRepeating(status, tries) ==
  options.retries /\ status \in RetryableStatuses /\ tries <= MaxRepeats

\* The operation throws, to the application or to its retry().
OperationThrows(c, e) ==
  /\ call' = [c EXCEPT
       !.stage = IF c.patient /\ WorthRepeating(e.status, c.outerTries)
                 THEN "waitingOutside" ELSE "over",
       !.error = IF c.patient THEN ToAxionveraError(e) ELSE e]
  /\ counted' = IF c.operation \in Counted THEN [counted EXCEPT !.failed = @ + 1] ELSE counted
  /\ UNCHANGED <<options, calls>>

RequestFails(e) ==
  LET c == [call EXCEPT !.own = e.sdk]
  IN  /\ call.stage = "sent"
      /\ IF c.operation \in Repeating /\ WorthRepeating(e.status, c.tries)
         THEN call' = [c EXCEPT !.stage = "waiting"] /\ UNCHANGED <<options, counted, calls>>
         ELSE OperationThrows(c, ErrorThrown(c.operation, e))

\* The answer is validated, in the operations that do so; a simulation may have
\* found an error.
RequestAnswered ==
  /\ call.stage = "sent"
  /\ \/ /\ call' = [call EXCEPT !.stage = "over", !.error = NoError]
        /\ counted' = IF call.operation \in Counted THEN [counted EXCEPT !.succeeded = @ + 1]
                      ELSE counted
        /\ UNCHANGED <<options, calls>>
     \/ /\ call.operation \in {"getHealth", "getTransaction", "simulate", "prepare"}
        /\ OperationThrows(call, SdkError("RPCValidationMismatchError", NoStatus))
     \/ /\ call.operation \in {"simulate", "prepare"}
        /\ OperationThrows(call, SdkError("SimulationFailedError", NoStatus))

\* The delay is over.
RepeatRequest ==
  /\ call.stage = "waiting"
  /\ call' = [call EXCEPT !.stage = "sent", !.tries = @ + 1, !.sent = @ + 1]
  /\ UNCHANGED <<options, counted, calls>>

RepeatOperation ==
  /\ call.stage = "waitingOutside"
  /\ call' = Attempt([call EXCEPT !.rawRepeated = @ \/ ~call.own])
  /\ CountStart(call.operation)
  /\ UNCHANGED <<options, calls>>

\* sendTransaction(): the wallet signs, declines, or returns what is no transaction.
WalletSigns ==
  /\ call.stage = "signing"
  /\ \/ /\ call' = [call EXCEPT !.stage = "sent", !.tries = 1, !.sent = @ + 1]
        /\ UNCHANGED <<options, counted, calls>>
     \/ \E message \in Messages :
          OperationThrows(call, NormalizeTransactionError(Failure(FALSE, NoStatus, message)))
     \/ OperationThrows(call, SdkError("InvalidXDRError", NoStatus))

ClientNext ==
  \/ \E operation \in Operations, patient \in BOOLEAN : CallOperation(operation, patient)
  \/ \E own \in BOOLEAN, status \in Statuses \cup {NoStatus}, message \in Messages :
       RequestFails(Failure(own, status, message))
  \/ RequestAnswered \/ RepeatRequest \/ RepeatOperation \/ WalletSigns

ClientSpec == ClientInit /\ [][ClientNext]_clientVars

-----------------------------------------------------------------------------
(* Properties *)

ClientTypeOK ==
  /\ call.stage \in {"idle", "signing", "sent", "waiting", "waitingOutside", "over"}
  /\ call.error.status \in Statuses \cup {NoStatus} /\ calls \in 0..MaxCalls

(* An operation makes as many requests as its retries allow, and in a retry() of
   the application as many times more; but a transaction is sent again, and a
   simulation repeated, only if the RPC client failed with an AxionveraError.
   What is thrown is an error of the SDK whose type fits its status, and the
   metrics account for every operation: it has succeeded, failed, or is in flight.
   (src/utils/httpInterceptor.ts:107-142, src/errors/axionveraError.ts:320, 504;
    src/client/stellarClient.ts:476-540, 1139-1190) *)
ClientRequestsEnd ==
  LET inFlight == call.operation \in Counted /\ call.stage \in {"signing", "sent", "waiting"}
      rounds == IF call.patient THEN MaxRepeats + 1 ELSE 1
  IN  /\ call.sent <= rounds * (IF call.operation \in Repeating THEN MaxRepeats + 1 ELSE 1)
      /\ call.operation \in {"getNetwork", "simulate", "prepare", "send"} => ~call.rawRepeated
      /\ call.stage = "over" =>
           /\ call.error.sdk
           /\ call.error.type = "RateLimitError" => call.error.status = 429
           /\ call.error.type = "AuthenticationError" => call.error.status \in {401, 403}
           /\ call.error.type = "NetworkError" => call.error.status \notin 0..499
      /\ counted.started = counted.succeeded + counted.failed + (IF inFlight THEN 1 ELSE 0)
=============================================================================
