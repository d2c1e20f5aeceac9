----------------------------- MODULE RpcRequests -----------------------------
(***************************************************************************)
(* Requests of packages/core's StellarClient: retry() repeats what failed  *)
(* with a status worth it, after a growing delay, and executeWithFailover()*)
(* moves the client on to the next RPC server when the retries have failed.*)
(* The client has one current server, whichever calls are in flight.  Its  *)
(* HTTP client, which has retries of its own in an interceptor, is in the  *)
(* model too; src/utils/httpInterceptor.ts is the same without the jitter  *)
(* and without Retry-After, and src/client has a single server.            *)
(*                                                                         *)
(* The client is one of a subclass that implements the abstract method     *)
(* executeWithErrorHandling(), which StellarClient itself leaves open.     *)
(* Delays are in tenths of the base delay.  An answer is a success or one  *)
(* of three failures: 429, with the delay of its Retry-After if it has     *)
(* one, another status that is retryable, or anything else.                *)
(***************************************************************************)
EXTENDS Integers, FiniteSets

CONSTANTS
  ServerCount,      \* rpcUrls.length
  Requesters,       \* calls that are in flight together
  maxRetries, maxDelay,
  RetryAfters       \* delays that a Retry-After asks for

ASSUME RequestAssumption ==
  /\ ServerCount \in Nat \ {0} /\ maxRetries \in Nat /\ maxDelay \in Nat
  /\ RetryAfters \subseteq Nat
  /\ \A n \in 0..maxRetries : 2 ^ n \in Nat  \* a fact about powers, for the proofs

VARIABLES
  currentRpc,   \* currentRpcIndex
  requests      \* the call of each requester

requestVars == <<currentRpc, requests>>

Servers == 0..ServerCount - 1
Unhurried == -1   \* a failure without Retry-After
Lesser(a, b) == IF a < b THEN a ELSE b

\* `sent' and `asked' are history: the requests made, and the servers asked.
NoCall == [kind |-> "none", phase |-> "idle", server |-> 0, tries |-> 0, wait |-> 0,
           sent |-> 0, asked |-> {}]

RequestInit == currentRpc = 0 /\ requests = [c \in Requesters |-> NoCall]

Sending(r, server) ==
  [r EXCEPT !.phase = "sent", !.server = server, !.sent = @ + 1, !.asked = @ \cup {server}]

\* A call of the client: executeWithFailover(rpc => retry(() => rpc...)).
CallRpc(c) ==
  /\ requests[c].phase = "idle"
  /\ requests' = [requests EXCEPT ![c] = Sending([NoCall EXCEPT !.kind = "rpc"], currentRpc)]
  /\ UNCHANGED currentRpc

\* A request of the HTTP client: the method is worth a retry, or is not.
CallHttp(c, kind) ==
  /\ requests[c].phase = "idle"
  /\ requests' = [requests EXCEPT ![c] = Sending([NoCall EXCEPT !.kind = kind], 0)]
  /\ UNCHANGED currentRpc

Succeed(c) ==
  /\ requests[c].phase = "sent"
  /\ requests' = [requests EXCEPT ![c].phase = "succeeded"]
  /\ UNCHANGED currentRpc

\* Mutant: the number of requests is compared, not of retries.
RepeatsOnceMore(r, failure) ==
  failure # "other" /\ r.tries <= maxRetries /\ r.kind # "post"

\* isRetryableRequest(), isRetryableError() and the number of retries.
Repeats(r, failure) ==
  failure # "other" /\ r.tries < maxRetries /\ r.kind # "post"

\* Mutant: a Retry-After is obeyed, however long.
DelaysUncapped(try, failure, retryAfter) ==
  IF failure = "429" /\ retryAfter # Unhurried THEN {retryAfter}
  ELSE {Lesser((10 + jitter) * 2 ^ (try - 1), maxDelay) : jitter \in -1..1}

\* calculateDelay() with its jitter, or getRetryAfterDelay().
Delays(try, failure, retryAfter) ==
  IF failure = "429" /\ retryAfter # Unhurried THEN {Lesser(retryAfter, maxDelay)}
  ELSE {Lesser((10 + jitter) * 2 ^ (try - 1), maxDelay) : jitter \in -1..1}

FailAndWait(c, failure, retryAfter) ==
  /\ requests[c].phase = "sent" /\ Repeats(requests[c], failure)
  /\ \E d \in Delays(requests[c].tries + 1, failure, retryAfter) :
       requests' = [requests EXCEPT ![c].phase = "waiting", ![c].wait = d, ![c].tries = @ + 1]
  /\ UNCHANGED currentRpc

\* Mutant: the request goes to the server that is current by then.
RepeatOnCurrent(c) ==
  /\ requests[c].phase = "waiting"
  /\ requests' = [requests EXCEPT ![c] = Sending(requests[c], currentRpc)]
  /\ UNCHANGED currentRpc

\* The delay is over: the same server is asked again.
Repeat(c) ==
  /\ requests[c].phase = "waiting"
  /\ requests' = [requests EXCEPT ![c] = Sending(requests[c], requests[c].server)]
  /\ UNCHANGED currentRpc

\* Mutant: the index is not wrapped around.
FailOverPastTheLast(c, failure) ==
  /\ requests[c].phase = "sent" /\ ~Repeats(requests[c], failure)
  /\ requests[c].kind = "rpc" /\ ServerCount > 1
  /\ currentRpc' = currentRpc + 1
  /\ requests' = [requests EXCEPT ![c].phase = "failed"]

\* retry() has thrown, for whatever reason: trySwitchToNextRpc() moves the index
\* and assigns this.rpc, a getter without a setter.  The assignment throws, out of
\* the catch block and the loop of executeWithFailover().
FailOver(c, failure) ==
  /\ requests[c].phase = "sent" /\ ~Repeats(requests[c], failure)
  /\ requests[c].kind = "rpc" /\ ServerCount > 1
  /\ currentRpc' = (currentRpc + 1) % ServerCount
  /\ requests' = [requests EXCEPT ![c].phase = "failed"]

\* There is no other server, or it is a request of the HTTP client.
GiveUp(c, failure) ==
  /\ requests[c].phase = "sent" /\ ~Repeats(requests[c], failure)
  /\ requests[c].kind = "rpc" => ServerCount = 1
  /\ requests' = [requests EXCEPT ![c].phase = "failed"]
  /\ UNCHANGED currentRpc

\* The requester makes another call.
Return(c) ==
  /\ requests[c].phase \in {"succeeded", "failed"}
  /\ requests' = [requests EXCEPT ![c] = NoCall]
  /\ UNCHANGED currentRpc

RequestNext ==
  \E c \in Requesters :
    \/ CallRpc(c) \/ Succeed(c) \/ Repeat(c) \/ Return(c)
    \/ \E kind \in {"get", "post"} : CallHttp(c, kind)
    \/ \E failure \in {"429", "retryable", "other"} :
         \/ FailOver(c, failure) \/ GiveUp(c, failure)
         \/ \E retryAfter \in RetryAfters \cup {Unhurried} : FailAndWait(c, failure, retryAfter)

RequestSpec == RequestInit /\ [][RequestNext]_requestVars

-----------------------------------------------------------------------------
(* Properties *)

RequestTypeOK ==
  /\ currentRpc \in Servers
  /\ \A c \in Requesters :
       /\ requests[c].kind \in {"none", "rpc", "get", "post"}
       /\ requests[c].phase \in {"idle", "sent", "waiting", "succeeded", "failed"}
       /\ requests[c].server \in Servers /\ requests[c].wait \in 0..maxDelay

(* A call is repeated as often as its retries allow and no more, always by the
   server that it asked first, whatever other calls do to the client's current
   server meanwhile; a POST of the HTTP client is never repeated.
   (packages/core/src/client/stellarClient.ts:376-412;
    packages/core/src/utils/httpInterceptor.ts:104-195) *)
RequestsAreRepeatedInBounds ==
  \A c \in Requesters :
    LET r == requests[c]
    IN  /\ r.sent <= maxRetries + 1
        /\ r.kind = "post" => r.sent <= 1
        /\ r.asked \subseteq {r.server}
        /\ r.phase = "waiting" => r.sent = r.tries

(* "Automatically retries and fails over to backup URLs on failure."
   (packages/core/src/client/stellarClient.ts:416): a call that fails has asked
   every server. *)
FailsOverToBackups ==
  \A c \in Requesters :
    requests[c].kind = "rpc" /\ requests[c].phase = "failed" => requests[c].asked = Servers
=============================================================================
