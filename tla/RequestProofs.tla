---------------------------- MODULE RequestProofs ----------------------------
(***************************************************************************)
(* Theorems about the requests of a client, each for any values of its     *)
(* constants: RpcRequests, ClientRequests and EventRange, which send them, *)
(* Tracing with the cache of decoded XDR, Telemetry and Profiling, which   *)
(* observe them, Replay and MockRpc, which record and imitate them, and    *)
(* Conversions, which reads what they carry.                               *)
(***************************************************************************)
EXTENDS RpcRequests, ClientRequests, EventRange, Telemetry, Tracing, Replay, Profiling, MockRpc,
        Conversions, FiniteSetTheorems, SequenceTheorems, WellFoundedInduction, TLAPS

-----------------------------------------------------------------------------
(* What the lemmas below say of numbers and sequences. *)

\* Numbers that exist have a least one.
LEMMA LeastOf ==
  ASSUME NEW S \in SUBSET Nat, S # {}
  PROVE  \E n \in S : \A m \in S : n <= m
<1> DEFINE R == OpToRel(<, Nat)
<1>1. IsWellFoundedOn(R, Nat)
  BY NatLessThanWellFounded
<1>2. \A m, n \in Nat : <<m, n>> \in R <=> m < n
  BY DEF OpToRel
<1> HIDE DEF R
<1>3. PICK n \in S : \A m \in S : ~(<<m, n>> \in R)
  BY <1>1, WFMin
<1>4. \A m \in S : ~(m < n)
  BY <1>2, <1>3
<1>5. \A m \in S : n <= m
  BY <1>4
<1>6. QED
  BY <1>5

\* A set of numbers that has 0, and the next of each of them, is all of them.
LEMMA UpFromZero ==
  ASSUME NEW T, 0 \in T, \A n \in Nat : n \in T => n + 1 \in T
  PROVE  Nat \subseteq T
<1> SUFFICES ASSUME Nat \ T # {} PROVE FALSE
  OBVIOUS
<1>1. PICK n \in Nat \ T : \A m \in Nat \ T : n <= m
  BY LeastOf
<1>2. n # 0 /\ n - 1 \in Nat
  BY <1>1
<1>3. n - 1 \in T
  BY <1>1, <1>2
<1>4. QED
  BY <1>1, <1>2, <1>3

\* An element of a sequence
LEMMA ListElement ==
  ASSUME NEW S, NEW q \in Seq(S), NEW i \in 1..Len(q)
  PROVE  q[i] \in S
OBVIOUS

\* What is in a sequence
LEMMA ListRange ==
  ASSUME NEW S, NEW q \in Seq(S), NEW x
  PROVE  x \in Range(q) <=> \E i \in 1..Len(q) : q[i] = x
BY DEF Range

\* Two sequences in a row
LEMMA ListInTwo ==
  ASSUME NEW S, NEW a \in Seq(S), NEW b \in Seq(S), NEW c, c = a \o b
  PROVE  /\ c \in Seq(S) /\ Len(c) = Len(a) + Len(b)
         /\ \A j \in 1..Len(a) : c[j] = a[j]
         /\ \A j \in (Len(a) + 1)..(Len(a) + Len(b)) : c[j] = b[j - Len(a)]
OBVIOUS

\* A sequence without the element at place k
LEMMA WithoutOne ==
  ASSUME NEW S, NEW q \in Seq(S), NEW k \in 1..Len(q)
  PROVE  /\ RemoveAt(q, k) \in Seq(S) /\ Len(RemoveAt(q, k)) = Len(q) - 1
         /\ \A j \in 1..(Len(q) - 1) : RemoveAt(q, k)[j] = IF j < k THEN q[j] ELSE q[j + 1]
<1> DEFINE u == SubSeq(q, 1, k - 1)
           v == SubSeq(q, k + 1, Len(q))
<1>1. Len(q) \in Nat /\ k \in Nat /\ k >= 1 /\ k <= Len(q)
  OBVIOUS
<1>2. u \in Seq(S) /\ Len(u) = k - 1 /\ \A j \in 1..(k - 1) : u[j] = q[j]
  BY <1>1
<1>3. /\ v \in Seq(S) /\ Len(v) = Len(q) - k
      /\ \A j \in 1..(Len(q) - k) : v[j] = q[k + j]
  BY <1>1
<1>4. RemoveAt(q, k) = u \o v
  BY DEF RemoveAt
<1> HIDE DEF u, v
<1>5. /\ u \o v \in Seq(S) /\ Len(u \o v) = Len(u) + Len(v)
      /\ \A i \in 1..(Len(u) + Len(v)) :
           (u \o v)[i] = IF i <= Len(u) THEN u[i] ELSE v[i - Len(u)]
  <2>1. u \in Seq(S) /\ v \in Seq(S)
    BY <1>2, <1>3
  <2>2. QED
    BY <2>1, ConcatProperties
<1>6. ASSUME NEW j \in 1..(Len(q) - 1) PROVE (u \o v)[j] = IF j < k THEN q[j] ELSE q[j + 1]
  <2>0. j \in Int /\ j \in 1..(Len(u) + Len(v))
    BY <1>1, <1>2, <1>3
  <2>1. CASE j < k
    <3>1. j <= Len(u) /\ j \in 1..(k - 1)
      BY <1>1, <1>2, <2>0, <2>1
    <3>2. QED
      BY <1>2, <1>5, <2>0, <2>1, <3>1
  <2>2. CASE j >= k
    <3>1. (u \o v)[j] = v[j - (k - 1)]
      BY <1>1, <1>2, <1>5, <2>0, <2>2
    <3>2. j - (k - 1) \in 1..(Len(q) - k) /\ k + (j - (k - 1)) = j + 1
      BY <1>1, <2>2
    <3>3. v[j - (k - 1)] = q[j + 1]
      BY <1>3, <3>2
    <3>4. QED
      BY <1>1, <2>2, <3>1, <3>3
  <2>3. QED
    BY <1>1, <2>0, <2>1, <2>2
<1>7. QED
  BY <1>1, <1>2, <1>3, <1>4, <1>5, <1>6

\* RemoveFirst() of something that is there is RemoveAt() of one of its places.
LEMMA FirstRemoved ==
  ASSUME NEW S, NEW q \in Seq(S), NEW e, NEW n \in 1..Len(q), q[n] = e
  PROVE  \E k \in 1..Len(q) : q[k] = e /\ RemoveFirst(q, e) = RemoveAt(q, k)
<1> DEFINE Places == {i \in 1..Len(q) : q[i] = e}
<1>1. Places \in SUBSET Nat /\ Places # {}
  OBVIOUS
<1>2. \E m \in Places : \A i \in Places : m <= i
  BY <1>1, LeastOf
<1>3. Min(Places) \in Places
  BY <1>2 DEF Min
<1>4. RemoveFirst(q, e) = RemoveAt(q, SelectInSeq(q, LAMBDA v : v = e))
  BY DEF RemoveFirst
<1>5. SelectInSeq(q, LAMBDA v : v = e) = Min(Places)
  BY <1>1 DEF SelectInSeq
<1>6. QED
  BY <1>3, <1>4, <1>5

-----------------------------------------------------------------------------
(* RpcRequests *)

RpcCallType ==
  [kind : {"none", "rpc", "get", "post"},
   phase : {"idle", "sent", "waiting", "succeeded", "failed"},
   server : Servers, tries : 0..maxRetries, wait : 0..maxDelay,
   sent : Nat, asked : SUBSET Servers]

\* What was sent is the tries and one, except while a delay is running.
CallSound(r) ==
  /\ r \in RpcCallType
  /\ r.sent <= r.tries + 1 /\ r.asked \subseteq {r.server}
  /\ r.phase = "sent" => r.sent = r.tries + 1
  /\ r.phase = "waiting" => r.sent = r.tries
  /\ r.kind = "post" => r.tries = 0 /\ r.phase # "waiting"

RequestIInv ==
  /\ currentRpc \in Servers /\ requests \in [Requesters -> RpcCallType]
  /\ \A c \in Requesters : CallSound(requests[c])

LEMMA NoCallSound == CallSound(NoCall)
<1>1. 0 \in Servers /\ 0 \in 0..maxRetries /\ 0 \in 0..maxDelay
  BY RequestAssumption DEF RequestAssumption, Servers
<1>2. QED
  BY <1>1 DEF NoCall, CallSound, RpcCallType

\* One call changes, to what is sound.
LEMMA OneCallChanges ==
  ASSUME RequestIInv, NEW c \in Requesters, NEW r, CallSound(r),
         currentRpc' \in Servers, requests' = [requests EXCEPT ![c] = r]
  PROVE  RequestIInv'
<1>1. r \in RpcCallType
  BY DEF CallSound
<1>2. requests' \in [Requesters -> RpcCallType]
  BY <1>1 DEF RequestIInv
<1>3. ASSUME NEW d \in Requesters PROVE CallSound(requests'[d])
  <2>1. requests'[d] = IF d = c THEN r ELSE requests[d]
    BY DEF RequestIInv
  <2>2. QED
    BY <2>1 DEF RequestIInv
<1>4. QED
  BY <1>2, <1>3 DEF RequestIInv, CallSound, RpcCallType, Servers

\* A request is sent, the first of a call or one more after a delay.
LEMMA SendingSound ==
  ASSUME NEW r \in RpcCallType, NEW server \in Servers, r.sent = r.tries,
         r.asked \subseteq {server}, r.kind = "post" => r.tries = 0
  PROVE  CallSound(Sending(r, server))
<1>1. Sending(r, server) =
        [kind |-> r.kind, phase |-> "sent", server |-> server, tries |-> r.tries,
         wait |-> r.wait, sent |-> r.sent + 1, asked |-> r.asked \cup {server}]
  <2>1. PICK servers, sent : servers = r.asked \cup {server} /\ sent = r.sent + 1
    OBVIOUS
  <2>2. Sending(r, server) =
          [r EXCEPT !.phase = "sent", !.server = server, !.sent = sent, !.asked = servers]
    BY <2>1 DEF Sending, RpcCallType
  <2>3. QED
    BY <2>1, <2>2 DEF RpcCallType
<1>2. r.tries \in Nat
  BY DEF RpcCallType
<1>3. QED
  BY <1>1, <1>2 DEF CallSound, RpcCallType

LEMMA CallsBegin ==
  ASSUME RequestIInv, NEW c \in Requesters,
         CallRpc(c) \/ \E kind \in {"get", "post"} : CallHttp(c, kind)
  PROVE  RequestIInv'
<1>1. PICK kind \in {"rpc", "get", "post"}, server \in Servers :
        requests' = [requests EXCEPT ![c] = Sending([NoCall EXCEPT !.kind = kind], server)]
  <2>1. 0 \in Servers /\ currentRpc \in Servers
    BY RequestAssumption DEF RequestAssumption, Servers, RequestIInv
  <2>2. QED
    BY <2>1 DEF CallRpc, CallHttp
<1>2. PICK r : r = [NoCall EXCEPT !.kind = kind]
  OBVIOUS
<1>3. r \in RpcCallType /\ r.sent = 0 /\ r.tries = 0 /\ r.asked = {}
  BY <1>2, NoCallSound DEF CallSound, NoCall, RpcCallType
<1>4. CallSound(Sending(r, server))
  BY <1>3, SendingSound
<1>5. currentRpc' = currentRpc
  BY DEF CallRpc, CallHttp
<1>6. requests' = [requests EXCEPT ![c] = Sending(r, server)]
  BY <1>1, <1>2
<1> HIDE DEF RequestIInv
<1>7. currentRpc' \in Servers
  BY <1>5 DEF RequestIInv
<1>8. QED
  BY <1>4, <1>6, <1>7, OneCallChanges

\* The answer ends the call: it succeeds or fails.
LEMMA CallsEnd ==
  ASSUME RequestIInv, NEW c \in Requesters,
         \/ Succeed(c)
         \/ \E failure \in {"429", "retryable", "other"} :
              FailOver(c, failure) \/ GiveUp(c, failure)
  PROVE  RequestIInv'
<1>1. PICK phase \in {"succeeded", "failed"} :
        requests' = [requests EXCEPT ![c].phase = phase]
  BY DEF Succeed, FailOver, GiveUp
<1>2. requests[c] \in RpcCallType /\ CallSound(requests[c]) /\ currentRpc \in Servers
  BY DEF RequestIInv
<1>3. PICK r : r = [requests[c] EXCEPT !.phase = phase]
  OBVIOUS
<1>4. CallSound(r)
  BY <1>2, <1>3 DEF CallSound, RpcCallType
<1>5. requests' = [requests EXCEPT ![c] = r]
  BY <1>1, <1>3
<1>6. currentRpc' \in Servers
  BY <1>2, RequestAssumption DEF Succeed, FailOver, GiveUp, Servers, RequestAssumption
<1>7. QED
  BY <1>4, <1>5, <1>6, OneCallChanges

\* A delay is within maxDelay, with its jitter or asked for by the server.
LEMMA DelaysBounded ==
  ASSUME NEW try \in 1..maxRetries, NEW failure, NEW retryAfter \in RetryAfters \cup {Unhurried},
         NEW d \in Delays(try, failure, retryAfter)
  PROVE  d \in 0..maxDelay
<1>1. maxDelay \in Nat /\ maxRetries \in Nat /\ RetryAfters \subseteq Nat
  BY RequestAssumption DEF RequestAssumption
<1>2. CASE failure = "429" /\ retryAfter # Unhurried
  BY <1>1, <1>2 DEF Delays, Lesser, Unhurried
<1>3. CASE ~(failure = "429" /\ retryAfter # Unhurried)
  <2>1. PICK jitter \in -1..1 : d = Lesser((10 + jitter) * 2 ^ (try - 1), maxDelay)
    BY <1>3 DEF Delays
  <2>2. try - 1 \in 0..maxRetries
    BY <1>1
  <2>3. 2 ^ (try - 1) \in Nat
    BY <2>2, RequestAssumption DEF RequestAssumption
  <2> DEFINE p == 2 ^ (try - 1)
             x == 10 + jitter
  <2>4. p \in Nat /\ x \in Nat
    BY <2>3
  <2>5. d = Lesser(x * p, maxDelay)
    BY <2>1
  <2> HIDE DEF p, x
  <2>6. x * p \in Nat
    BY <2>4
  <2>7. QED
    BY <1>1, <2>5, <2>6 DEF Lesser
<1>4. QED
  BY <1>2, <1>3

LEMMA FailAndWaitKeeps ==
  ASSUME RequestIInv, NEW c \in Requesters, NEW failure,
         NEW retryAfter \in RetryAfters \cup {Unhurried}, FailAndWait(c, failure, retryAfter)
  PROVE  RequestIInv'
<1>1. /\ requests[c] \in RpcCallType /\ CallSound(requests[c]) /\ currentRpc \in Servers
      /\ requests[c].phase = "sent" /\ requests[c].tries < maxRetries
      /\ requests[c].kind # "post" /\ currentRpc' = currentRpc
  BY DEF RequestIInv, FailAndWait, Repeats
<1>2. PICK d \in Delays(requests[c].tries + 1, failure, retryAfter) :
        requests' = [requests EXCEPT ![c].phase = "waiting", ![c].wait = d, ![c].tries = @ + 1]
  BY DEF FailAndWait
<1>3. requests[c].tries \in Nat /\ maxRetries \in Nat /\ requests[c].tries + 1 \in 1..maxRetries
  BY <1>1, RequestAssumption DEF RpcCallType, RequestAssumption
<1>4. d \in 0..maxDelay
  BY <1>2, <1>3, DelaysBounded
<1>5. PICK q : q = requests[c]
  OBVIOUS
<1>6. PICK r : r = [q EXCEPT !.phase = "waiting", !.wait = d, !.tries = q.tries + 1]
  OBVIOUS
<1>7. requests' = [requests EXCEPT ![c] = r]
  BY <1>1, <1>2, <1>5, <1>6 DEF RequestIInv, RpcCallType
<1>8. r = [kind |-> q.kind, phase |-> "waiting", server |-> q.server, tries |-> q.tries + 1,
           wait |-> d, sent |-> q.sent, asked |-> q.asked]
  BY <1>1, <1>5, <1>6 DEF RpcCallType
<1>9. CallSound(r)
  BY <1>1, <1>3, <1>4, <1>5, <1>8 DEF CallSound, RpcCallType
<1>10. QED
  BY <1>1, <1>7, <1>9, OneCallChanges

LEMMA RepeatKeeps ==
  ASSUME RequestIInv, NEW c \in Requesters, Repeat(c) \/ Return(c)
  PROVE  RequestIInv'
<1>1. /\ requests[c] \in RpcCallType /\ CallSound(requests[c])
      /\ currentRpc' = currentRpc /\ currentRpc' \in Servers
  BY DEF RequestIInv, Repeat, Return
<1>2. CASE Repeat(c)
  <2>1. /\ requests[c].server \in Servers /\ requests[c].sent = requests[c].tries
        /\ requests[c].asked \subseteq {requests[c].server}
        /\ requests[c].kind = "post" => requests[c].tries = 0
    BY <1>1, <1>2 DEF Repeat, CallSound, RpcCallType
  <2>2. CallSound(Sending(requests[c], requests[c].server))
    BY <1>1, <2>1, SendingSound
  <2>3. QED
    BY <1>1, <1>2, <2>2, OneCallChanges DEF Repeat
<1>3. CASE Return(c)
  BY <1>1, <1>3, NoCallSound, OneCallChanges DEF Return
<1>4. QED
  BY <1>2, <1>3

LEMMA RequestInvInit == RequestInit => RequestIInv
<1> SUFFICES ASSUME RequestInit PROVE RequestIInv
  OBVIOUS
<1>1. 0 \in Servers
  BY RequestAssumption DEF RequestAssumption, Servers
<1>2. NoCall \in RpcCallType
  BY NoCallSound DEF CallSound
<1>3. QED
  BY <1>1, <1>2, NoCallSound DEF RequestInit, RequestIInv

LEMMA RequestInvStep == RequestIInv /\ [RequestNext]_requestVars => RequestIInv'
<1> SUFFICES ASSUME RequestIInv, [RequestNext]_requestVars PROVE RequestIInv'
  OBVIOUS
<1>1. CASE UNCHANGED requestVars
  <2>1. currentRpc' = currentRpc /\ requests' = requests
    BY <1>1 DEF requestVars
  <2>2. QED
    BY <2>1 DEF RequestIInv, CallSound, RpcCallType, Servers
<1>2. CASE RequestNext
  <2>1. PICK c \in Requesters :
          \/ CallRpc(c) \/ Succeed(c) \/ Repeat(c) \/ Return(c)
          \/ \E kind \in {"get", "post"} : CallHttp(c, kind)
          \/ \E failure \in {"429", "retryable", "other"} :
               \/ FailOver(c, failure) \/ GiveUp(c, failure)
               \/ \E retryAfter \in RetryAfters \cup {Unhurried} :
                    FailAndWait(c, failure, retryAfter)
    BY <1>2 DEF RequestNext
  <2>2. CASE CallRpc(c) \/ \E kind \in {"get", "post"} : CallHttp(c, kind)
    BY <2>2, CallsBegin
  <2>3. CASE \/ Succeed(c)
             \/ \E failure \in {"429", "retryable", "other"} :
                  FailOver(c, failure) \/ GiveUp(c, failure)
    BY <2>3, CallsEnd
  <2>4. CASE Repeat(c) \/ Return(c)
    BY <2>4, RepeatKeeps
  <2>5. CASE \E failure \in {"429", "retryable", "other"},
                retryAfter \in RetryAfters \cup {Unhurried} : FailAndWait(c, failure, retryAfter)
    BY <2>5, FailAndWaitKeeps
  <2>6. QED
    BY <2>1, <2>2, <2>3, <2>4, <2>5
<1>3. QED
  BY <1>1, <1>2

LEMMA RequestInvSays == RequestIInv => RequestTypeOK /\ RequestsAreRepeatedInBounds
<1> SUFFICES ASSUME RequestIInv PROVE RequestTypeOK /\ RequestsAreRepeatedInBounds
  OBVIOUS
<1>1. maxRetries \in Nat
  BY RequestAssumption DEF RequestAssumption
<1>2. RequestTypeOK
  BY DEF RequestIInv, RpcCallType, RequestTypeOK
<1>3. RequestsAreRepeatedInBounds
  BY <1>1 DEF RequestIInv, CallSound, RpcCallType, RequestsAreRepeatedInBounds
<1>4. QED
  BY <1>2, <1>3

\* A call is repeated within its retries, by the server it asked first, and the
\* current server is one of the client's (packages/core/src/client/stellarClient.ts:376,
\* packages/core/src/utils/httpInterceptor.ts:104).
THEOREM RequestsInBounds == RequestSpec => [](RequestTypeOK /\ RequestsAreRepeatedInBounds)
<1>1. RequestInit => RequestIInv
  BY RequestInvInit
<1>2. RequestIInv /\ [RequestNext]_requestVars => RequestIInv'
  BY RequestInvStep
<1>3. RequestIInv => RequestTypeOK /\ RequestsAreRepeatedInBounds
  BY RequestInvSays
<1>4. QED
  BY <1>1, <1>2, <1>3, PTL DEF RequestSpec

-----------------------------------------------------------------------------
(* ClientRequests *)

ErrorTypes ==
  {"none", "Error", "RpcError", "AuthenticationError", "RateLimitError", "ValidationError",
   "NetworkError", "AxionveraError", "TransactionError", "InsufficientFundsError",
   "InvalidSignatureError", "TimeoutError", "AxionveraRPCError", "SimulationFailedError",
   "RPCValidationMismatchError", "InvalidXDRError"}
ErrorRecord ==
  [sdk : BOOLEAN, type : ErrorTypes, status : Statuses \cup {NoStatus}, message : Messages]

\* The type of an error fits its status.
ErrorFits(e) ==
  /\ e \in ErrorRecord
  /\ e.type = "RateLimitError" => e.status = 429
  /\ e.type = "AuthenticationError" => e.status \in {401, 403}
  /\ e.type = "NetworkError" => e.status \notin 0..499
SdkThrown(e) == ErrorFits(e) /\ e.sdk

CallRecord ==
  [operation : Operations \cup {"none"}, patient : BOOLEAN,
   stage : {"idle", "signing", "sent", "waiting", "waitingOutside", "over"},
   tries : Nat, outerTries : Nat, sent : Nat, error : ErrorRecord, own : BOOLEAN,
   rawRepeated : BOOLEAN]

\* The operations whose errors have no status but that of an SDK error
Silent == {"getNetwork", "simulate", "prepare", "send"}

BeingSent(c) == c.operation \in Counted /\ c.stage \in {"signing", "sent", "waiting"}

\* How often an operation of each kind has sent its request, and may do so.
SentSound(c) ==
  /\ c.outerTries <= (IF c.patient THEN MaxRepeats + 1 ELSE 1)
  /\ c.stage # "idle" => c.outerTries >= 1
  /\ c.stage = "waitingOutside" => c.patient /\ c.outerTries <= MaxRepeats
  /\ IF c.operation \in Repeating
     THEN /\ c.tries <= MaxRepeats + 1
          /\ c.stage = "waiting" => c.tries <= MaxRepeats
          /\ c.stage # "signing"
          /\ c.stage # "idle" => c.sent <= (c.outerTries - 1) * (MaxRepeats + 1) + c.tries
     ELSE /\ c.stage # "waiting" /\ c.sent <= c.outerTries
          /\ c.stage = "signing" => c.sent <= c.outerTries - 1

OperationSound(c) ==
  /\ c \in CallRecord /\ SentSound(c)
  /\ c.stage = "idle" <=> c.operation = "none"
  /\ c.stage = "idle" => c.sent = 0
  /\ c.operation \in Silent => ~c.rawRepeated /\ (c.stage = "waitingOutside" => c.own)
  /\ c.stage = "over" => SdkThrown(c.error)

ClientIInv ==
  /\ options \in [retries : BOOLEAN, wallet : BOOLEAN] /\ calls \in 0..MaxCalls
  /\ counted \in [started : Nat, succeeded : Nat, failed : Nat]
  /\ counted.started = counted.succeeded + counted.failed + (IF BeingSent(call) THEN 1 ELSE 0)
  /\ OperationSound(call)

LEMMA ClientNumbers ==
  /\ MaxRepeats \in Nat /\ MaxCalls \in Nat /\ RetryableStatuses \subseteq Nat
  /\ Statuses \subseteq Nat /\ NoStatus \notin RetryableStatuses /\ NoStatus \notin Statuses
BY ClientRequestsAssumption DEF ClientRequestsAssumption, NoStatus

\* An error of the SDK without a status, of a type that asks for none
LEMMA SdkErrorThrown ==
  ASSUME NEW type \in ErrorTypes \ {"RateLimitError", "AuthenticationError"}
  PROVE  SdkThrown(SdkError(type, NoStatus)) /\ SdkError(type, NoStatus).status = NoStatus
BY DEF SdkThrown, ErrorFits, ErrorRecord, SdkError, NoStatus, Messages, ErrorTypes

\* toAxionveraError() gives an error of the SDK the type of its status.
LEMMA ToAxionveraFits ==
  ASSUME NEW e \in ErrorRecord, e.sdk => ErrorFits(e)
  PROVE  SdkThrown(ToAxionveraError(e))
<1>1. CASE e.sdk
  BY <1>1 DEF ToAxionveraError, SdkThrown
<1>2. CASE ~e.sdk
  <2>1. e.status \in Statuses \cup {NoStatus} /\ e.status \in Int
    <3>1. e.status \in Statuses \cup {NoStatus}
      BY DEF ErrorRecord
    <3>2. Statuses \subseteq Nat
      BY ClientNumbers
    <3>3. Statuses \cup {NoStatus} \subseteq Int
      BY <3>2 DEF NoStatus
    <3>4. QED
      BY <3>1, <3>3
  <2>2. PICK type \in ErrorTypes :
          /\ ToAxionveraError(e) = SdkError(type, e.status)
          /\ type = "RateLimitError" => e.status = 429
          /\ type = "AuthenticationError" => e.status \in {401, 403}
          /\ type = "NetworkError" => e.status \notin 0..499
    <3>1. CASE e.status \in {401, 403}
      <4>1. ToAxionveraError(e) = SdkError("AuthenticationError", e.status)
        BY <1>2, <3>1 DEF ToAxionveraError, NoStatus
      <4>2. QED
        BY <3>1, <4>1 DEF ErrorTypes
    <3>2. CASE e.status = 429
      <4>1. ToAxionveraError(e) = SdkError("RateLimitError", e.status)
        BY <1>2, <3>2 DEF ToAxionveraError, NoStatus
      <4>2. QED
        BY <3>2, <4>1 DEF ErrorTypes
    <3>3. CASE e.status \in (400..499) \ {401, 403, 429}
      <4>1. ToAxionveraError(e) = SdkError("ValidationError", e.status)
        BY <1>2, <3>3 DEF ToAxionveraError, NoStatus
      <4>2. QED
        BY <4>1 DEF ErrorTypes
    <3>4. CASE e.status = NoStatus \/ e.status >= 500
      <4>1. ToAxionveraError(e) = SdkError("NetworkError", e.status)
        BY <1>2, <2>1, <3>4 DEF ToAxionveraError, NoStatus
      <4>2. QED
        BY <2>1, <3>4, <4>1 DEF ErrorTypes, NoStatus
    <3>5. CASE ~(e.status = NoStatus \/ e.status >= 500) /\ e.status \notin 400..499
      <4>1. ToAxionveraError(e) = SdkError("AxionveraError", e.status)
        BY <1>2, <2>1, <3>5 DEF ToAxionveraError
      <4>2. QED
        BY <4>1 DEF ErrorTypes
    <3>6. QED
      BY <2>1, <3>1, <3>2, <3>3, <3>4, <3>5
  <2>3. QED
    BY <1>2, <2>1, <2>2 DEF SdkThrown, ErrorFits, ErrorRecord, SdkError, Messages
<1>3. QED
  BY <1>1, <1>2

\* normalizeTransactionError() keeps errors of the SDK, and gives others no status.
LEMMA TransactionErrorFits ==
  ASSUME NEW e \in ErrorRecord, e.sdk => ErrorFits(e)
  PROVE  /\ SdkThrown(NormalizeTransactionError(e))
         /\ ~e.sdk => NormalizeTransactionError(e).status = NoStatus
<1>1. CASE e.sdk
  BY <1>1 DEF NormalizeTransactionError, SdkThrown
<1>2. CASE ~e.sdk
  <2>1. PICK type \in ErrorTypes \ {"RateLimitError", "AuthenticationError"} :
          NormalizeTransactionError(e) = SdkError(type, NoStatus)
    BY <1>2 DEF NormalizeTransactionError, ErrorTypes
  <2>2. QED
    BY <1>2, <2>1, SdkErrorThrown
<1>3. QED
  BY <1>1, <1>2

\* What an operation throws is of the SDK; an operation that drops the status keeps
\* it only of an error that was of the SDK before.
LEMMA ErrorThrownFits ==
  ASSUME NEW operation \in Operations, NEW e \in ErrorRecord, e.sdk => ErrorFits(e)
  PROVE  /\ SdkThrown(ErrorThrown(operation, e))
         /\ operation \in Silent /\ ~e.sdk => ErrorThrown(operation, e).status = NoStatus
<1>1. CASE operation \in {"getHealth", "getAccount", "getTransaction", "prepareFeeBump"}
  <2>1. ErrorThrown(operation, e) = ToAxionveraError(e)
    BY <1>1 DEF ErrorThrown
  <2>2. operation \notin Silent
    BY <1>1 DEF Silent
  <2>3. QED
    BY <2>1, <2>2, ToAxionveraFits
<1>2. CASE operation = "getNetwork"
  <2>1. ErrorThrown(operation, e) = SdkError("AxionveraRPCError", NoStatus)
    BY <1>2 DEF ErrorThrown
  <2>2. QED
    BY <2>1, SdkErrorThrown DEF ErrorTypes
<1>3. CASE operation \in {"simulate", "prepare"}
  <2>1. ErrorThrown(operation, e) = IF e.sdk THEN e ELSE SdkError("SimulationFailedError", NoStatus)
    BY <1>3 DEF ErrorThrown
  <2>2. QED
    BY <2>1, SdkErrorThrown DEF ErrorTypes, SdkThrown
<1>4. CASE operation = "send"
  <2>1. ErrorThrown(operation, e) = NormalizeTransactionError(e)
    BY <1>4 DEF ErrorThrown
  <2>2. QED
    BY <2>1, TransactionErrorFits
<1>5. QED
  BY <1>1, <1>2, <1>3, <1>4 DEF Operations, Repeating, Once

-----------------------------------------------------------------------------
\* What holds of an operation in flight holds when it has thrown.
LEMMA OperationThrowsKeeps ==
  ASSUME ClientIInv, NEW c, OperationSound(c), c.stage \in {"signing", "sent"},
         c.operation = call.operation, c.stage = call.stage,
         NEW e, SdkThrown(e),
         c.operation \in Silent /\ ~c.own => e.status = NoStatus,
         OperationThrows(c, e)
  PROVE  ClientIInv'
<1>1. /\ options' = options /\ calls' = calls /\ c \in CallRecord
      /\ options \in [retries : BOOLEAN, wallet : BOOLEAN] /\ calls \in 0..MaxCalls
      /\ counted \in [started : Nat, succeeded : Nat, failed : Nat]
  BY DEF ClientIInv, OperationThrows, OperationSound
<1>2. PICK stage, error :
        /\ stage = IF c.patient /\ WorthRepeating(e.status, c.outerTries)
                   THEN "waitingOutside" ELSE "over"
        /\ error = IF c.patient THEN ToAxionveraError(e) ELSE e
  OBVIOUS
<1>3. call' = [c EXCEPT !.stage = stage, !.error = error]
  BY <1>2 DEF OperationThrows
<1>4. e \in ErrorRecord /\ SdkThrown(error) /\ error \in ErrorRecord
  BY <1>2, ToAxionveraFits DEF SdkThrown, ErrorFits
<1>5. stage \in {"waitingOutside", "over"}
  BY <1>2
<1>6. call' = [operation |-> c.operation, patient |-> c.patient, stage |-> stage,
               tries |-> c.tries, outerTries |-> c.outerTries, sent |-> c.sent,
               error |-> error, own |-> c.own, rawRepeated |-> c.rawRepeated]
  BY <1>1, <1>3 DEF CallRecord
<1>7. call' \in CallRecord
  BY <1>1, <1>4, <1>5, <1>6 DEF CallRecord
<1>8. stage = "waitingOutside" =>
        c.patient /\ c.outerTries <= MaxRepeats /\ e.status \in RetryableStatuses
  BY <1>2 DEF WorthRepeating
<1>9. SentSound(call')
  <2>1. /\ c.outerTries \in Nat /\ c.sent \in Nat /\ c.tries \in Nat /\ MaxRepeats \in Nat
        /\ (c.outerTries - 1) * (MaxRepeats + 1) \in Int
    BY <1>1, ClientNumbers DEF CallRecord
  <2>2. SentSound(c) /\ c.stage # "idle"
    BY DEF OperationSound
  <2>3. QED
    BY <1>5, <1>6, <1>8, <2>1, <2>2 DEF SentSound
<1>10. c.operation \in Operations
  BY <1>1 DEF OperationSound, CallRecord
<1>11. "none" \notin Operations
  BY DEF Operations, Repeating, Once
<1>12. c.operation \in Silent => ~c.rawRepeated /\ (stage = "waitingOutside" => c.own)
  <2>1. e.status = NoStatus => stage # "waitingOutside"
    BY <1>8, ClientNumbers
  <2>2. QED
    BY <2>1 DEF OperationSound
<1>13. OperationSound(call')
  BY <1>4, <1>5, <1>6, <1>7, <1>9, <1>10, <1>11, <1>12 DEF OperationSound
<1>14. /\ counted' \in [started : Nat, succeeded : Nat, failed : Nat]
       /\ counted'.started = counted'.succeeded + counted'.failed
                             + (IF BeingSent(call') THEN 1 ELSE 0)
  <2>1. ~BeingSent(call') /\ (BeingSent(call) <=> c.operation \in Counted)
    BY <1>5, <1>6 DEF BeingSent
  <2>2. counted' = IF c.operation \in Counted THEN [counted EXCEPT !.failed = @ + 1] ELSE counted
    BY DEF OperationThrows
  <2>3. counted.started = counted.succeeded + counted.failed + (IF BeingSent(call) THEN 1 ELSE 0)
    BY DEF ClientIInv
  <2>4. QED
    BY <1>1, <2>1, <2>2, <2>3
<1>15. QED
  BY <1>1, <1>13, <1>14 DEF ClientIInv

\* An attempt of an operation is sound if there is a try left for it.
LEMMA AttemptSound ==
  ASSUME NEW c \in CallRecord, c.operation \in Operations,
         c.outerTries < (IF c.patient THEN MaxRepeats + 1 ELSE 1),
         c.sent <= c.outerTries * (IF c.operation \in Repeating THEN MaxRepeats + 1 ELSE 1),
         c.operation \in Silent => ~c.rawRepeated
  PROVE  /\ OperationSound(Attempt(c)) /\ Attempt(c).operation = c.operation
         /\ Attempt(c).stage \in {"signing", "sent"}
<1>1. /\ c.outerTries \in Nat /\ c.sent \in Nat /\ MaxRepeats \in Nat
      /\ "send" \notin Repeating /\ "none" \notin Operations
  BY ClientNumbers DEF CallRecord, Operations, Repeating, Once
<1>2. PICK stage \in {"signing", "sent"}, tries \in {0, 1}, sent \in Nat, outerTries \in Nat :
        /\ Attempt(c) = [c EXCEPT !.stage = stage, !.tries = tries, !.outerTries = outerTries,
                                  !.sent = sent]
        /\ outerTries = c.outerTries + 1 /\ sent = c.sent + tries
        /\ tries = (IF stage = "signing" THEN 0 ELSE 1)
        /\ stage = "signing" => c.operation = "send"
  <2>1. CASE c.operation = "send" /\ options.wallet
    <3>1. Attempt(c) = [c EXCEPT !.stage = "signing", !.tries = 0,
                                !.outerTries = c.outerTries + 1, !.sent = c.sent]
      BY <2>1 DEF Attempt, CallRecord
    <3>2. c.sent = c.sent + 0 /\ c.outerTries + 1 \in Nat
      BY <1>1
    <3>3. QED
      BY <1>1, <2>1, <3>1, <3>2
  <2>2. CASE ~(c.operation = "send" /\ options.wallet)
    <3>1. Attempt(c) = [c EXCEPT !.stage = "sent", !.tries = 1,
                                !.outerTries = c.outerTries + 1, !.sent = c.sent + 1]
      BY <2>2 DEF Attempt, CallRecord
    <3>2. c.sent + 1 \in Nat /\ c.outerTries + 1 \in Nat
      BY <1>1
    <3>3. QED
      BY <1>1, <3>1, <3>2
  <2>3. QED
    BY <2>1, <2>2
<1>3. PICK a : a = Attempt(c)
  OBVIOUS
<1>4. a = [operation |-> c.operation, patient |-> c.patient, stage |-> stage, tries |-> tries,
           outerTries |-> outerTries, sent |-> sent, error |-> c.error, own |-> c.own,
           rawRepeated |-> c.rawRepeated]
  BY <1>2, <1>3 DEF CallRecord
<1>5. a \in CallRecord
  BY <1>2, <1>4 DEF CallRecord
<1>6. SentSound(a)
  <2>1. CASE c.operation \in Repeating
    <3>1. stage = "sent" /\ tries = 1
      BY <1>1, <1>2, <2>1
    <3>2. c.sent <= (outerTries - 1) * (MaxRepeats + 1)
      BY <1>1, <1>2, <2>1
    <3>3. (outerTries - 1) * (MaxRepeats + 1) \in Int
      BY <1>1, <1>2
    <3>4. sent <= (outerTries - 1) * (MaxRepeats + 1) + tries /\ tries <= MaxRepeats + 1
      BY <1>1, <1>2, <3>1, <3>2, <3>3
    <3>5. outerTries >= 1 /\ outerTries <= (IF c.patient THEN MaxRepeats + 1 ELSE 1)
      BY <1>1, <1>2
    <3>6. QED
      BY <1>4, <2>1, <3>1, <3>4, <3>5 DEF SentSound
  <2>2. CASE c.operation \notin Repeating
    <3>1. c.sent <= c.outerTries
      BY <1>1, <2>2
    <3>2. QED
      BY <1>1, <1>2, <1>4, <2>2, <3>1 DEF SentSound
  <2>3. QED
    BY <2>1, <2>2
<1>7. OperationSound(a)
  <2>1. a.stage = stage /\ a.operation = c.operation /\ a.rawRepeated = c.rawRepeated
    BY <1>4
  <2>2. stage # "idle" /\ stage # "over" /\ stage # "waitingOutside" /\ a.operation # "none"
    BY <1>1, <1>2, <2>1
  <2>3. QED
    BY <1>5, <1>6, <2>1, <2>2 DEF OperationSound
<1>8. a.operation = c.operation /\ a.stage \in {"signing", "sent"}
  BY <1>2, <1>4
<1>9. QED
  BY <1>3, <1>7, <1>8

\* An operation, or another round of it, is counted as started.
LEMMA AttemptKeeps ==
  ASSUME ClientIInv, NEW c \in CallRecord, c.operation \in Operations,
         OperationSound(Attempt(c)), Attempt(c).operation = c.operation,
         Attempt(c).stage \in {"signing", "sent"}, call.stage \notin {"signing", "sent", "waiting"},
         call' = Attempt(c), CountStart(c.operation), options' = options, calls' \in 0..MaxCalls
  PROVE  ClientIInv'
<1>1. /\ counted \in [started : Nat, succeeded : Nat, failed : Nat]
      /\ counted.started = counted.succeeded + counted.failed
  BY DEF ClientIInv, BeingSent
<1>2. BeingSent(call') <=> c.operation \in Counted
  BY DEF BeingSent
<1>3. /\ counted' \in [started : Nat, succeeded : Nat, failed : Nat]
      /\ counted'.started = counted'.succeeded + counted'.failed
                            + (IF BeingSent(call') THEN 1 ELSE 0)
  BY <1>1, <1>2 DEF CountStart
<1>4. QED
  BY <1>3 DEF ClientIInv

LEMMA NoOperationSound == NoOperation \in CallRecord /\ OperationSound(NoOperation)
<1>1. NoError \in ErrorRecord
  BY DEF NoError, SdkError, ErrorRecord, ErrorTypes, Messages
<1>2. "none" \notin Operations /\ "none" \notin Silent /\ "none" \notin Repeating
  BY DEF Operations, Repeating, Once, Silent
<1>3. NoOperation \in CallRecord
  BY <1>1 DEF NoOperation, CallRecord
<1>4. SentSound(NoOperation)
  BY <1>2, ClientNumbers DEF NoOperation, SentSound
<1>5. QED
  BY <1>2, <1>3, <1>4 DEF OperationSound, NoOperation

LEMMA CallOperationKeeps ==
  ASSUME ClientIInv, NEW operation \in Operations, NEW patient \in BOOLEAN,
         CallOperation(operation, patient)
  PROVE  ClientIInv'
<1>1. PICK c : c = [NoOperation EXCEPT !.operation = operation, !.patient = patient]
  OBVIOUS
<1>2. /\ c \in CallRecord /\ c.operation = operation /\ c.patient = patient
      /\ c.outerTries = 0 /\ c.sent = 0 /\ ~c.rawRepeated
  BY <1>1, NoOperationSound DEF NoOperation, CallRecord
<1>3. /\ OperationSound(Attempt(c)) /\ Attempt(c).operation = operation
      /\ Attempt(c).stage \in {"signing", "sent"}
  <2>1. c.outerTries < (IF c.patient THEN MaxRepeats + 1 ELSE 1)
    BY <1>2, ClientNumbers
  <2>2. c.sent <= c.outerTries * (IF c.operation \in Repeating THEN MaxRepeats + 1 ELSE 1)
    BY <1>2, ClientNumbers
  <2>3. QED
    BY <1>2, <2>1, <2>2, AttemptSound
<1>4. /\ call' = Attempt(c) /\ CountStart(c.operation) /\ options' = options
      /\ call.stage \notin {"signing", "sent", "waiting"} /\ calls' \in 0..MaxCalls
  BY <1>1, <1>2, ClientNumbers DEF CallOperation, ClientIInv
<1>5. QED
  BY <1>2, <1>3, <1>4, AttemptKeeps

LEMMA RepeatOperationKeeps ==
  ASSUME ClientIInv, RepeatOperation
  PROVE  ClientIInv'
<1>1. /\ call \in CallRecord /\ OperationSound(call) /\ SentSound(call)
      /\ call.stage = "waitingOutside" /\ call.operation \in Operations /\ call.patient
  BY DEF ClientIInv, RepeatOperation, OperationSound, SentSound, CallRecord
<1>2. PICK q : q = call
  OBVIOUS
<1>3. PICK raw \in BOOLEAN : raw <=> q.rawRepeated \/ ~q.own
  <2>1. \E raw \in BOOLEAN : raw <=> q.rawRepeated \/ ~q.own
    OBVIOUS
  <2>2. QED
    BY <2>1
<1>4. (q.rawRepeated \/ ~q.own) = raw
  BY <1>1, <1>2, <1>3 DEF CallRecord
<1>5. PICK c : c = [q EXCEPT !.rawRepeated = raw]
  OBVIOUS
<1>6. call' = Attempt(c)
  BY <1>1, <1>2, <1>4, <1>5 DEF RepeatOperation, CallRecord
<1>7. /\ c \in CallRecord /\ c.operation = q.operation /\ c.patient = q.patient
      /\ c.outerTries = q.outerTries /\ c.sent = q.sent /\ c.rawRepeated = raw
  BY <1>1, <1>2, <1>5 DEF CallRecord
<1>8. c.outerTries < (IF c.patient THEN MaxRepeats + 1 ELSE 1)
  BY <1>1, <1>2, <1>7, ClientNumbers DEF SentSound, CallRecord
<1>9. c.sent <= c.outerTries * (IF c.operation \in Repeating THEN MaxRepeats + 1 ELSE 1)
  <2>1. /\ q.outerTries \in Nat /\ q.sent \in Nat /\ q.tries \in Nat /\ MaxRepeats \in Nat
        /\ q.outerTries >= 1
    BY <1>1, <1>2, ClientNumbers DEF CallRecord, SentSound
  <2>2. CASE q.operation \in Repeating
    <3> DEFINE o == q.outerTries
               R == MaxRepeats + 1
    <3>1. q.sent <= (o - 1) * R + q.tries /\ q.tries <= R
      BY <1>1, <1>2, <2>2 DEF SentSound
    <3>2. o \in Nat /\ R \in Nat
      BY <2>1
    <3> HIDE DEF o, R
    <3>3. (o - 1) * R + R = o * R /\ (o - 1) * R \in Int /\ o * R \in Int
      BY <3>2
    <3>4. q.sent <= o * R
      BY <2>1, <3>1, <3>2, <3>3
    <3>5. QED
      BY <1>7, <2>2, <3>4 DEF o, R
  <2>3. CASE q.operation \notin Repeating
    <3>1. q.sent <= q.outerTries
      BY <1>1, <1>2, <2>3 DEF SentSound
    <3>2. QED
      BY <1>7, <2>1, <2>3, <3>1
  <2>4. QED
    BY <2>2, <2>3
<1>10. c.operation \in Silent => ~c.rawRepeated
  BY <1>1, <1>2, <1>3, <1>7 DEF OperationSound
<1>11. /\ OperationSound(Attempt(c)) /\ Attempt(c).operation = c.operation
       /\ Attempt(c).stage \in {"signing", "sent"}
  BY <1>1, <1>2, <1>7, <1>8, <1>9, <1>10, AttemptSound
<1>12. /\ CountStart(c.operation) /\ options' = options /\ calls' \in 0..MaxCalls
  BY <1>2, <1>7 DEF RepeatOperation, ClientIInv
<1>13. QED
  BY <1>1, <1>2, <1>6, <1>7, <1>11, <1>12, AttemptKeeps

LEMMA RepeatRequestKeeps ==
  ASSUME ClientIInv, RepeatRequest
  PROVE  ClientIInv'
<1>1. /\ call \in CallRecord /\ OperationSound(call) /\ SentSound(call)
      /\ call.stage = "waiting" /\ options' = options /\ counted' = counted /\ calls' = calls
  BY DEF ClientIInv, RepeatRequest, OperationSound
<1>2. PICK q : q = call
  OBVIOUS
<1>3. call' = [operation |-> q.operation, patient |-> q.patient, stage |-> "sent",
               tries |-> q.tries + 1, outerTries |-> q.outerTries, sent |-> q.sent + 1,
               error |-> q.error, own |-> q.own, rawRepeated |-> q.rawRepeated]
  BY <1>1, <1>2 DEF RepeatRequest, CallRecord
<1>4. q.outerTries \in Nat /\ q.sent \in Nat /\ q.tries \in Nat /\ MaxRepeats \in Nat
  BY <1>1, <1>2, ClientNumbers DEF CallRecord
<1>5. call' \in CallRecord
  BY <1>1, <1>2, <1>3, <1>4 DEF CallRecord
<1>6. q.operation \in Repeating
  BY <1>1, <1>2 DEF SentSound
<1>7. SentSound(call')
  <2>1. (q.outerTries - 1) * (MaxRepeats + 1) \in Int
    BY <1>4
  <2>2. QED
    BY <1>1, <1>2, <1>3, <1>4, <1>6, <2>1 DEF SentSound
<1>8. OperationSound(call')
  BY <1>1, <1>2, <1>3, <1>5, <1>7 DEF OperationSound
<1>9. BeingSent(call') <=> BeingSent(call)
  BY <1>1, <1>2, <1>3 DEF BeingSent
<1>10. QED
  BY <1>1, <1>8, <1>9 DEF ClientIInv

LEMMA RequestAnsweredKeeps ==
  ASSUME ClientIInv, RequestAnswered
  PROVE  ClientIInv'
<1>1. /\ call \in CallRecord /\ OperationSound(call) /\ SentSound(call)
      /\ call.stage = "sent"
  BY DEF ClientIInv, RequestAnswered, OperationSound
<1>2. ASSUME NEW type \in {"RPCValidationMismatchError", "SimulationFailedError"},
             OperationThrows(call, SdkError(type, NoStatus))
      PROVE  ClientIInv'
  <2>1. SdkThrown(SdkError(type, NoStatus)) /\ SdkError(type, NoStatus).status = NoStatus
    BY SdkErrorThrown DEF ErrorTypes
  <2>2. QED
    BY <1>1, <1>2, <2>1, OperationThrowsKeeps
<1>3. ASSUME call' = [call EXCEPT !.stage = "over", !.error = NoError],
             counted' = IF call.operation \in Counted THEN [counted EXCEPT !.succeeded = @ + 1]
                        ELSE counted,
             UNCHANGED <<options, calls>>
      PROVE  ClientIInv'
  <2>1. PICK q : q = call
    OBVIOUS
  <2>2. call' = [operation |-> q.operation, patient |-> q.patient, stage |-> "over",
                 tries |-> q.tries, outerTries |-> q.outerTries, sent |-> q.sent,
                 error |-> NoError, own |-> q.own, rawRepeated |-> q.rawRepeated]
    BY <1>1, <1>3, <2>1 DEF CallRecord
  <2>3. SdkThrown(NoError) /\ NoError \in ErrorRecord
    BY SdkErrorThrown DEF NoError, ErrorTypes, SdkThrown, ErrorFits
  <2>4. call' \in CallRecord
    BY <1>1, <2>1, <2>2, <2>3 DEF CallRecord
  <2>5. SentSound(call')
    BY <1>1, <2>1, <2>2 DEF SentSound
  <2>6. OperationSound(call')
    BY <1>1, <2>1, <2>2, <2>3, <2>4, <2>5 DEF OperationSound
  <2>7. /\ ~BeingSent(call') /\ (BeingSent(call) <=> call.operation \in Counted)
        /\ counted \in [started : Nat, succeeded : Nat, failed : Nat]
        /\ counted.started = counted.succeeded + counted.failed + (IF BeingSent(call) THEN 1 ELSE 0)
    BY <1>1, <2>2 DEF BeingSent, ClientIInv
  <2>8. /\ counted' \in [started : Nat, succeeded : Nat, failed : Nat]
        /\ counted'.started = counted'.succeeded + counted'.failed
    BY <1>3, <2>7
  <2>9. QED
    BY <1>3, <2>6, <2>7, <2>8 DEF ClientIInv
<1>4. QED
  BY <1>2, <1>3 DEF RequestAnswered

LEMMA RequestFailsKeeps ==
  ASSUME ClientIInv, NEW own \in BOOLEAN, NEW status \in Statuses \cup {NoStatus},
         NEW message \in Messages, RequestFails(Failure(own, status, message))
  PROVE  ClientIInv'
<1>1. PICK e : e = Failure(own, status, message)
  OBVIOUS
<1>2. e \in ErrorRecord /\ e.sdk = own /\ e.status = status /\ (e.sdk => ErrorFits(e))
  BY <1>1 DEF Failure, ErrorRecord, ErrorFits, ErrorTypes
<1>3. /\ call \in CallRecord /\ OperationSound(call) /\ SentSound(call)
      /\ call.stage = "sent"
  BY DEF ClientIInv, RequestFails, OperationSound
<1>4. PICK q : q = call
  OBVIOUS
<1>5. PICK c : c = [q EXCEPT !.own = own]
  OBVIOUS
<1>6. c = [operation |-> q.operation, patient |-> q.patient, stage |-> q.stage,
           tries |-> q.tries, outerTries |-> q.outerTries, sent |-> q.sent,
           error |-> q.error, own |-> own, rawRepeated |-> q.rawRepeated]
  BY <1>3, <1>4, <1>5 DEF CallRecord
<1>7. c \in CallRecord
  BY <1>3, <1>4, <1>6 DEF CallRecord
<1>8. SentSound(c)
  BY <1>3, <1>4, <1>6 DEF SentSound
<1>9. OperationSound(c)
  BY <1>3, <1>4, <1>6, <1>7, <1>8 DEF OperationSound
<1>10. q.operation \in Operations
  BY <1>3, <1>4 DEF OperationSound, CallRecord
<1>11. CASE q.operation \in Repeating /\ WorthRepeating(status, q.tries)
  <2>1. /\ call' = [c EXCEPT !.stage = "waiting"] /\ options' = options
        /\ counted' = counted /\ calls' = calls
    BY <1>1, <1>2, <1>4, <1>5, <1>6, <1>11 DEF RequestFails
  <2>2. q.tries <= MaxRepeats
    BY <1>11 DEF WorthRepeating
  <2>3. call' = [operation |-> q.operation, patient |-> q.patient, stage |-> "waiting",
                 tries |-> q.tries, outerTries |-> q.outerTries, sent |-> q.sent,
                 error |-> q.error, own |-> own, rawRepeated |-> q.rawRepeated]
    BY <1>6, <2>1
  <2>4. call' \in CallRecord
    BY <1>3, <1>4, <2>3 DEF CallRecord
  <2>5. SentSound(call')
    BY <1>3, <1>4, <1>11, <2>2, <2>3 DEF SentSound
  <2>6. OperationSound(call')
    BY <1>3, <1>4, <2>3, <2>4, <2>5 DEF OperationSound
  <2>7. BeingSent(call') <=> BeingSent(call)
    BY <1>3, <1>4, <2>3 DEF BeingSent
  <2>8. QED
    BY <2>1, <2>6, <2>7 DEF ClientIInv
<1>12. CASE ~(q.operation \in Repeating /\ WorthRepeating(status, q.tries))
  <2>1. OperationThrows(c, ErrorThrown(c.operation, e))
    BY <1>1, <1>2, <1>4, <1>5, <1>6, <1>12 DEF RequestFails
  <2>2. /\ SdkThrown(ErrorThrown(q.operation, e))
        /\ q.operation \in Silent /\ ~own => ErrorThrown(q.operation, e).status = NoStatus
    BY <1>2, <1>10, ErrorThrownFits
  <2>3. c.operation = q.operation /\ c.stage = q.stage /\ c.own = own
    BY <1>6
  <2>4. QED
    BY <1>3, <1>4, <1>9, <2>1, <2>2, <2>3, OperationThrowsKeeps
<1>13. QED
  BY <1>11, <1>12

LEMMA WalletSignsKeeps ==
  ASSUME ClientIInv, WalletSigns
  PROVE  ClientIInv'
<1>1. /\ call \in CallRecord /\ OperationSound(call) /\ SentSound(call)
      /\ call.stage = "signing"
  BY DEF ClientIInv, WalletSigns, OperationSound
<1>2. ASSUME NEW message \in Messages,
             OperationThrows(call, NormalizeTransactionError(Failure(FALSE, NoStatus, message)))
      PROVE  ClientIInv'
  <2>1. PICK e : e = Failure(FALSE, NoStatus, message)
    OBVIOUS
  <2>2. e \in ErrorRecord /\ ~e.sdk
    BY <2>1 DEF Failure, ErrorRecord, ErrorTypes
  <2>3. /\ SdkThrown(NormalizeTransactionError(e))
        /\ NormalizeTransactionError(e).status = NoStatus
    BY <2>2, TransactionErrorFits
  <2>4. QED
    BY <1>1, <1>2, <2>1, <2>3, OperationThrowsKeeps
<1>3. CASE OperationThrows(call, SdkError("InvalidXDRError", NoStatus))
  <2>1. /\ SdkThrown(SdkError("InvalidXDRError", NoStatus))
        /\ SdkError("InvalidXDRError", NoStatus).status = NoStatus
    BY SdkErrorThrown DEF ErrorTypes
  <2>2. QED
    BY <1>1, <1>3, <2>1, OperationThrowsKeeps
<1>4. ASSUME call' = [call EXCEPT !.stage = "sent", !.tries = 1, !.sent = @ + 1],
             UNCHANGED <<options, counted, calls>>
      PROVE  ClientIInv'
  <2>1. PICK q : q = call
    OBVIOUS
  <2>2. call' = [operation |-> q.operation, patient |-> q.patient, stage |-> "sent",
                 tries |-> 1, outerTries |-> q.outerTries, sent |-> q.sent + 1,
                 error |-> q.error, own |-> q.own, rawRepeated |-> q.rawRepeated]
    BY <1>1, <1>4, <2>1 DEF CallRecord
  <2>3. q.outerTries \in Nat /\ q.sent \in Nat /\ MaxRepeats \in Nat
    BY <1>1, <2>1, ClientNumbers DEF CallRecord
  <2>4. call' \in CallRecord
    BY <1>1, <2>1, <2>2, <2>3 DEF CallRecord
  <2>5. SentSound(call')
    BY <1>1, <2>1, <2>2, <2>3 DEF SentSound
  <2>6. OperationSound(call')
    BY <1>1, <2>1, <2>2, <2>4, <2>5 DEF OperationSound
  <2>7. BeingSent(call') <=> BeingSent(call)
    BY <1>1, <2>1, <2>2 DEF BeingSent
  <2>8. QED
    BY <1>4, <2>6, <2>7 DEF ClientIInv
<1>5. QED
  BY <1>2, <1>3, <1>4 DEF WalletSigns

\* At first no operation has been called.
LEMMA ClientInvInit == ClientInit => ClientIInv
<1> SUFFICES ASSUME ClientInit PROVE ClientIInv
  OBVIOUS
<1>1. /\ options \in [retries : BOOLEAN, wallet : BOOLEAN] /\ call = NoOperation /\ calls = 0
      /\ counted = [started |-> 0, succeeded |-> 0, failed |-> 0]
  BY DEF ClientInit
<1>2. ~BeingSent(call)
  BY <1>1 DEF BeingSent, NoOperation
<1>3. QED
  BY <1>1, <1>2, NoOperationSound, ClientNumbers DEF ClientIInv

\* Every step of an operation keeps the invariant.
LEMMA ClientInvStep == ClientIInv /\ [ClientNext]_clientVars => ClientIInv'
<1> SUFFICES ASSUME ClientIInv, [ClientNext]_clientVars PROVE ClientIInv'
  OBVIOUS
<1>1. CASE \E operation \in Operations, patient \in BOOLEAN : CallOperation(operation, patient)
  BY <1>1, CallOperationKeeps
<1>2. CASE \E own \in BOOLEAN, status \in Statuses \cup {NoStatus}, message \in Messages :
             RequestFails(Failure(own, status, message))
  BY <1>2, RequestFailsKeeps
<1>3. CASE RequestAnswered \/ RepeatRequest \/ RepeatOperation \/ WalletSigns
  BY <1>3, RequestAnsweredKeeps, RepeatRequestKeeps, RepeatOperationKeeps, WalletSignsKeeps
<1>4. CASE UNCHANGED clientVars
  <2>1. options' = options /\ call' = call /\ counted' = counted /\ calls' = calls
    BY <1>4 DEF clientVars
  <2>2. QED
    BY <2>1 DEF ClientIInv
<1>5. QED
  BY <1>1, <1>2, <1>3, <1>4 DEF ClientNext

\* The invariant says how operations end.
LEMMA ClientInvSays == ClientIInv => ClientTypeOK /\ ClientRequestsEnd
<1> SUFFICES ASSUME ClientIInv PROVE ClientTypeOK /\ ClientRequestsEnd
  OBVIOUS
<1>1. call \in CallRecord /\ OperationSound(call) /\ SentSound(call)
  BY DEF ClientIInv, OperationSound
<1>2. PICK q : q = call
  OBVIOUS
<1>3. q.outerTries \in Nat /\ q.sent \in Nat /\ q.tries \in Nat /\ MaxRepeats \in Nat
  BY <1>1, <1>2, ClientNumbers DEF CallRecord
<1>4. q.sent <= (IF q.patient THEN MaxRepeats + 1 ELSE 1)
                 * (IF q.operation \in Repeating THEN MaxRepeats + 1 ELSE 1)
  <2> DEFINE times == IF q.patient THEN MaxRepeats + 1 ELSE 1
             R == MaxRepeats + 1
             o == q.outerTries
  <2>1. times \in Nat /\ times >= 1 /\ R \in Nat /\ R >= 1 /\ o \in Nat /\ o <= times
    BY <1>1, <1>2, <1>3 DEF SentSound
  <2>2. CASE q.stage = "idle"
    <3>1. q.sent = 0
      BY <1>1, <1>2, <2>2 DEF OperationSound
    <3>2. times * R \in Nat /\ times * 1 \in Nat
      BY <2>1
    <3>3. QED
      BY <3>1, <3>2
  <2>3. CASE q.stage # "idle" /\ q.operation \in Repeating
    <3>1. q.sent <= (o - 1) * R + q.tries /\ q.tries <= R /\ o >= 1
      BY <1>1, <1>2, <2>3 DEF SentSound
    <3> HIDE DEF times, R, o
    <3>2. (o - 1) * R + R = o * R /\ (o - 1) * R \in Int /\ o * R \in Int
      BY <2>1
    <3>3. PICK k \in Nat : times = o + k
      <4>1. times - o \in Nat /\ times = o + (times - o)
        BY <2>1
      <4>2. QED
        BY <4>1
    <3>4. times * R = o * R + k * R /\ k * R \in Nat
      BY <2>1, <3>3
    <3>5. q.sent <= times * R
      BY <1>3, <2>1, <3>1, <3>2, <3>4
    <3>6. QED
      BY <2>3, <3>5 DEF times, R
  <2>4. CASE q.stage # "idle" /\ q.operation \notin Repeating
    <3>1. q.sent <= o
      BY <1>1, <1>2, <2>4 DEF SentSound
    <3>2. q.sent <= times * 1
      BY <1>3, <2>1, <3>1
    <3>3. QED
      BY <2>4, <3>2
  <2>5. QED
    BY <2>2, <2>3, <2>4
<1>5. call.operation \in {"getNetwork", "simulate", "prepare", "send"} => ~call.rawRepeated
  BY <1>1 DEF OperationSound, Silent
<1>6. call.stage = "over" =>
        /\ call.error.sdk
        /\ call.error.type = "RateLimitError" => call.error.status = 429
        /\ call.error.type = "AuthenticationError" => call.error.status \in {401, 403}
        /\ call.error.type = "NetworkError" => call.error.status \notin 0..499
  BY <1>1 DEF OperationSound, SdkThrown, ErrorFits
<1>7. ClientTypeOK
  BY <1>1 DEF CallRecord, ErrorRecord, ClientIInv, ClientTypeOK
<1>8. ClientRequestsEnd
  BY <1>2, <1>4, <1>5, <1>6 DEF ClientIInv, BeingSent, ClientRequestsEnd
<1>9. QED
  BY <1>7, <1>8

\* An operation makes no more requests than its retries and the application's
\* allow, sends no transaction again unless the RPC client failed with an error of
\* the SDK, throws errors whose types fit their statuses, and is counted once
\* (src/client/stellarClient.ts:476, 1139; src/errors/axionveraError.ts:320, 504).
THEOREM ClientRequestsCorrect == ClientSpec => [](ClientTypeOK /\ ClientRequestsEnd)
<1>1. ClientInit => ClientIInv
  BY ClientInvInit
<1>2. ClientIInv /\ [ClientNext]_clientVars => ClientIInv'
  BY ClientInvStep
<1>3. ClientIInv => ClientTypeOK /\ ClientRequestsEnd
  BY ClientInvSays
<1>4. QED
  BY <1>1, <1>2, <1>3, PTL DEF ClientSpec

-----------------------------------------------------------------------------
(* EventRange: sequences of events *)

EventNumbers == 1..Len(LedgerOf)

\* The events of a range behind a cursor
InEvents(start, end, cursor) ==
  {i \in EventNumbers : i > cursor /\ LedgerOf[i] \in start..end}

Ascends(s) == \A i, j \in 1..Len(s) : i < j => s[i] < s[j]

\* Of a set, `some' has nothing left out before anything it has.
LeavesNoGap(some, S) == \A x \in S, y \in some : x <= y => x \in some

LEMMA RangeNumbers ==
  /\ LedgerOf \in Seq(Nat) /\ Len(LedgerOf) \in Nat /\ DOMAIN LedgerOf = EventNumbers
  /\ EventNumbers \subseteq Nat /\ \A i \in EventNumbers : LedgerOf[i] \in Nat /\ i > 0
  /\ \A i, j \in EventNumbers : i <= j => LedgerOf[i] <= LedgerOf[j]
<1>1. LedgerOf \in Seq(Nat) /\ \A i, j \in DOMAIN LedgerOf : i < j => LedgerOf[i] <= LedgerOf[j]
  BY RangeAssumption DEF RangeAssumption
<1>2. /\ Len(LedgerOf) \in Nat /\ DOMAIN LedgerOf = EventNumbers
      /\ \A i \in EventNumbers : LedgerOf[i] \in Nat
  BY <1>1 DEF EventNumbers
<1>3. EventNumbers \subseteq Nat /\ \A i \in EventNumbers : i > 0
  BY <1>2 DEF EventNumbers
<1>4. ASSUME NEW i \in EventNumbers, NEW j \in EventNumbers, i <= j
      PROVE  LedgerOf[i] <= LedgerOf[j]
  <2>1. i < j \/ i = j
    BY <1>3, <1>4
  <2>2. QED
    BY <1>1, <1>2, <2>1
<1>5. QED
  BY <1>1, <1>2, <1>3, <1>4

\* One event more, behind the others.
LEMMA ListGrows ==
  ASSUME NEW s \in Seq(EventNumbers), Ascends(s), NEW n \in EventNumbers,
         \A x \in Range(s) : x < n, NEW t, t = Append(s, n)
  PROVE  t \in Seq(EventNumbers) /\ Ascends(t) /\ Range(t) = Range(s) \cup {n}
<1>1. /\ t \in Seq(EventNumbers) /\ Len(t) = Len(s) + 1 /\ Len(s) \in Nat
      /\ t[Len(s) + 1] = n /\ \A i \in 1..Len(s) : t[i] = s[i]
  OBVIOUS
<1>2. \A i \in 1..Len(t) : i \in 1..Len(s) \/ i = Len(s) + 1
  BY <1>1
<1>3. \A i \in 1..Len(s) : i \in 1..Len(t)
  BY <1>1
<1>4. Len(s) + 1 \in 1..Len(t)
  BY <1>1
<1>5. Ascends(t)
  <2> SUFFICES ASSUME NEW i \in 1..Len(t), NEW j \in 1..Len(t), i < j PROVE t[i] < t[j]
    BY DEF Ascends
  <2>1. i \in 1..Len(s)
    BY <1>1, <1>2
  <2>2. CASE j \in 1..Len(s)
    BY <1>1, <2>1, <2>2 DEF Ascends
  <2>3. CASE j = Len(s) + 1
    <3>1. s[i] \in Range(s)
      BY <2>1, ListRange
    <3>2. QED
      BY <1>1, <2>1, <2>3, <3>1
  <2>4. QED
    BY <1>2, <2>2, <2>3
<1>6. ASSUME NEW x PROVE x \in Range(t) <=> x \in Range(s) \cup {n}
  <2>1. x \in Range(t) <=> \E i \in 1..Len(t) : t[i] = x
    BY <1>1, ListRange
  <2>2. x \in Range(s) <=> \E i \in 1..Len(s) : s[i] = x
    BY ListRange
  <2>3. QED
    BY <1>1, <1>2, <1>3, <1>4, <2>1, <2>2
<1>7. QED
  BY <1>1, <1>5, <1>6

\* EventsIn() lists the events of the range.
LEMMA EventsListed ==
  ASSUME NEW start \in Int, NEW end \in Int, NEW cursor \in Int
  PROVE  /\ EventsIn(start, end, cursor) \in Seq(EventNumbers)
         /\ Ascends(EventsIn(start, end, cursor))
         /\ Range(EventsIn(start, end, cursor)) = InEvents(start, end, cursor)
<1> DEFINE In(i) == i > cursor /\ LedgerOf[i] \in start..end
           Is(g, n) == g = [i \in 0..n |-> IF i = 0 THEN <<>>
                                           ELSE IF In(i) THEN Append(g[i - 1], i) ELSE g[i - 1]]
           Found(s, n) == /\ s \in Seq(EventNumbers) /\ Ascends(s)
                          /\ \A x : x \in Range(s) <=> x \in EventNumbers /\ x <= n /\ In(x)
           N == Len(LedgerOf)
           T == {n \in Nat : n <= N => \E g : Is(g, n) /\ Found(g[n], n)}
<1>1. N \in Nat /\ EventNumbers = 1..N
  BY RangeNumbers DEF EventNumbers
<1>2. 0 \in T
  <2> DEFINE g == [i \in 0..0 |-> <<>>]
  <2>1. \A i \in 0..0 : i = 0
    OBVIOUS
  <2>2. Is(g, 0) /\ g[0] = <<>>
    BY <2>1
  <2>3. <<>> \in Seq(EventNumbers) /\ Len(<<>>) = 0 /\ 1..0 = {}
    OBVIOUS
  <2>4. \A x : x \notin Range(<<>>)
    BY <2>3, ListRange
  <2>5. Found(<<>>, 0)
    <3>1. Ascends(<<>>)
      BY <2>3 DEF Ascends
    <3>2. \A x \in EventNumbers : ~(x <= 0)
      BY <1>1
    <3>3. QED
      BY <2>3, <2>4, <3>1, <3>2
  <2>6. QED
    BY <2>2, <2>5
<1>3. ASSUME NEW n \in Nat, n \in T PROVE n + 1 \in T
  <2> HIDE DEF Is, Found, In, N
  <2> SUFFICES ASSUME n + 1 <= N PROVE \E h : Is(h, n + 1) /\ Found(h[n + 1], n + 1)
    OBVIOUS
  <2>1. PICK g : Is(g, n) /\ Found(g[n], n)
    BY <1>1, <1>3
  <2> USE DEF Is, Found, In, N
  <2> DEFINE s == g[n]
             t == IF In(n + 1) THEN Append(s, n + 1) ELSE s
             h == [i \in 0..(n + 1) |-> IF i = n + 1 THEN t ELSE g[i]]
  <2>2. h[n + 1] = t /\ (\A i \in 0..n : h[i] = g[i]) /\ h = [i \in 0..(n + 1) |-> h[i]]
    OBVIOUS
  <2>3. n + 1 \in EventNumbers
    BY <1>1
  <2>4. Found(t, n + 1)
    <3>1. /\ s \in Seq(EventNumbers) /\ Ascends(s)
          /\ \A x : x \in Range(s) <=> x \in EventNumbers /\ x <= n /\ In(x)
      BY <2>1
    <3>2. \A x \in EventNumbers : x <= n + 1 <=> x <= n \/ x = n + 1
      BY <1>1
    <3> HIDE DEF s
    <3>3. CASE In(n + 1)
      <4>1. t = Append(s, n + 1)
        BY <3>3
      <4>2. \A x \in Range(s) : x < n + 1
        BY <1>1, <3>1
      <4> HIDE DEF t, In
      <4>3. t \in Seq(EventNumbers) /\ Ascends(t) /\ Range(t) = Range(s) \cup {n + 1}
        BY <2>3, <3>1, <4>1, <4>2, ListGrows
      <4>4. QED
        BY <2>3, <3>1, <3>2, <3>3, <4>3
    <3>4. CASE ~In(n + 1)
      <4>1. t = s
        BY <3>4
      <4> HIDE DEF t, In
      <4>2. QED
        BY <3>1, <3>2, <3>4, <4>1
    <3>5. QED
      BY <3>3, <3>4
  <2>5. \A i \in 0..n : g[i] = IF i = 0 THEN <<>>
                               ELSE IF In(i) THEN Append(g[i - 1], i) ELSE g[i - 1]
    BY <2>1
  <2>6. t = IF In(n + 1) THEN Append(g[n], n + 1) ELSE g[n]
    OBVIOUS
  <2> HIDE DEF h, t, s, In, Found
  <2>7. ASSUME NEW i \in 0..(n + 1)
        PROVE  h[i] = IF i = 0 THEN <<>> ELSE IF In(i) THEN Append(h[i - 1], i) ELSE h[i - 1]
    <3>1. CASE i = n + 1
      <4>1. i - 1 = n /\ n \in 0..n /\ i # 0
        BY <3>1
      <4>2. h[i - 1] = g[n]
        BY <2>2, <4>1
      <4>3. QED
        BY <2>2, <2>6, <3>1, <4>1, <4>2
    <3>2. CASE i # n + 1 /\ i # 0
      <4>1. i \in 0..n /\ i - 1 \in 0..n
        BY <3>2
      <4>2. h[i - 1] = g[i - 1] /\ h[i] = g[i]
        BY <2>2, <4>1
      <4>3. QED
        BY <2>5, <3>2, <4>1, <4>2
    <3>3. CASE i = 0
      <4>1. i \in 0..n
        BY <3>3
      <4>2. QED
        BY <2>2, <2>5, <3>3, <4>1
    <3>4. QED
      BY <3>1, <3>2, <3>3
  <2>8. Is(h, n + 1)
    BY <2>2, <2>7
  <2>9. QED
    BY <2>2, <2>4, <2>8
<1>4. N \in T
  <2> HIDE DEF T, N
  <2>1. Nat \subseteq T
    BY <1>2, <1>3, UpFromZero
  <2>2. QED
    BY <1>1, <2>1
<1>5. PICK g : Is(g, N) /\ Found(g[N], N)
  BY <1>1, <1>4
<1> DEFINE f == CHOOSE g_1 : Is(g_1, N)
<1>6. Is(f, N)
  BY <1>5
<1>7. f[N] = g[N]
  <2> DEFINE U == {n \in Nat : n <= N => f[n] = g[n]}
  <2>1. \A i \in 0..N : f[i] = IF i = 0 THEN <<>>
                               ELSE IF In(i) THEN Append(f[i - 1], i) ELSE f[i - 1]
    BY <1>6
  <2>2. \A i \in 0..N : g[i] = IF i = 0 THEN <<>>
                               ELSE IF In(i) THEN Append(g[i - 1], i) ELSE g[i - 1]
    BY <1>5
  <2> HIDE DEF f, In, N
  <2>3. 0 \in U
    BY <1>1, <2>1, <2>2
  <2>4. ASSUME NEW n \in Nat, n \in U PROVE n + 1 \in U
    <3> SUFFICES ASSUME n + 1 <= N PROVE f[n + 1] = g[n + 1]
      OBVIOUS
    <3>1. n + 1 \in 0..N /\ n + 1 # 0 /\ (n + 1) - 1 = n /\ n <= N
      BY <1>1
    <3>2. f[n] = g[n]
      BY <2>4, <3>1
    <3>3. QED
      BY <2>1, <2>2, <3>1, <3>2
  <2>5. Nat \subseteq U
    <3> HIDE DEF U
    <3>1. QED
      BY <2>3, <2>4, UpFromZero
  <2>6. QED
    BY <1>1, <2>5
<1>8. EventsIn(start, end, cursor) = f[N]
  BY DEF EventsIn
<1>9. Found(EventsIn(start, end, cursor), N)
  BY <1>5, <1>7, <1>8
<1>10. QED
  <2>1. \A x \in EventNumbers : x <= N
    BY <1>1
  <2>2. QED
    BY <1>9, <2>1 DEF InEvents

\* Of what an ascending sequence lists, another that leaves no gap is the start.
LEMMA InitialIsPrefix ==
  ASSUME NEW a \in Seq(EventNumbers), NEW b \in Seq(EventNumbers), Ascends(a), Ascends(b),
         Range(a) \subseteq Range(b), LeavesNoGap(Range(a), Range(b))
  PROVE  IsPrefix(a, b)
<1> DEFINE T == {n \in Nat : n <= Len(a) => n <= Len(b) /\ \A i \in 1..n : a[i] = b[i]}
<1>0. Len(a) \in Nat /\ Len(b) \in Nat /\ EventNumbers \subseteq Nat
  BY RangeNumbers
<1>1. 0 \in T
  BY <1>0
<1>2. ASSUME NEW n \in Nat, n \in T PROVE n + 1 \in T
  <2> SUFFICES ASSUME n + 1 <= Len(a)
               PROVE  n + 1 <= Len(b) /\ \A i \in 1..(n + 1) : a[i] = b[i]
    OBVIOUS
  <2>1. n <= Len(b) /\ \A i \in 1..n : a[i] = b[i]
    BY <1>0, <1>2
  <2>2. n + 1 \in 1..Len(a) /\ \A i \in 1..n : i \in 1..Len(a) /\ i \in 1..Len(b) /\ i < n + 1
    BY <1>0, <2>1
  <2> HIDE DEF T
  <2>3. a[n + 1] \in Range(a)
    BY <2>2, ListRange
  <2>4. PICK j \in 1..Len(b) : b[j] = a[n + 1]
    BY <2>3, ListRange
  <2>5. \A i \in 1..Len(a) : a[i] \in Nat
    BY <1>0, ListElement
  <2>6. \A i \in 1..Len(b) : b[i] \in Nat
    BY <1>0, ListElement
  <2>7. j \notin 1..n
    <3> SUFFICES ASSUME j \in 1..n PROVE FALSE
      OBVIOUS
    <3>1. a[j] < a[n + 1] /\ a[j] = b[j]
      BY <2>1, <2>2 DEF Ascends
    <3>2. QED
      BY <2>2, <2>4, <2>5, <3>1
  <2>8. n + 1 <= j /\ j <= Len(b) /\ n + 1 \in 1..Len(b)
    BY <1>0, <2>7
  <2>9. j = n + 1
    <3> SUFFICES ASSUME n + 1 < j PROVE FALSE
      BY <2>8
    <3>1. b[n + 1] < a[n + 1] /\ b[n + 1] \in Range(b)
      BY <2>4, <2>8, ListRange DEF Ascends
    <3>2. b[n + 1] \in Range(a)
      BY <2>2, <2>3, <2>5, <2>6, <2>8, <3>1 DEF LeavesNoGap
    <3>3. PICK k \in 1..Len(a) : a[k] = b[n + 1]
      BY <3>2, ListRange
    <3>4. k < n + 1
      <4> SUFFICES ASSUME ~(k < n + 1) PROVE FALSE
        OBVIOUS
      <4>1. k = n + 1 \/ n + 1 < k
        OBVIOUS
      <4>2. a[n + 1] <= a[k]
        BY <2>2, <2>5, <4>1 DEF Ascends
      <4>3. QED
        BY <2>2, <2>5, <3>1, <3>3, <4>2
    <3>5. k \in 1..n
      BY <3>4
    <3>6. a[k] = b[k] /\ b[k] < b[n + 1]
      BY <2>1, <2>2, <2>8, <3>4, <3>5 DEF Ascends
    <3>7. b[n + 1] \in Nat /\ b[k] = b[n + 1]
      BY <2>6, <2>8, <3>3, <3>6
    <3>8. QED
      BY <3>6, <3>7
  <2>10. \A i \in 1..(n + 1) : i \in 1..n \/ i = n + 1
    OBVIOUS
  <2>11. QED
    BY <2>1, <2>4, <2>8, <2>9, <2>10
<1>3. Len(a) \in T
  <2> HIDE DEF T
  <2>1. Nat \subseteq T
    BY <1>1, <1>2, UpFromZero
  <2>2. QED
    BY <1>0, <2>1
<1>4. Len(a) <= Len(b) /\ \A i \in 1..Len(a) : a[i] = b[i]
  BY <1>0, <1>3
<1>5. SubSeq(a, 1, Len(a)) = SubSeq(b, 1, Len(a))
  BY <1>0, <1>4
<1>6. QED
  BY <1>4, <1>5 DEF IsPrefix

\* One sequence of events behind another.
LEMMA ListsJoin ==
  ASSUME NEW a \in Seq(EventNumbers), NEW b \in Seq(EventNumbers), Ascends(a), Ascends(b),
         \A x \in Range(a), y \in Range(b) : x < y, NEW c, c = a \o b
  PROVE  c \in Seq(EventNumbers) /\ Ascends(c) /\ Range(c) = Range(a) \cup Range(b)
<1>1. /\ c \in Seq(EventNumbers) /\ Len(c) = Len(a) + Len(b)
      /\ \A j \in 1..Len(a) : c[j] = a[j]
      /\ \A j \in (Len(a) + 1)..(Len(a) + Len(b)) : c[j] = b[j - Len(a)]
  BY ListInTwo
<1>2. Len(a) \in Nat /\ Len(b) \in Nat
  OBVIOUS
<1>3. \A i \in 1..Len(c) :
        \/ i \in 1..Len(a)
        \/ i \in (Len(a) + 1)..(Len(a) + Len(b)) /\ i - Len(a) \in 1..Len(b)
  BY <1>1, <1>2
<1>4. /\ \A i \in 1..Len(a) : i \in 1..Len(c)
      /\ \A i \in 1..Len(b) : /\ Len(a) + i \in 1..Len(c) /\ (Len(a) + i) - Len(a) = i
                              /\ Len(a) + i \in (Len(a) + 1)..(Len(a) + Len(b))
  BY <1>1, <1>2
<1>5. Ascends(c)
  <2> SUFFICES ASSUME NEW i \in 1..Len(c), NEW j \in 1..Len(c), i < j PROVE c[i] < c[j]
    BY DEF Ascends
  <2>1. CASE j \in 1..Len(a)
    <3>1. i \in 1..Len(a)
      BY <1>1, <1>2, <2>1
    <3>2. QED
      BY <1>1, <2>1, <3>1 DEF Ascends
  <2>2. CASE j \in (Len(a) + 1)..(Len(a) + Len(b)) /\ j - Len(a) \in 1..Len(b)
    <3>1. c[j] = b[j - Len(a)] /\ b[j - Len(a)] \in Range(b)
      BY <1>1, <2>2, ListRange
    <3>2. CASE i \in 1..Len(a)
      <4>1. c[i] = a[i] /\ a[i] \in Range(a)
        BY <1>1, <3>2, ListRange
      <4>2. QED
        BY <3>1, <4>1
    <3>3. CASE i \in (Len(a) + 1)..(Len(a) + Len(b)) /\ i - Len(a) \in 1..Len(b)
      <4>1. c[i] = b[i - Len(a)] /\ i - Len(a) < j - Len(a)
        BY <1>1, <1>2, <3>3
      <4>2. QED
        BY <2>2, <3>1, <3>3, <4>1 DEF Ascends
    <3>4. QED
      BY <1>3, <3>2, <3>3
  <2>3. QED
    BY <1>3, <2>1, <2>2
<1>6. ASSUME NEW x PROVE x \in Range(c) <=> x \in Range(a) \cup Range(b)
  <2>1. /\ x \in Range(c) <=> \E i \in 1..Len(c) : c[i] = x
        /\ x \in Range(a) <=> \E i \in 1..Len(a) : a[i] = x
        /\ x \in Range(b) <=> \E i \in 1..Len(b) : b[i] = x
    <3>1. c \in Seq(EventNumbers)
      BY <1>1
    <3>2. x \in Range(c) <=> \E i \in 1..Len(c) : c[i] = x
      BY <3>1, ListRange
    <3>3. x \in Range(a) <=> \E i \in 1..Len(a) : a[i] = x
      BY ListRange
    <3>4. x \in Range(b) <=> \E i \in 1..Len(b) : b[i] = x
      BY ListRange
    <3>5. QED
      BY <3>2, <3>3, <3>4
  <2>2. ASSUME NEW i \in 1..Len(c), c[i] = x PROVE x \in Range(a) \cup Range(b)
    BY <1>1, <1>3, <2>1, <2>2
  <2>3. ASSUME NEW i \in 1..Len(a), a[i] = x PROVE x \in Range(c)
    BY <1>1, <1>4, <2>1, <2>3
  <2>4. ASSUME NEW i \in 1..Len(b), b[i] = x PROVE x \in Range(c)
    BY <1>1, <1>4, <2>1, <2>4
  <2>5. QED
    BY <2>1, <2>2, <2>3, <2>4
<1>7. QED
  BY <1>1, <1>5, <1>6

\* The last of an ascending sequence is its greatest.
LEMMA LastIsGreatest ==
  ASSUME NEW s \in Seq(EventNumbers), Ascends(s), s # <<>>
  PROVE  Last(s) \in Range(s) /\ \A x \in Range(s) : x <= Last(s)
<1>1. Len(s) \in Nat /\ Len(s) \in 1..Len(s) /\ Last(s) = s[Len(s)]
  BY DEF Last
<1>2. ASSUME NEW x \in Range(s) PROVE x <= Last(s)
  <2>1. PICK i \in 1..Len(s) : s[i] = x
    BY ListRange
  <2>2. i = Len(s) \/ i < Len(s)
    BY <1>1
  <2>3. s[i] \in Nat /\ s[Len(s)] \in Nat
    BY <1>1, RangeNumbers, ListElement
  <2>4. s[i] <= s[Len(s)]
    BY <1>1, <2>2, <2>3 DEF Ascends
  <2>5. QED
    BY <1>1, <2>1, <2>4
<1>3. QED
  BY <1>1, <1>2, ListRange

\* A page of at most `limit' events
PageOf(start, end, cursor, limit) ==
  LET all == EventsIn(start, end, cursor)
  IN  SubSeq(all, 1, Smaller(limit, Len(all)))

\* What an honest page holds.
LEMMA PageHolds ==
  ASSUME NEW start \in Nat, NEW end \in Nat, NEW cursor \in Nat, NEW limit \in Nat \ {0},
         NEW page, page = PageOf(start, end, cursor, limit)
  PROVE  /\ page \in Seq(EventNumbers) /\ Ascends(page)
         /\ Range(page) \subseteq InEvents(start, end, cursor)
         /\ LeavesNoGap(Range(page), InEvents(start, end, cursor))
         /\ page = <<>> => InEvents(start, end, cursor) = {}
<1>0. PICK all : all = EventsIn(start, end, cursor)
  OBVIOUS
<1> DEFINE n == Smaller(limit, Len(all))
<1>1. all \in Seq(EventNumbers) /\ Ascends(all) /\ Range(all) = InEvents(start, end, cursor)
  BY <1>0, EventsListed
<1>2. n \in Nat /\ n <= Len(all) /\ (n = 0 => Len(all) = 0)
  BY <1>1 DEF Smaller
<1> HIDE DEF n
<1>3. page \in Seq(EventNumbers) /\ Len(page) = n /\ \A i \in 1..n : page[i] = all[i]
  <2>1. page = SubSeq(all, 1, n)
    BY <1>0 DEF PageOf, n
  <2>2. QED
    BY <1>1, <1>2, <2>1
<1>4. \A i \in 1..n : i \in 1..Len(all)
  BY <1>1, <1>2
<1>5. EventNumbers \subseteq Nat /\ \A i \in 1..Len(all) : all[i] \in Nat
  BY <1>1, RangeNumbers, ListElement
<1>6. Ascends(page)
  BY <1>1, <1>3, <1>4 DEF Ascends
<1>7. \A x : x \in Range(page) <=> \E i \in 1..n : page[i] = x
  <2>1. ASSUME NEW x PROVE x \in Range(page) <=> \E i \in 1..Len(page) : page[i] = x
    <3>1. page \in Seq(EventNumbers)
      BY <1>3
    <3>2. QED
      BY ONLY <3>1, ListRange
  <2>2. QED
    BY <1>3, <2>1
<1>8. \A x : x \in Range(all) <=> \E i \in 1..Len(all) : all[i] = x
  BY <1>1, ListRange
<1>9. Range(page) \subseteq InEvents(start, end, cursor)
  BY <1>1, <1>3, <1>4, <1>7, <1>8
<1>10. LeavesNoGap(Range(page), InEvents(start, end, cursor))
  <2> SUFFICES ASSUME NEW x \in InEvents(start, end, cursor), NEW y \in Range(page), x <= y
               PROVE  x \in Range(page)
    BY DEF LeavesNoGap
  <2>1. PICK i \in 1..Len(all) : all[i] = x
    BY <1>1, <1>8
  <2>2. PICK j \in 1..n : page[j] = y
    BY <1>7
  <2>3. j \in 1..Len(all) /\ all[j] = y
    BY <1>3, <1>4, <2>2
  <2>4. i <= j
    <3> SUFFICES ASSUME j < i PROVE FALSE
      BY <2>3
    <3>1. all[j] < all[i]
      BY <1>1, <2>3 DEF Ascends
    <3>2. QED
      BY <1>5, <2>1, <2>3, <3>1
  <2>5. i \in 1..n
    BY <1>2, <2>4
  <2>6. QED
    BY <1>3, <1>7, <2>1, <2>5
<1>11. ASSUME page = <<>> PROVE InEvents(start, end, cursor) = {}
  <2>1. n = 0
    BY <1>3, <1>11
  <2>2. Len(all) = 0 /\ 1..0 = {}
    BY <1>2, <2>1
  <2>3. QED
    BY <1>1, <1>8, <2>2
<1>12. QED
  BY <1>3, <1>6, <1>9, <1>10, <1>11

-----------------------------------------------------------------------------
(* EventRange: what a call is asked, has collected, and gives *)

EventCursors == 0..Len(LedgerOf)

AskedType == [start : Nat, end : Nat, cursor : EventCursors, limit : Nat \ {0},
              fetchAll : BOOLEAN]

CallFrame == [start : Nat, end : Nat, cursor : EventCursors, events : Seq(EventNumbers),
              seen : SUBSET Nat, half : 0..2,
              first : [events : Seq(EventNumbers), token : EventCursors]]

ResultType == [status : {"none", "given", "failed"}, events : Seq(EventNumbers),
               token : EventCursors, dropped : BOOLEAN]

Midpoint(f) == (f.start + f.end) \div 2

\* A part of the range, and the cursor it is read from
Task(start, end, cursor) == [start |-> start, end |-> end, cursor |-> cursor]

HalfTask(f) == IF f.half = 1 THEN Task(f.start, Midpoint(f), f.cursor)
               ELSE Task(Midpoint(f) + 1, f.end, NoToken)

\* What the call of frame k is for
TaskOf(k) == IF k = 1 THEN Task(asked.start, asked.end, asked.cursor) ELSE HalfTask(frames[k - 1])

TaskEvents(t) == InEvents(t.start, t.end, t.cursor)

\* What `events' and `token' have of the events of a task.
Serves(events, token, t, fetchAll, dropped) ==
  /\ events \in Seq(EventNumbers) /\ token \in EventCursors
  /\ Ascends(events) /\ Range(events) \subseteq InEvents(t.start, t.end, NoToken)
  /\ fetchAll /\ ~dropped => TaskEvents(t) \subseteq Range(events)
  /\ ~fetchAll => /\ Range(events) \subseteq TaskEvents(t)
                  /\ LeavesNoGap(Range(events), TaskEvents(t))
                  /\ token \in Range(events) \/ token <= t.cursor

\* What a call has collected: the events from the task's cursor up to its own.
Collects(f, t, fetchAll, dropped) ==
  /\ f.start = t.start /\ f.end = t.end
  /\ Ascends(f.events) /\ Range(f.events) \subseteq InEvents(f.start, f.end, NoToken)
  /\ TaskEvents(t) \subseteq Range(f.events) \cup InEvents(f.start, f.end, f.cursor)
  /\ \A x \in Range(f.events) \cup f.seen : x <= f.cursor
  /\ f.events = <<>> => f.cursor = t.cursor
  /\ ~fetchAll => f.events = <<>>
  /\ f.half # 0 => f.start < f.end /\ (~dropped => f.events = <<>>)
  /\ f.half = 2 =>
       /\ fetchAll
       /\ Serves(f.first.events, f.first.token, Task(f.start, Midpoint(f), f.cursor),
                 fetchAll, dropped)

\* Frame k, among the others
FrameSound(k) ==
  /\ Collects(frames[k], TaskOf(k), asked.fetchAll, rangeResult.dropped)
  /\ frames[k].start \in asked.start..frames[k].end /\ frames[k].end <= asked.end
  /\ frames[k].half = 0 <=> k = Len(frames) /\ rangeResult.status # "given"

RangeIInv ==
  /\ asked \in AskedType /\ asked.start \in 1..asked.end
  /\ frames \in Seq(CallFrame) /\ rangeResult \in ResultType
  /\ rangeResult.status = "failed" => frames = <<>>
  /\ \A k \in 1..Len(frames) : FrameSound(k)
  /\ rangeResult.status = "given" =>
       Serves(rangeResult.events, rangeResult.token, TaskOf(Len(frames) + 1),
              asked.fetchAll, rangeResult.dropped)

\* The ledger in the middle
LEMMA MidpointBetween ==
  ASSUME NEW a \in Nat, NEW b \in Nat, a < b
  PROVE  /\ (a + b) \div 2 \in Nat
         /\ a <= (a + b) \div 2 /\ (a + b) \div 2 + 1 <= b
OBVIOUS

\* What is served although events are dropped is served.
LEMMA ServesStill ==
  ASSUME NEW events, NEW token, NEW t, NEW fetchAll \in BOOLEAN, NEW dropped \in BOOLEAN,
         NEW dropped2 \in BOOLEAN, dropped => dropped2,
         Serves(events, token, t, fetchAll, dropped)
  PROVE  Serves(events, token, t, fetchAll, dropped2)
BY DEF Serves

\* So is what is collected.
LEMMA CollectsStill ==
  ASSUME NEW f, NEW t, NEW fetchAll \in BOOLEAN, NEW dropped \in BOOLEAN,
         NEW dropped2 \in BOOLEAN, dropped => dropped2,
         Collects(f, t, fetchAll, dropped)
  PROVE  Collects(f, t, fetchAll, dropped2)
<1>1. f.half = 2 => Serves(f.first.events, f.first.token,
                           Task(f.start, Midpoint(f), f.cursor), fetchAll, dropped2)
  BY ServesStill DEF Collects
<1>2. QED
  BY <1>1 DEF Collects

\* What a call begins with
LEMMA CallBegins ==
  ASSUME NEW start \in Nat, NEW end \in Nat, NEW cursor \in EventCursors,
         NEW fetchAll \in BOOLEAN, NEW dropped \in BOOLEAN
  PROVE  /\ Frame(start, end, cursor) \in CallFrame
         /\ Collects(Frame(start, end, cursor), Task(start, end, cursor), fetchAll, dropped)
         /\ Frame(start, end, cursor).half = 0
         /\ Frame(start, end, cursor).start = start /\ Frame(start, end, cursor).end = end
<1>0. PICK f, t : f = Frame(start, end, cursor) /\ t = Task(start, end, cursor)
  OBVIOUS
<1>1. f = [start |-> start, end |-> end, cursor |-> cursor, events |-> <<>>, seen |-> {},
           half |-> 0, first |-> [events |-> <<>>, token |-> 0]]
  BY <1>0 DEF Frame, NoToken
<1>2. <<>> \in Seq(EventNumbers) /\ Len(<<>>) = 0 /\ 1..0 = {} /\ 0 \in EventCursors
  BY RangeNumbers DEF EventCursors
<1>3. \A x : x \notin Range(<<>>)
  BY <1>2, ListRange
<1>4. Ascends(<<>>)
  BY <1>2 DEF Ascends
<1>5. f \in CallFrame
  BY <1>1, <1>2 DEF CallFrame
<1>6. Collects(f, t, fetchAll, dropped)
  BY <1>0, <1>1, <1>2, <1>3, <1>4 DEF Collects, Task, TaskEvents
<1>7. f.half = 0 /\ f.start = start /\ f.end = end
  BY <1>1
<1>8. QED
  BY <1>0, <1>5, <1>6, <1>7

\* What a page holds, and the events collected with it.
PageJoined(f, page, events) ==
  /\ page \in Seq(EventNumbers)
  /\ Range(page) \subseteq InEvents(f.start, f.end, f.cursor)
  /\ LeavesNoGap(Range(page), InEvents(f.start, f.end, f.cursor))
  /\ page = <<>> => InEvents(f.start, f.end, f.cursor) = {}
  /\ page # <<>> => Last(page) \in Range(page)
  /\ page # <<>> => \A x \in Range(page) : x <= Last(page)
  /\ events \in Seq(EventNumbers) /\ Ascends(events)
  /\ Range(events) = Range(f.events) \cup Range(page)
  /\ Range(events) \subseteq InEvents(f.start, f.end, NoToken)
  /\ events = <<>> => f.events = <<>> /\ page = <<>>
  /\ f.events = <<>> => events = page

\* The events of a page come behind those collected.
LEMMA PageJoins ==
  ASSUME NEW f \in CallFrame, NEW t, NEW fetchAll, NEW dropped,
         Collects(f, t, fetchAll, dropped), NEW limit \in Nat \ {0},
         NEW page, page = PageOf(f.start, f.end, f.cursor, limit),
         NEW events, events = f.events \o page
  PROVE  PageJoined(f, page, events)
<1>1. /\ f.start \in Nat /\ f.end \in Nat /\ f.cursor \in EventCursors
      /\ f.events \in Seq(EventNumbers)
  BY DEF CallFrame
<1>2. EventCursors \subseteq Nat /\ EventNumbers \subseteq Nat
  BY RangeNumbers DEF EventCursors
<1>3. /\ f.start \in Nat /\ f.end \in Nat /\ f.cursor \in Nat /\ limit \in Nat \ {0}
      /\ page = PageOf(f.start, f.end, f.cursor, limit)
  BY <1>1, <1>2
<1>4. page \in Seq(EventNumbers) /\ Ascends(page)
  BY ONLY <1>3, PageHolds
<1>5. Range(page) \subseteq InEvents(f.start, f.end, f.cursor)
  BY ONLY <1>3, PageHolds
<1>6. LeavesNoGap(Range(page), InEvents(f.start, f.end, f.cursor))
  BY ONLY <1>3, PageHolds
<1>7. page = <<>> => InEvents(f.start, f.end, f.cursor) = {}
  BY ONLY <1>3, PageHolds
<1>8. page # <<>> => Last(page) \in Range(page)
  BY <1>4, LastIsGreatest
<1>9. page # <<>> => \A x \in Range(page) : x <= Last(page)
  BY <1>4, LastIsGreatest
<1>10. /\ Ascends(f.events) /\ Range(f.events) \subseteq InEvents(f.start, f.end, NoToken)
       /\ \A x \in Range(f.events) : x <= f.cursor
  BY DEF Collects
<1>11. \A x \in Range(f.events), y \in Range(page) : x < y
  <2> SUFFICES ASSUME NEW x \in Range(f.events), NEW y \in Range(page) PROVE x < y
    OBVIOUS
  <2>1. x <= f.cursor /\ x \in Nat
    BY <1>2, <1>10 DEF InEvents
  <2>2. y > f.cursor /\ y \in Nat
    BY <1>2, <1>5 DEF InEvents
  <2>3. QED
    BY <1>3, <2>1, <2>2
<1>12. /\ events \in Seq(EventNumbers) /\ Ascends(events)
       /\ Range(events) = Range(f.events) \cup Range(page)
  BY <1>1, <1>4, <1>10, <1>11, ListsJoin
<1>13. Range(events) \subseteq InEvents(f.start, f.end, NoToken)
  <2>1. \A x \in InEvents(f.start, f.end, f.cursor) : x \in InEvents(f.start, f.end, NoToken)
    BY <1>2, <1>3 DEF InEvents, NoToken
  <2>2. QED
    BY <1>5, <1>10, <1>12, <2>1
<1>14. events = <<>> => f.events = <<>> /\ page = <<>>
  <2> SUFFICES ASSUME events = <<>> PROVE f.events = <<>> /\ page = <<>>
    OBVIOUS
  <2>1. f.events \in Seq(EventNumbers) /\ page \in Seq(EventNumbers) /\ f.events \o page = <<>>
    BY <1>1, <1>4
  <2>2. QED
    BY ONLY <2>1
<1>15. f.events = <<>> => events = page
  <2>1. page \in Seq(EventNumbers) /\ events = f.events \o page
    BY <1>4
  <2>2. QED
    BY ONLY <2>1
<1>16. QED
  BY <1>4, <1>5, <1>6, <1>7, <1>8, <1>9, <1>12, <1>13, <1>14, <1>15, Zenon DEF PageJoined

\* The token of a page
ComesWith(token, page, cursor) ==
  token \in IF page = <<>> THEN {cursor, NoToken} ELSE {Last(page)}

\* The call when a page is followed by another
FollowedBy(f, events, token, seen) ==
  [f EXCEPT !.events = events, !.cursor = token, !.seen = seen]

CollectingFrame(f, t, fetchAll, dropped) ==
  f \in CallFrame /\ Collects(f, t, fetchAll, dropped)

\* A page that is followed by another adds its events to those collected.
LEMMA PageCollected ==
  ASSUME NEW f \in CallFrame, NEW t, NEW fetchAll \in BOOLEAN, NEW dropped \in BOOLEAN,
         Collects(f, t, fetchAll, dropped), f.half = 0, fetchAll,
         NEW limit \in Nat \ {0}, NEW page, page = PageOf(f.start, f.end, f.cursor, limit),
         NEW token, ComesWith(token, page, f.cursor),
         token # NoToken, NEW events, events = f.events \o page, NEW seen,
         seen = f.seen \cup {token},
         NEW g, g = FollowedBy(f, events, token, seen)
  PROVE  CollectingFrame(g, t, fetchAll, dropped)
<1>0. PageJoined(f, page, events)
  BY PageJoins
<1>1. /\ f.start \in Nat /\ f.end \in Nat /\ f.cursor \in EventCursors
      /\ f.events \in Seq(EventNumbers) /\ f.seen \in SUBSET Nat
      /\ f.first \in [events : Seq(EventNumbers), token : EventCursors]
  BY DEF CallFrame
<1>2. /\ EventCursors \subseteq Nat /\ EventNumbers \subseteq EventCursors
      /\ EventNumbers \subseteq Nat
  BY RangeNumbers DEF EventCursors, EventNumbers
<1>3. /\ page \in Seq(EventNumbers)
      /\ Range(page) \subseteq InEvents(f.start, f.end, f.cursor)
      /\ LeavesNoGap(Range(page), InEvents(f.start, f.end, f.cursor))
      /\ page = <<>> => InEvents(f.start, f.end, f.cursor) = {}
      /\ page # <<>> => Last(page) \in Range(page)
      /\ page # <<>> => \A x \in Range(page) : x <= Last(page)
  BY <1>0 DEF PageJoined
<1>4. /\ events \in Seq(EventNumbers) /\ Ascends(events)
      /\ Range(events) = Range(f.events) \cup Range(page)
      /\ Range(events) \subseteq InEvents(f.start, f.end, NoToken)
      /\ events = <<>> => f.events = <<>> /\ page = <<>>
  BY <1>0 DEF PageJoined
<1>5. /\ g.start = f.start /\ g.end = f.end /\ g.cursor = token /\ g.events = events
      /\ g.seen = seen /\ g.half = 0 /\ g.first = f.first
      /\ g = [start |-> f.start, end |-> f.end, cursor |-> token, events |-> events,
              seen |-> seen, half |-> 0, first |-> f.first]
  BY DEF CallFrame, FollowedBy
<1>6. token \in EventCursors /\ f.cursor <= token /\ \A x \in Range(page) : x <= token
  <2>1. CASE page = <<>>
    <3>1. token = f.cursor /\ Range(page) = {}
      BY <1>3, <2>1 DEF ComesWith
    <3>2. token \in EventCursors /\ f.cursor \in Nat
      BY <1>1, <1>2, <3>1
    <3>3. f.cursor <= token
      BY <3>1, <3>2
    <3>4. QED
      BY <3>1, <3>2, <3>3
  <2>2. CASE page # <<>>
    <3>1. token = Last(page) /\ token \in InEvents(f.start, f.end, f.cursor)
      BY <1>3, <2>2 DEF ComesWith
    <3>2. token \in EventCursors /\ token > f.cursor /\ token \in Nat /\ f.cursor \in Nat
      BY <1>1, <1>2, <3>1 DEF InEvents
    <3>3. f.cursor <= token
      BY <3>2
    <3>4. \A x \in Range(page) : x <= token
      BY <1>3, <2>2, <3>1
    <3>5. QED
      BY <3>2, <3>3, <3>4
  <2>3. QED
    BY <2>1, <2>2
<1>7. /\ \A x \in Range(f.events) \cup f.seen : x <= f.cursor
      /\ f.start = t.start /\ f.end = t.end
      /\ TaskEvents(t) \subseteq Range(f.events) \cup InEvents(f.start, f.end, f.cursor)
      /\ f.events = <<>> => f.cursor = t.cursor
  BY DEF Collects
<1>8. seen \in SUBSET Nat
  BY <1>1, <1>2, <1>6
<1>9. g \in CallFrame
  BY <1>1, <1>4, <1>5, <1>6, <1>8 DEF CallFrame
<1>10. TaskEvents(t) \subseteq Range(events) \cup InEvents(f.start, f.end, token)
  <2> SUFFICES ASSUME NEW x \in TaskEvents(t), x \notin Range(events)
               PROVE  x \in InEvents(f.start, f.end, token)
    OBVIOUS
  <2>1. x \in InEvents(f.start, f.end, f.cursor) /\ x \notin Range(page)
    BY <1>4, <1>7
  <2>2. page # <<>> /\ token = Last(page) /\ token \in Range(page)
    BY <1>3, <2>1 DEF ComesWith
  <2>3. ~(x <= token)
    BY <1>3, <2>1, <2>2 DEF LeavesNoGap
  <2>4. QED
    BY <1>2, <1>6, <2>1, <2>3 DEF InEvents
<1>11. \A x \in Range(events) \cup seen : x <= token
  <2> SUFFICES ASSUME NEW x \in Range(events) \cup seen PROVE x <= token
    OBVIOUS
  <2>1. x \in Range(f.events) \cup f.seen \/ x \in Range(page) \/ x = token
    BY <1>4
  <2>2. x \in Nat
    BY <1>2, <1>4, <1>8 DEF InEvents
  <2>3. token \in Nat /\ f.cursor \in Nat
    BY <1>1, <1>2, <1>6
  <2>4. CASE x \in Range(f.events) \cup f.seen
    BY <1>6, <1>7, <2>2, <2>3, <2>4
  <2>5. CASE x \in Range(page) \/ x = token
    BY <1>6, <2>3, <2>5
  <2>6. QED
    BY <2>1, <2>4, <2>5
<1>12. events = <<>> => token = t.cursor
  BY <1>4, <1>7 DEF ComesWith
<1>13. Collects(g, t, fetchAll, dropped)
  <2>1. g.start = t.start /\ g.end = t.end /\ Ascends(g.events)
    BY <1>4, <1>5, <1>7
  <2>2. Range(g.events) \subseteq InEvents(g.start, g.end, NoToken)
    BY <1>4, <1>5
  <2>3. TaskEvents(t) \subseteq Range(g.events) \cup InEvents(g.start, g.end, g.cursor)
    BY <1>5, <1>10
  <2>4. \A x \in Range(g.events) \cup g.seen : x <= g.cursor
    BY <1>5, <1>11
  <2>5. g.events = <<>> => g.cursor = t.cursor
    BY <1>5, <1>12
  <2>6. g.half = 0
    BY <1>5
  <2>7. ~(g.half # 0) /\ g.half # 2
    BY ONLY <2>6
  <2>8. QED
    BY <2>1, <2>2, <2>3, <2>4, <2>5, <2>7, Zenon DEF Collects
<1>14. QED
  BY <1>9, <1>13 DEF CollectingFrame

\* A page that is not followed by another completes what the call is for.
LEMMA PageServes ==
  ASSUME NEW f \in CallFrame, NEW t, NEW fetchAll \in BOOLEAN, NEW dropped \in BOOLEAN,
         Collects(f, t, fetchAll, dropped),
         NEW limit \in Nat \ {0}, NEW page, page = PageOf(f.start, f.end, f.cursor, limit),
         NEW token, ComesWith(token, page, f.cursor),
         ~(fetchAll /\ token # NoToken /\ token \notin f.seen),
         NEW events, events = f.events \o page
  PROVE  Serves(events, token, t, fetchAll, dropped)
<1>0. PageJoined(f, page, events)
  BY PageJoins
<1>1. /\ f.start \in Nat /\ f.end \in Nat /\ f.cursor \in EventCursors
      /\ f.events \in Seq(EventNumbers) /\ f.seen \in SUBSET Nat
  BY DEF CallFrame
<1>2. /\ EventCursors \subseteq Nat /\ EventNumbers \subseteq EventCursors
      /\ EventNumbers \subseteq Nat /\ NoToken \in EventCursors
  BY RangeNumbers DEF EventCursors, EventNumbers, NoToken
<1>3. /\ page \in Seq(EventNumbers)
      /\ Range(page) \subseteq InEvents(f.start, f.end, f.cursor)
      /\ LeavesNoGap(Range(page), InEvents(f.start, f.end, f.cursor))
      /\ page = <<>> => InEvents(f.start, f.end, f.cursor) = {}
      /\ page # <<>> => Last(page) \in Range(page)
      /\ page # <<>> => \A x \in Range(page) : x <= Last(page)
  BY <1>0 DEF PageJoined
<1>4. /\ events \in Seq(EventNumbers) /\ Ascends(events)
      /\ Range(events) = Range(f.events) \cup Range(page)
      /\ Range(events) \subseteq InEvents(f.start, f.end, NoToken)
      /\ f.events = <<>> => events = page
  BY <1>0 DEF PageJoined
<1>5. /\ \A x \in f.seen : x <= f.cursor
      /\ f.start = t.start /\ f.end = t.end
      /\ TaskEvents(t) \subseteq Range(f.events) \cup InEvents(f.start, f.end, f.cursor)
      /\ f.events = <<>> => f.cursor = t.cursor
      /\ ~fetchAll => f.events = <<>>
  BY DEF Collects
<1>6. page # <<>> => token = Last(page) /\ token \in InEvents(f.start, f.end, f.cursor)
  BY <1>3 DEF ComesWith
<1>7. token \in EventCursors
  <2>1. CASE page = <<>>
    BY <1>1, <1>2, <2>1 DEF ComesWith
  <2>2. CASE page # <<>>
    BY <1>2, <1>6, <2>2 DEF InEvents
  <2>3. QED
    BY <2>1, <2>2
<1>8. ASSUME fetchAll PROVE TaskEvents(t) \subseteq Range(events)
  <2>1. page = <<>>
    <3> SUFFICES ASSUME page # <<>> PROVE FALSE
      OBVIOUS
    <3>1. token \in Nat /\ token > f.cursor
      BY <1>2, <1>6 DEF InEvents
    <3>2. f.cursor \in Nat
      BY <1>1, <1>2
    <3>3. token # NoToken
      BY <3>1, <3>2 DEF NoToken
    <3>4. token \notin f.seen
      BY <1>5, <3>1, <3>2
    <3>5. QED
      BY <1>8, <3>3, <3>4
  <2>2. QED
    BY <1>3, <1>4, <1>5, <2>1
<1>9. ASSUME ~fetchAll
      PROVE  /\ Range(events) \subseteq TaskEvents(t)
             /\ LeavesNoGap(Range(events), TaskEvents(t))
             /\ token \in Range(events) \/ token <= t.cursor
  <2>1. events = page /\ TaskEvents(t) = InEvents(f.start, f.end, f.cursor)
    BY <1>4, <1>5, <1>9 DEF TaskEvents
  <2>2. token \in Range(events) \/ token <= t.cursor
    <3>1. CASE page = <<>>
      <4>1. f.cursor \in Nat /\ f.cursor = t.cursor /\ (token = f.cursor \/ token = 0)
        BY <1>1, <1>2, <1>5, <1>9, <3>1 DEF NoToken, ComesWith
      <4>2. QED
        BY <4>1
    <3>2. CASE page # <<>>
      BY <1>3, <1>6, <2>1, <3>2
    <3>3. QED
      BY <3>1, <3>2
  <2>3. QED
    BY <1>3, <2>1, <2>2
<1>10. Range(events) \subseteq InEvents(t.start, t.end, NoToken)
  BY <1>4, <1>5
<1>11. QED
  BY <1>4, <1>7, <1>8, <1>9, <1>10, Zenon DEF Serves

\* The events of the two halves of a range
LEMMA HalvesHold ==
  ASSUME NEW start \in Nat, NEW end \in Nat, start < end, NEW mid, mid = (start + end) \div 2,
         NEW cursor \in Nat
  PROVE  /\ InEvents(start, mid, cursor) \subseteq InEvents(start, end, cursor)
         /\ InEvents(mid + 1, end, cursor) \subseteq InEvents(start, end, cursor)
         /\ InEvents(start, end, cursor) =
              InEvents(start, mid, cursor) \cup InEvents(mid + 1, end, cursor)
         /\ \A x \in InEvents(start, mid, NoToken), y \in InEvents(mid + 1, end, NoToken) : x < y
         /\ \A x \in InEvents(start, end, cursor), y \in InEvents(start, mid, cursor) :
              x <= y => x \in InEvents(start, mid, cursor)
<1>1. mid \in Nat /\ start <= mid /\ mid + 1 <= end
  BY MidpointBetween
<1>2. /\ EventNumbers \subseteq Nat /\ \A i \in EventNumbers : LedgerOf[i] \in Nat
      /\ \A i, j \in EventNumbers : i <= j => LedgerOf[i] <= LedgerOf[j]
  BY RangeNumbers
<1>3. \A n \in Nat : n \in start..end <=> n \in start..mid \/ n \in (mid + 1)..end
  BY <1>1
<1>4. ASSUME NEW x
      PROVE  x \in InEvents(start, end, cursor) <=>
               x \in InEvents(start, mid, cursor) \/ x \in InEvents(mid + 1, end, cursor)
  BY <1>2, <1>3 DEF InEvents
<1>5. ASSUME NEW x \in InEvents(start, mid, NoToken), NEW y \in InEvents(mid + 1, end, NoToken)
      PROVE  x < y
  <2>1. /\ x \in EventNumbers /\ y \in EventNumbers /\ LedgerOf[x] <= mid
        /\ mid + 1 <= LedgerOf[y]
    BY <1>1, <1>2 DEF InEvents
  <2>2. x \in Nat /\ y \in Nat /\ LedgerOf[x] \in Nat /\ LedgerOf[y] \in Nat
    BY <1>2, <2>1
  <2>3. ~(y <= x)
    <3>1. ~(LedgerOf[y] <= LedgerOf[x])
      BY <1>1, <2>1, <2>2
    <3>2. QED
      BY <1>2, <2>1, <3>1
  <2>4. QED
    BY <2>2, <2>3
<1>6. ASSUME NEW x \in InEvents(start, end, cursor), NEW y \in InEvents(start, mid, cursor), x <= y
      PROVE  x \in InEvents(start, mid, cursor)
  <2>1. /\ x \in EventNumbers /\ y \in EventNumbers /\ x > cursor /\ start <= LedgerOf[x]
        /\ LedgerOf[y] <= mid
    BY <1>1, <1>2 DEF InEvents
  <2>2. LedgerOf[x] <= LedgerOf[y] /\ LedgerOf[x] \in Nat /\ LedgerOf[y] \in Nat
    BY <1>2, <1>6, <2>1
  <2>3. LedgerOf[x] \in start..mid
    BY <1>1, <2>1, <2>2
  <2>4. QED
    BY <2>1, <2>3 DEF InEvents
<1>7. QED
  BY <1>4, <1>5, <1>6

\* Of a range that is not read to its end, the first half is all that is given.
LEMMA FirstHalfServes ==
  ASSUME NEW f \in CallFrame, NEW t, NEW dropped \in BOOLEAN,
         Collects(f, t, FALSE, dropped), f.half = 1, NEW events, NEW token,
         Serves(events, token, HalfTask(f), FALSE, dropped)
  PROVE  Serves(events, token, t, FALSE, dropped)
<1>1. PICK start \in Nat, end \in Nat, cursor \in Nat :
        start = f.start /\ end = f.end /\ cursor = f.cursor
  BY RangeNumbers DEF CallFrame, EventCursors
<1>2. PICK mid : mid = (start + end) \div 2
  OBVIOUS
<1>3. start < end /\ t.start = start /\ t.end = end /\ t.cursor = cursor
  <2>1. f.half # 0
    OBVIOUS
  <2>2. QED
    BY <1>1, <2>1 DEF Collects
<1>4. HalfTask(f) = [start |-> start, end |-> mid, cursor |-> cursor]
  BY <1>1, <1>2 DEF HalfTask, Task, Midpoint
<1>5. /\ events \in Seq(EventNumbers) /\ token \in EventCursors /\ Ascends(events)
      /\ Range(events) \subseteq InEvents(start, mid, NoToken)
      /\ Range(events) \subseteq InEvents(start, mid, cursor)
      /\ LeavesNoGap(Range(events), InEvents(start, mid, cursor))
      /\ token \in Range(events) \/ token <= cursor
  BY <1>4 DEF Serves, TaskEvents
<1>6. TaskEvents(t) = InEvents(start, end, cursor)
  BY <1>3 DEF TaskEvents
<1>7. /\ InEvents(start, mid, NoToken) \subseteq InEvents(start, end, NoToken)
      /\ InEvents(start, mid, cursor) \subseteq InEvents(start, end, cursor)
      /\ \A x \in InEvents(start, end, cursor), y \in InEvents(start, mid, cursor) :
           x <= y => x \in InEvents(start, mid, cursor)
  <2>1. NoToken \in Nat
    BY DEF NoToken
  <2>2. InEvents(start, mid, NoToken) \subseteq InEvents(start, end, NoToken)
    BY <1>1, <1>2, <1>3, <2>1, HalvesHold
  <2>3. InEvents(start, mid, cursor) \subseteq InEvents(start, end, cursor)
    BY <1>1, <1>2, <1>3, HalvesHold
  <2>4. \A x \in InEvents(start, end, cursor), y \in InEvents(start, mid, cursor) :
           x <= y => x \in InEvents(start, mid, cursor)
    BY <1>1, <1>2, <1>3, HalvesHold
  <2>5. QED
    BY <2>2, <2>3, <2>4
<1>8. LeavesNoGap(Range(events), InEvents(start, end, cursor))
  BY <1>5, <1>7 DEF LeavesNoGap
<1>9. QED
  BY <1>3, <1>5, <1>6, <1>7, <1>8 DEF Serves

\* Of a range that is read to its end, the halves together give what is asked.
LEMMA HalvesServe ==
  ASSUME NEW f \in CallFrame, NEW t, NEW dropped \in BOOLEAN,
         Collects(f, t, TRUE, dropped), f.half = 2, NEW second, NEW token,
         Serves(second, token, HalfTask(f), TRUE, dropped),
         NEW both, both = f.first.events \o second,
         NEW last \in {token, f.first.token}
  PROVE  Serves(both, last, t, TRUE, dropped)
<1>1. PICK start \in Nat, end \in Nat, cursor \in Nat, first \in Seq(EventNumbers) :
        /\ start = f.start /\ end = f.end /\ cursor = f.cursor
        /\ first = f.first.events /\ f.first.token \in EventCursors
  <2>1. /\ f.start \in Nat /\ f.end \in Nat /\ f.cursor \in EventCursors
        /\ f.first.events \in Seq(EventNumbers) /\ f.first.token \in EventCursors
    BY DEF CallFrame
  <2>2. f.cursor \in Nat
    BY <2>1, RangeNumbers DEF EventCursors
  <2>3. QED
    BY <2>1, <2>2
<1>2. PICK mid : mid = (start + end) \div 2
  OBVIOUS
<1>3. /\ start < end /\ t.start = start /\ t.end = end
      /\ ~dropped => t.cursor = cursor
      /\ Serves(f.first.events, f.first.token, Task(f.start, Midpoint(f), f.cursor), TRUE, dropped)
  <2>1. f.half # 0
    OBVIOUS
  <2>2. QED
    BY <1>1, <2>1 DEF Collects
<1>4. /\ HalfTask(f) = [start |-> mid + 1, end |-> end, cursor |-> 0]
      /\ Task(f.start, Midpoint(f), f.cursor) = [start |-> start, end |-> mid, cursor |-> cursor]
  BY <1>1, <1>2 DEF HalfTask, Task, Midpoint, NoToken
<1>5. /\ Ascends(first) /\ Range(first) \subseteq InEvents(start, mid, 0)
      /\ ~dropped => InEvents(start, mid, cursor) \subseteq Range(first)
  BY <1>1, <1>3, <1>4 DEF Serves, TaskEvents, NoToken
<1>6. /\ second \in Seq(EventNumbers) /\ token \in EventCursors
      /\ Ascends(second) /\ Range(second) \subseteq InEvents(mid + 1, end, 0)
      /\ ~dropped => InEvents(mid + 1, end, 0) \subseteq Range(second)
  BY <1>4 DEF Serves, TaskEvents, NoToken
<1>7. /\ InEvents(start, end, 0) = InEvents(start, mid, 0) \cup InEvents(mid + 1, end, 0)
      /\ InEvents(start, end, cursor) =
           InEvents(start, mid, cursor) \cup InEvents(mid + 1, end, cursor)
      /\ \A x \in InEvents(start, mid, 0), y \in InEvents(mid + 1, end, 0) : x < y
  <2>1. 0 \in Nat
    OBVIOUS
  <2>2. InEvents(start, end, 0) = InEvents(start, mid, 0) \cup InEvents(mid + 1, end, 0)
    BY <1>2, <1>3, <2>1, HalvesHold
  <2>3. InEvents(start, end, cursor) =
           InEvents(start, mid, cursor) \cup InEvents(mid + 1, end, cursor)
    BY <1>2, <1>3, HalvesHold
  <2>4. \A x \in InEvents(start, mid, 0), y \in InEvents(mid + 1, end, 0) : x < y
    BY <1>2, <1>3, <2>1, HalvesHold DEF NoToken
  <2>5. QED
    BY <2>2, <2>3, <2>4
<1>8. InEvents(mid + 1, end, cursor) \subseteq InEvents(mid + 1, end, 0)
  BY RangeNumbers DEF InEvents
<1>9. both = first \o second
  BY <1>1
<1>10. \A x \in Range(first), y \in Range(second) : x < y
  BY <1>5, <1>6, <1>7
<1>11. both \in Seq(EventNumbers) /\ Ascends(both) /\ Range(both) = Range(first) \cup Range(second)
  BY <1>5, <1>6, <1>9, <1>10, ListsJoin
<1>12. Range(both) \subseteq InEvents(start, end, 0)
  BY <1>5, <1>6, <1>7, <1>11
<1>13. ~dropped => TaskEvents(t) \subseteq Range(both)
  <2> SUFFICES ASSUME ~dropped PROVE TaskEvents(t) \subseteq Range(both)
    OBVIOUS
  <2>1. TaskEvents(t) = InEvents(start, end, cursor)
    BY <1>3 DEF TaskEvents
  <2>2. QED
    BY <1>5, <1>6, <1>7, <1>8, <1>11, <2>1
<1>14. last \in EventCursors
  BY <1>1, <1>6
<1>15. QED
  BY <1>3, <1>11, <1>12, <1>13, <1>14 DEF Serves, NoToken

\* A call that has turned to the first of its halves, and to the second.
TurnedToFirst(f) == [f EXCEPT !.half = 1]
TurnedToSecond(f, first) == [f EXCEPT !.half = 2, !.first = first]
FirstHalf(f) == Halves(f)[1]
SecondHalf(f) == Halves(f)[2]

\* A call turns to the first of its halves.
LEMMA HalfBegins ==
  ASSUME NEW f \in CallFrame, NEW t, NEW fetchAll \in BOOLEAN, NEW dropped \in BOOLEAN,
         Collects(f, t, fetchAll, dropped), f.half = 0, f.start < f.end,
         NEW dropped2 \in BOOLEAN, dropped => dropped2, f.events # <<>> => dropped2,
         NEW g, g = TurnedToFirst(f)
  PROVE  /\ g \in CallFrame /\ Collects(g, t, fetchAll, dropped2) /\ g.half = 1
         /\ g.start = f.start /\ g.end = f.end
<1>1. /\ f.start \in Nat /\ f.end \in Nat /\ f.cursor \in EventCursors
      /\ f.events \in Seq(EventNumbers)
  BY DEF CallFrame
<1>2. /\ g.start = f.start /\ g.end = f.end /\ g.cursor = f.cursor /\ g.events = f.events
      /\ g.seen = f.seen /\ g.half = 1
      /\ g = [start |-> f.start, end |-> f.end, cursor |-> f.cursor, events |-> f.events,
              seen |-> f.seen, half |-> 1, first |-> f.first]
  BY DEF CallFrame, TurnedToFirst
<1>3. g \in CallFrame
  BY <1>2 DEF CallFrame
<1>4. Collects(f, t, fetchAll, dropped2)
  BY CollectsStill
<1>5. ~dropped2 => f.events = <<>>
  OBVIOUS
<1>6. Collects(g, t, fetchAll, dropped2)
  <2>1. g.start = t.start /\ g.end = t.end /\ Ascends(g.events)
    BY <1>2, <1>4 DEF Collects
  <2>2. Range(g.events) \subseteq InEvents(g.start, g.end, NoToken)
    BY <1>2, <1>4 DEF Collects
  <2>3. TaskEvents(t) \subseteq Range(g.events) \cup InEvents(g.start, g.end, g.cursor)
    BY <1>2, <1>4 DEF Collects
  <2>4. \A x \in Range(g.events) \cup g.seen : x <= g.cursor
    BY <1>2, <1>4 DEF Collects
  <2>5. (g.events = <<>> => g.cursor = t.cursor) /\ (~fetchAll => g.events = <<>>)
    BY <1>2, <1>4 DEF Collects
  <2>6. g.start < g.end /\ (~dropped2 => g.events = <<>>) /\ g.half # 2
    BY <1>2, <1>5
  <2>7. QED
    BY <2>1, <2>2, <2>3, <2>4, <2>5, <2>6, Zenon DEF Collects
<1>7. QED
  BY <1>2, <1>3, <1>6

\* The call for the half that it turns to.
LEMMA FirstHalfBegins ==
  ASSUME NEW f \in CallFrame, f.start < f.end,
         NEW fetchAll \in BOOLEAN, NEW dropped2 \in BOOLEAN,
         NEW g, g = TurnedToFirst(f), NEW h, h = FirstHalf(f)
  PROVE  /\ h \in CallFrame /\ Collects(h, HalfTask(g), fetchAll, dropped2) /\ h.half = 0
         /\ h.start = f.start /\ f.start <= h.end /\ h.end <= f.end
<1>1. /\ f.start \in Nat /\ f.end \in Nat /\ f.cursor \in EventCursors
  BY DEF CallFrame
<1>2. g.start = f.start /\ g.end = f.end /\ g.cursor = f.cursor /\ g.half = 1
  BY DEF CallFrame, TurnedToFirst
<1>3. PICK mid : mid = (f.start + f.end) \div 2
  OBVIOUS
<1>8. mid \in Nat /\ f.start <= mid /\ mid + 1 <= f.end
  BY <1>1, <1>3, MidpointBetween
<1>9. h = Frame(f.start, mid, f.cursor)
  BY <1>3 DEF Halves, FirstHalf
<1>10. HalfTask(g) = Task(f.start, mid, f.cursor)
  BY <1>2, <1>3 DEF HalfTask, Midpoint
<1>11. /\ h \in CallFrame /\ Collects(h, HalfTask(g), fetchAll, dropped2)
       /\ h.half = 0 /\ h.start = f.start /\ h.end = mid
  <2>1. PICK s \in Nat, c \in EventCursors : s = f.start /\ c = f.cursor
    BY <1>1
  <2>2. mid \in Nat
    BY <1>8
  <2>3. /\ Frame(s, mid, c) \in CallFrame /\ Frame(s, mid, c).half = 0
        /\ Frame(s, mid, c).start = s /\ Frame(s, mid, c).end = mid
    BY <2>2, CallBegins
  <2>4. Collects(Frame(s, mid, c), Task(s, mid, c), fetchAll, dropped2)
    <3>1. PICK d \in BOOLEAN : d = dropped2
      OBVIOUS
    <3>2. Collects(Frame(s, mid, c), Task(s, mid, c), fetchAll, d)
      BY <2>2, CallBegins
    <3>3. QED
      BY <3>1, <3>2
  <2>5. h = Frame(s, mid, c) /\ HalfTask(g) = Task(s, mid, c)
    BY <1>9, <1>10, <2>1
  <2>6. QED
    BY <2>1, <2>3, <2>4, <2>5
<1>12. f.start <= h.end /\ h.end <= f.end
  BY <1>1, <1>8, <1>11
<1>13. QED
  BY <1>11, <1>12

\* Having heard of the first, it turns to the second.
LEMMA SecondHalfBegins ==
  ASSUME NEW f \in CallFrame, NEW t, NEW dropped \in BOOLEAN,
         Collects(f, t, TRUE, dropped), f.half = 1,
         NEW events, NEW token, Serves(events, token, HalfTask(f), TRUE, dropped),
         NEW first, first = [events |-> events, token |-> token],
         NEW g, g = TurnedToSecond(f, first), NEW h, h = SecondHalf(f)
  PROVE  /\ CollectingFrame(g, t, TRUE, dropped) /\ g.half = 2
         /\ g.start = f.start /\ g.end = f.end
         /\ h \in CallFrame /\ Collects(h, HalfTask(g), TRUE, dropped) /\ h.half = 0
         /\ f.start <= h.start /\ h.start <= h.end /\ h.end = f.end
<1>1. /\ f.start \in Nat /\ f.end \in Nat /\ f.cursor \in EventCursors
      /\ f.events \in Seq(EventNumbers)
  BY DEF CallFrame
<1>2. events \in Seq(EventNumbers) /\ token \in EventCursors
  BY DEF Serves
<1>3. first.events = events /\ first.token = token
  OBVIOUS
<1>4. /\ g.start = f.start /\ g.end = f.end /\ g.cursor = f.cursor /\ g.events = f.events
      /\ g.seen = f.seen /\ g.half = 2 /\ g.first = first
      /\ g = [start |-> f.start, end |-> f.end, cursor |-> f.cursor, events |-> f.events,
              seen |-> f.seen, half |-> 2, first |-> first]
  BY DEF CallFrame, TurnedToSecond
<1>5. first \in [events : Seq(EventNumbers), token : EventCursors]
  BY <1>2
<1>6. g \in CallFrame
  BY <1>4, <1>5 DEF CallFrame
<1>7. f.start < f.end
  <2>1. f.half # 0
    OBVIOUS
  <2>2. QED
    BY <2>1 DEF Collects
<1>8. Serves(g.first.events, g.first.token, Task(g.start, Midpoint(g), g.cursor), TRUE, dropped)
  <2>1. HalfTask(f) = Task(g.start, Midpoint(g), g.cursor)
    BY <1>4 DEF HalfTask, Midpoint
  <2>2. g.first.events = events /\ g.first.token = token
    BY <1>3, <1>4
  <2>3. QED
    BY <2>1, <2>2
<1>9. Collects(g, t, TRUE, dropped)
  <2>1. g.start = t.start /\ g.end = t.end /\ Ascends(g.events)
    BY <1>4 DEF Collects
  <2>2. Range(g.events) \subseteq InEvents(g.start, g.end, NoToken)
    BY <1>4 DEF Collects
  <2>3. TaskEvents(t) \subseteq Range(g.events) \cup InEvents(g.start, g.end, g.cursor)
    BY <1>4 DEF Collects
  <2>4. \A x \in Range(g.events) \cup g.seen : x <= g.cursor
    BY <1>4 DEF Collects
  <2>5. g.events = <<>> => g.cursor = t.cursor
    BY <1>4 DEF Collects
  <2>6. g.start < g.end /\ (~dropped => g.events = <<>>)
    <3>1. f.half # 0
      OBVIOUS
    <3>2. QED
      BY <1>4, <1>7, <3>1 DEF Collects
  <2>7. QED
    BY <1>8, <2>1, <2>2, <2>3, <2>4, <2>5, <2>6, Zenon DEF Collects
<1>10. PICK mid : mid = (f.start + f.end) \div 2
  OBVIOUS
<1>11. mid \in Nat /\ f.start <= mid /\ mid + 1 <= f.end /\ mid + 1 \in Nat
  BY <1>1, <1>7, <1>10, MidpointBetween
<1>12. h = Frame(mid + 1, f.end, 0) /\ 0 \in EventCursors
  BY <1>10, RangeNumbers DEF Halves, SecondHalf, NoToken, EventCursors
<1>13. HalfTask(g) = Task(mid + 1, f.end, 0)
  BY <1>4, <1>10 DEF HalfTask, Midpoint, NoToken
<1>14. /\ h \in CallFrame /\ Collects(h, HalfTask(g), TRUE, dropped)
       /\ h.half = 0 /\ h.start = mid + 1 /\ h.end = f.end
  <2>1. PICK s \in Nat, e \in Nat, c \in EventCursors : s = mid + 1 /\ e = f.end /\ c = 0
    BY <1>1, <1>11, <1>12
  <2>2. /\ Frame(s, e, c) \in CallFrame /\ Frame(s, e, c).half = 0
        /\ Frame(s, e, c).start = s /\ Frame(s, e, c).end = e
    BY CallBegins
  <2>3. Collects(Frame(s, e, c), Task(s, e, c), TRUE, dropped)
    <3>1. TRUE \in BOOLEAN /\ dropped \in BOOLEAN
      OBVIOUS
    <3>2. QED
      BY <3>1, CallBegins, ZenonT(20)
  <2>4. h = Frame(s, e, c) /\ HalfTask(g) = Task(s, e, c)
    BY <1>12, <1>13, <2>1
  <2>5. QED
    BY <2>1, <2>2, <2>3, <2>4
<1>15. f.start <= h.start /\ h.start <= h.end
  BY <1>1, <1>11, <1>14
<1>16. CollectingFrame(g, t, TRUE, dropped)
  BY <1>6, <1>9 DEF CollectingFrame
<1>17. QED
  BY <1>4, <1>14, <1>15, <1>16

-----------------------------------------------------------------------------
(* EventRange: the invariant *)

LEMMA RangeInvInit == RangeInit => RangeIInv
<1> SUFFICES ASSUME RangeInit PROVE RangeIInv
  OBVIOUS
<1>1. 0 \in EventCursors /\ <<>> \in Seq(EventNumbers) /\ <<>> \in Seq(CallFrame)
  BY RangeNumbers DEF EventCursors
<1>2. asked \in AskedType /\ asked.start \in 1..asked.end
  BY <1>1 DEF RangeInit, AskedType, NoToken
<1>3. rangeResult \in ResultType /\ rangeResult.status = "none"
  BY <1>1 DEF RangeInit, ResultType, NoToken
<1>4. frames = <<>> /\ Len(frames) = 0 /\ 1..0 = {}
  BY DEF RangeInit
<1>5. QED
  BY <1>1, <1>2, <1>3, <1>4 DEF RangeIInv

\* The frames below the innermost one are as sound as they were.
LEMMA LowerFrames ==
  ASSUME RangeIInv, asked' = asked, Len(frames') \in Nat, rangeResult' \in ResultType,
         rangeResult.dropped => rangeResult'.dropped,
         \A k \in 1..(Len(frames) - 1) : frames'[k] = frames[k],
         Len(frames') >= Len(frames) \/ rangeResult'.status = "given"
  PROVE  /\ \A k \in 1..Len(frames) : TaskOf(k)' = TaskOf(k)
         /\ \A k \in 1..(Len(frames) - 1) : FrameSound(k)'
<1>1. Len(frames) \in Nat
  BY DEF RangeIInv
<1>2. ASSUME NEW k \in 1..Len(frames) PROVE TaskOf(k)' = TaskOf(k)
  <2>1. CASE k = 1
    BY <2>1 DEF TaskOf
  <2>2. CASE k # 1
    <3>1. k - 1 \in 1..(Len(frames) - 1)
      BY <1>1, <2>2
    <3>2. frames'[k - 1] = frames[k - 1]
      BY <3>1
    <3>3. QED
      BY <2>2, <3>2 DEF TaskOf
  <2>3. QED
    BY <2>1, <2>2
<1>3. ASSUME NEW k \in 1..(Len(frames) - 1) PROVE FrameSound(k)'
  <2>1. k \in 1..Len(frames) /\ k # Len(frames)
    BY <1>1
  <2>2. FrameSound(k) /\ asked \in AskedType /\ rangeResult \in ResultType
    BY <2>1 DEF RangeIInv
  <2>3. frames'[k] = frames[k] /\ TaskOf(k)' = TaskOf(k)
    BY <1>2, <2>1
  <2>4. /\ asked.fetchAll \in BOOLEAN /\ rangeResult.dropped \in BOOLEAN
        /\ rangeResult'.dropped \in BOOLEAN
    BY <2>2 DEF AskedType, ResultType
  <2>5. Collects(frames[k], TaskOf(k), asked.fetchAll, rangeResult'.dropped)
    <3>1. Collects(frames[k], TaskOf(k), asked.fetchAll, rangeResult.dropped)
      BY <2>2 DEF FrameSound
    <3> QED
      BY <2>4, <3>1, CollectsStill
  <2>6. frames[k].half # 0
    BY <2>1, <2>2 DEF FrameSound
  <2>7. ~(k = Len(frames') /\ rangeResult'.status # "given")
    BY <1>1, <2>1
  <2>8. frames[k].start \in asked.start..frames[k].end /\ frames[k].end <= asked.end
    BY <2>2 DEF FrameSound
  <2>9. QED
    BY <2>3, <2>5, <2>6, <2>7, <2>8 DEF FrameSound
<1>4. QED
  BY <1>2, <1>3

\* What the innermost call is, and what the steps on it begin with.
LEMMA TopCall ==
  ASSUME RangeIInv, frames # <<>>
  PROVE  /\ Len(frames) \in Nat /\ Len(frames) \in 1..Len(frames) /\ Top = frames[Len(frames)]
         /\ Top \in CallFrame
         /\ Collects(Top, TaskOf(Len(frames)), asked.fetchAll, rangeResult.dropped)
         /\ Top.start \in asked.start..Top.end /\ Top.end <= asked.end
         /\ Top.half = 0 <=> rangeResult.status # "given"
         /\ asked.limit \in Nat \ {0} /\ asked.fetchAll \in BOOLEAN
         /\ asked.start \in Nat /\ asked.end \in Nat
         /\ rangeResult.dropped \in BOOLEAN /\ rangeResult.status \in {"none", "given"}
<1>1. frames \in Seq(CallFrame) /\ asked \in AskedType /\ rangeResult \in ResultType
  BY DEF RangeIInv
<1>2. Len(frames) \in Nat /\ Len(frames) \in 1..Len(frames) /\ Top = frames[Len(frames)]
  BY <1>1 DEF Top
<1>3. Top \in CallFrame
  BY <1>1, <1>2, ListElement
<1>4. FrameSound(Len(frames))
  BY <1>2 DEF RangeIInv
<1>5. /\ asked.limit \in Nat \ {0} /\ asked.fetchAll \in BOOLEAN
      /\ asked.start \in Nat /\ asked.end \in Nat /\ rangeResult.dropped \in BOOLEAN
  BY <1>1 DEF AskedType, ResultType
<1>6. rangeResult.status \in {"none", "given"}
  BY <1>1 DEF RangeIInv, ResultType
<1>7. /\ Collects(Top, TaskOf(Len(frames)), asked.fetchAll, rangeResult.dropped)
      /\ Top.start \in asked.start..Top.end /\ Top.end <= asked.end
      /\ Top.half = 0 <=> rangeResult.status # "given"
  BY <1>2, <1>4 DEF FrameSound
<1>8. QED
  BY <1>2, <1>3, <1>5, <1>6, <1>7

\* The innermost call has returned: to the one below it, or to the application.
LEMMA CallReturns ==
  ASSUME RangeIInv, frames # <<>>, NEW events, NEW token,
         Serves(events, token, TaskOf(Len(frames)), asked.fetchAll, rangeResult.dropped),
         asked' = asked, frames' = Front(frames), rangeResult' = Give(events, token)
  PROVE  RangeIInv'
<1>1. Len(frames) \in Nat /\ Len(frames) \in 1..Len(frames)
  BY TopCall
<1>2. asked \in AskedType /\ asked.start \in 1..asked.end /\ frames \in Seq(CallFrame)
      /\ rangeResult \in ResultType
  BY DEF RangeIInv
<1>3. /\ frames' \in Seq(CallFrame) /\ Len(frames') = Len(frames) - 1
      /\ \A k \in 1..(Len(frames) - 1) : frames'[k] = frames[k]
  <2>1. frames' = SubSeq(frames, 1, Len(frames) - 1)
    BY DEF Front
  <2>2. PICK n \in Nat : n = Len(frames) /\ n - 1 \in Nat /\ n - 1 <= n
    BY <1>1
  <2>3. frames' = SubSeq(frames, 1, n - 1)
    BY <2>1, <2>2
  <2>4. /\ frames' \in Seq(CallFrame) /\ Len(frames') = n - 1
        /\ \A k \in 1..(n - 1) : frames'[k] = frames[k]
    BY <1>2, <2>2, <2>3
  <2>5. QED
    BY <2>2, <2>4
<1>4. events \in Seq(EventNumbers) /\ token \in EventCursors
  BY DEF Serves
<1>5. /\ rangeResult' \in ResultType /\ rangeResult'.status = "given"
      /\ rangeResult'.events = events /\ rangeResult'.token = token
      /\ rangeResult'.dropped = rangeResult.dropped
  BY <1>2, <1>4 DEF Give, ResultType
<1>6. Len(frames') \in Nat
  BY <1>1, <1>3
<1>7. /\ \A k \in 1..Len(frames) : TaskOf(k)' = TaskOf(k)
      /\ \A k \in 1..(Len(frames) - 1) : FrameSound(k)'
  BY <1>3, <1>5, <1>6, LowerFrames
<1>8. Len(frames') + 1 = Len(frames)
  BY <1>1, <1>3
<1>9. TaskOf(Len(frames) + 1)' = TaskOf(Len(frames))
  BY <1>1, <1>7, <1>8
<1>10. Serves(rangeResult.events, rangeResult.token, TaskOf(Len(frames) + 1),
              asked.fetchAll, rangeResult.dropped)'
  BY <1>5, <1>9
<1>11. QED
  BY <1>2, <1>3, <1>5, <1>7, <1>10 DEF RangeIInv

\* The innermost call has gone on, and made another if it has turned to a half.
LEMMA CallGoesOn ==
  ASSUME RangeIInv, frames # <<>>, asked' = asked, rangeResult' \in ResultType,
         rangeResult.dropped => rangeResult'.dropped, rangeResult'.status = "none",
         NEW g \in CallFrame,
         Collects(g, TaskOf(Len(frames)), asked.fetchAll, rangeResult'.dropped),
         g.start = Top.start, g.end = Top.end,
         \/ frames' = WithTop(g) /\ g.half = 0
         \/ \E h \in CallFrame :
              /\ frames' = Append(WithTop(g), h) /\ g.half # 0 /\ h.half = 0
              /\ Collects(h, HalfTask(g), asked.fetchAll, rangeResult'.dropped)
              /\ Top.start <= h.start /\ h.start <= h.end /\ h.end <= Top.end
  PROVE  RangeIInv'
<1>0. PICK n \in Nat : n = Len(frames)
  BY TopCall
<1>1. n \in Nat /\ n \in 1..n
  BY <1>0, TopCall
<1>2. asked \in AskedType /\ asked.start \in 1..asked.end /\ frames \in Seq(CallFrame)
  BY DEF RangeIInv
<1>3. PICK fs : fs = WithTop(g)
  OBVIOUS
<1>4. fs \in Seq(CallFrame) /\ Len(fs) = n /\ fs[n] = g /\ \A k \in 1..(n - 1) : fs[k] = frames[k]
  BY <1>0, <1>1, <1>2, <1>3 DEF WithTop
<1>5. /\ Top.start \in asked.start..Top.end /\ Top.end <= asked.end
      /\ Top.start \in Nat /\ Top.end \in Nat /\ asked.start \in Nat /\ asked.end \in Nat
  BY TopCall DEF CallFrame
<1>6. \A k \in 1..n : k = n \/ k \in 1..(n - 1)
  BY <1>1
<1>7. CASE frames' = fs /\ g.half = 0
  <2>1. /\ \A k \in 1..n : TaskOf(k)' = TaskOf(k)
        /\ \A k \in 1..(n - 1) : FrameSound(k)'
    BY <1>0, <1>1, <1>4, <1>7, LowerFrames
  <2>2. FrameSound(n)'
    <3>1. TaskOf(n)' = TaskOf(n) /\ frames'[n] = g /\ n = Len(frames')
      BY <1>1, <1>4, <1>7, <2>1
    <3>2. Collects(frames[n], TaskOf(n), asked.fetchAll, rangeResult.dropped)'
      BY <1>0, <3>1
    <3>3. QED
      BY <1>5, <1>7, <3>1, <3>2 DEF FrameSound
  <2>3. \A k \in 1..Len(frames') : FrameSound(k)'
    BY <1>4, <1>6, <1>7, <2>1, <2>2
  <2>4. QED
    BY <1>2, <1>4, <1>7, <2>3 DEF RangeIInv
<1>8. ASSUME NEW h \in CallFrame, frames' = Append(fs, h), g.half # 0, h.half = 0,
             Collects(h, HalfTask(g), asked.fetchAll, rangeResult'.dropped),
             Top.start <= h.start, h.start <= h.end, h.end <= Top.end
      PROVE  RangeIInv'
  <2>1. /\ frames' \in Seq(CallFrame) /\ Len(frames') = n + 1 /\ frames'[n] = g
        /\ frames'[n + 1] = h /\ \A k \in 1..(n - 1) : frames'[k] = frames[k]
    BY <1>1, <1>4, <1>8
  <2>2. /\ \A k \in 1..n : TaskOf(k)' = TaskOf(k)
        /\ \A k \in 1..(n - 1) : FrameSound(k)'
    <3>1. Len(frames') \in Nat /\ Len(frames') >= Len(frames)
      BY <1>0, <1>1, <2>1
    <3>2. QED
      BY <1>0, <2>1, <3>1, LowerFrames
  <2>3. FrameSound(n)'
    <3>1. TaskOf(n)' = TaskOf(n) /\ n # Len(frames')
      BY <1>1, <2>1, <2>2
    <3>2. Collects(frames[n], TaskOf(n), asked.fetchAll, rangeResult.dropped)'
      BY <1>0, <2>1, <3>1
    <3>3. QED
      BY <1>5, <1>8, <2>1, <3>1, <3>2 DEF FrameSound
  <2>4. FrameSound(n + 1)'
    <3>1. TaskOf(n + 1)' = HalfTask(g)
      <4>1. n + 1 # 1 /\ (n + 1) - 1 = n
        BY <1>1
      <4>2. QED
        BY <2>1, <4>1 DEF TaskOf
    <3>2. h.start \in Nat /\ h.end \in Nat
      BY DEF CallFrame
    <3>3. h.start \in asked.start..h.end /\ h.end <= asked.end
      BY <1>5, <1>8, <3>2
    <3>4. Collects(frames[n + 1], TaskOf(n + 1), asked.fetchAll, rangeResult.dropped)'
      BY <1>8, <2>1, <3>1
    <3>5. QED
      BY <1>8, <2>1, <3>3, <3>4 DEF FrameSound
  <2>5. \A k \in 1..Len(frames') : k = n + 1 \/ k = n \/ k \in 1..(n - 1)
    BY <1>1, <2>1
  <2>6. \A k \in 1..Len(frames') : FrameSound(k)'
    BY <2>2, <2>3, <2>4, <2>5
  <2>7. QED
    BY <1>2, <2>1, <2>6 DEF RangeIInv
<1>9. QED
  BY <1>3, <1>7, <1>8

\* A range begins to be read.
LEMMA GetContractEventsKeeps ==
  ASSUME RangeIInv, NEW start \in AskedLedgers \cup {NotGiven},
         NEW end \in AskedLedgers \cup {NotGiven}, NEW rewind \in Rewinds \cup {NotGiven},
         NEW cursor \in 0..Len(LedgerOf), NEW limit \in PageLimits, NEW fetchAll \in BOOLEAN,
         GetContractEvents(start, rewind, end, cursor, limit, fetchAll)
  PROVE  RangeIInv'
<1>1. /\ LatestLedgerNow \in Nat \ {0} /\ PageLimits \subseteq Nat \ {0}
      /\ AskedLedgers \subseteq Nat /\ Rewinds \subseteq Nat
  BY RangeAssumption DEF RangeAssumption
<1>2. PICK e : e = ResolveEnd(end)
  OBVIOUS
<1>3. PICK s : s = ResolveStart(start, rewind, e)
  OBVIOUS
<1>4. e \in Nat \ {0}
  BY <1>1, <1>2 DEF ResolveEnd, Larger, NotGiven
<1>5. s \in Nat \ {0}
  BY <1>1, <1>3, <1>4 DEF ResolveStart, Larger, NotGiven
<1>6. PICK low, high : low = Smaller(s, e) /\ high = Larger(s, e)
  OBVIOUS
<1>7. low \in Nat \ {0} /\ high \in Nat \ {0} /\ low <= high
  BY <1>4, <1>5, <1>6 DEF Smaller, Larger
<1>8. /\ asked' = [start |-> low, end |-> high, cursor |-> cursor,
                   limit |-> limit, fetchAll |-> fetchAll]
      /\ frames' = <<Frame(low, high, cursor)>> /\ rangeResult' = rangeResult
      /\ rangeResult.status = "none" /\ rangeResult \in ResultType
  BY <1>2, <1>3, <1>6 DEF GetContractEvents, RangeIInv
<1>9. asked' \in AskedType /\ asked'.start \in 1..asked'.end
  BY <1>1, <1>7, <1>8 DEF AskedType, EventCursors
<1>10. PICK f : f = Frame(low, high, cursor)
  OBVIOUS
<1>11. PICK dropped \in BOOLEAN : dropped = rangeResult.dropped
  BY <1>8 DEF ResultType
<1>12. f \in CallFrame /\ f.half = 0 /\ f.start = low /\ f.end = high
  BY <1>7, <1>10, CallBegins DEF EventCursors
<1>13. Collects(f, Task(low, high, cursor), fetchAll, dropped)
  BY <1>7, <1>10, CallBegins DEF EventCursors
<1>14. frames' \in Seq(CallFrame) /\ Len(frames') = 1 /\ frames'[1] = f
  BY <1>8, <1>10, <1>12
<1>15. TaskOf(1)' = Task(low, high, cursor)
  BY <1>8 DEF TaskOf
<1>16. FrameSound(1)'
  <2>1. asked'.fetchAll = fetchAll /\ rangeResult'.dropped = dropped
    BY <1>8, <1>11
  <2>2. Collects(frames[1], TaskOf(1), asked.fetchAll, rangeResult.dropped)'
    BY <1>13, <1>14, <1>15, <2>1
  <2>3. f.start \in asked'.start..f.end /\ f.end <= asked'.end
    BY <1>7, <1>8, <1>12
  <2>4. QED
    BY <1>8, <1>12, <1>14, <2>2, <2>3 DEF FrameSound
<1>17. \A k \in 1..Len(frames') : FrameSound(k)'
  <2>1. \A k \in 1..Len(frames') : k = 1
    BY <1>14
  <2>2. QED
    BY <1>16, <2>1
<1>18. QED
  BY <1>8, <1>9, <1>14, <1>17 DEF RangeIInv

\* A page arrives.
LEMMA PageArrivesKeeps ==
  ASSUME RangeIInv, PageArrives
  PROVE  RangeIInv'
<1>1. frames # <<>> /\ Top.half = 0 /\ asked' = asked
  BY DEF PageArrives, Calling
<1>2. PICK f : f = Top
  OBVIOUS
<1>3. PICK page : page = PageOf(f.start, f.end, f.cursor, asked.limit)
  OBVIOUS
<1>4. PICK events : events = f.events \o page
  OBVIOUS
<1>5. PICK token \in TokensOf(page) :
        IF asked.fetchAll /\ token # NoToken /\ token \notin f.seen
        THEN /\ frames' = WithTop([f EXCEPT !.events = events, !.cursor = token,
                                            !.seen = f.seen \cup {token}])
             /\ rangeResult' = rangeResult
        ELSE frames' = Front(frames) /\ rangeResult' = Give(events, token)
  BY <1>2, <1>3, <1>4 DEF PageArrives, PageOf
<1>6. ComesWith(token, page, f.cursor)
  BY <1>2 DEF TokensOf, ComesWith
<1>7. /\ f \in CallFrame
      /\ Collects(f, TaskOf(Len(frames)), asked.fetchAll, rangeResult.dropped)
      /\ rangeResult.status = "none"
      /\ asked.limit \in Nat \ {0} /\ asked.fetchAll \in BOOLEAN /\ rangeResult.dropped \in BOOLEAN
  BY <1>1, <1>2, TopCall
<1>8. PICK t : t = TaskOf(Len(frames))
  OBVIOUS
<1>9. PICK fetchAll \in BOOLEAN : fetchAll = asked.fetchAll
  BY <1>7
<1>10. PICK dropped \in BOOLEAN : dropped = rangeResult.dropped
  BY <1>7
<1>11. PICK limit \in Nat \ {0} : limit = asked.limit
  BY <1>7
<1>12. /\ t = TaskOf(Len(frames)) /\ fetchAll = asked.fetchAll
       /\ dropped = rangeResult.dropped /\ limit = asked.limit
  BY <1>8, <1>9, <1>10, <1>11
<1>13. CASE asked.fetchAll /\ token # NoToken /\ token \notin f.seen
  <2>1. PICK seen : seen = f.seen \cup {token}
    OBVIOUS
  <2>2. PICK g : g = FollowedBy(f, events, token, seen)
    OBVIOUS
  <2>3. frames' = WithTop(g) /\ rangeResult' = rangeResult
    BY <1>5, <1>13, <2>1, <2>2 DEF FollowedBy
  <2>4. /\ Collects(f, t, fetchAll, dropped) /\ f.half = 0 /\ fetchAll /\ token # NoToken
        /\ page = PageOf(f.start, f.end, f.cursor, limit)
        /\ f \in CallFrame /\ fetchAll \in BOOLEAN /\ dropped \in BOOLEAN /\ limit \in Nat \ {0}
    BY <1>1, <1>2, <1>3, <1>7, <1>13, <1>12
  <2>5. /\ g \in CallFrame /\ Collects(g, t, fetchAll, dropped)
        /\ g.half = 0 /\ g.start = f.start /\ g.end = f.end
    <3>1. CollectingFrame(g, t, fetchAll, dropped)
      BY <1>4, <1>6, <2>1, <2>2, <2>4, PageCollected
    <3>2. g \in CallFrame /\ Collects(g, t, fetchAll, dropped)
      BY <3>1 DEF CollectingFrame
    <3>3. g.half = 0 /\ g.start = f.start /\ g.end = f.end
      BY <2>2, <2>4 DEF FollowedBy, CallFrame
    <3>4. QED
      BY <3>2, <3>3
  <2>6. rangeResult' \in ResultType /\ rangeResult'.status = "none"
    BY <1>7, <2>3 DEF RangeIInv
  <2>7. Collects(g, TaskOf(Len(frames)), asked.fetchAll, rangeResult'.dropped)
    BY <1>12, <2>3, <2>5
  <2>8. QED
    BY <1>1, <1>2, <2>3, <2>5, <2>6, <2>7, CallGoesOn
<1>14. CASE ~(asked.fetchAll /\ token # NoToken /\ token \notin f.seen)
  <2>1. frames' = Front(frames) /\ rangeResult' = Give(events, token)
    BY <1>5, <1>14
  <2>2. /\ Collects(f, t, fetchAll, dropped)
        /\ ~(fetchAll /\ token # NoToken /\ token \notin f.seen)
        /\ page = PageOf(f.start, f.end, f.cursor, limit)
        /\ f \in CallFrame /\ fetchAll \in BOOLEAN /\ dropped \in BOOLEAN /\ limit \in Nat \ {0}
    BY <1>3, <1>7, <1>14, <1>12
  <2>3. Serves(events, token, t, fetchAll, dropped)
    BY ONLY <1>4, <1>6, <2>2, PageServes
  <2>4. Serves(events, token, TaskOf(Len(frames)), asked.fetchAll, rangeResult.dropped)
    BY <1>12, <2>3
  <2>5. QED
    BY <1>1, <2>1, <2>4, CallReturns
<1>15. QED
  BY <1>13, <1>14

\* The innermost call fails, and with it all of them.
LEMMA CallsFail ==
  ASSUME RangeIInv, asked' = asked, frames' = <<>>,
         rangeResult' = [rangeResult EXCEPT !.status = "failed"]
  PROVE  RangeIInv'
<1>1. rangeResult' \in ResultType /\ rangeResult'.status = "failed"
  BY DEF RangeIInv, ResultType
<1>2. frames' \in Seq(CallFrame) /\ Len(frames') = 0 /\ 1..0 = {}
  OBVIOUS
<1>3. QED
  BY <1>1, <1>2 DEF RangeIInv

\* A page is too large.
LEMMA TooLargeKeeps ==
  ASSUME RangeIInv, TooLarge
  PROVE  RangeIInv'
<1>1. frames # <<>> /\ Top.half = 0 /\ asked' = asked
  BY DEF TooLarge, Calling
<1>2. PICK f : f = Top
  OBVIOUS
<1>3. /\ f \in CallFrame
      /\ Collects(f, TaskOf(Len(frames)), asked.fetchAll, rangeResult.dropped)
      /\ rangeResult.status = "none"
      /\ asked.fetchAll \in BOOLEAN /\ rangeResult.dropped \in BOOLEAN
  BY <1>1, <1>2, TopCall
<1>4. CASE f.start < f.end
  <2>1. PICK g, h : g = TurnedToFirst(f) /\ h = FirstHalf(f)
    OBVIOUS
  <2>2. PICK dropped2 \in BOOLEAN : dropped2 = (rangeResult.dropped \/ f.events # <<>>)
    OBVIOUS
  <2>3. frames' = Append(WithTop(g), h) /\ rangeResult' = [rangeResult EXCEPT !.dropped = dropped2]
    BY <1>2, <1>4, <2>1, <2>2 DEF TooLarge, TurnedToFirst, FirstHalf
  <2>4. /\ rangeResult' \in ResultType /\ rangeResult'.dropped = dropped2
        /\ rangeResult'.status = "none"
    BY <1>3, <2>3 DEF RangeIInv, ResultType
  <2>5. PICK t : t = TaskOf(Len(frames))
    OBVIOUS
  <2>6. PICK fetchAll \in BOOLEAN : fetchAll = asked.fetchAll
    BY <1>3
  <2>7. PICK dropped \in BOOLEAN : dropped = rangeResult.dropped
    BY <1>3
  <2>8. t = TaskOf(Len(frames)) /\ fetchAll = asked.fetchAll /\ dropped = rangeResult.dropped
    BY <2>5, <2>6, <2>7
  <2>9. Collects(f, t, fetchAll, dropped) /\ f.half = 0
        /\ (dropped => dropped2) /\ (f.events # <<>> => dropped2)
        /\ f \in CallFrame /\ fetchAll \in BOOLEAN /\ dropped \in BOOLEAN /\ dropped2 \in BOOLEAN
        /\ f.start < f.end
    BY <1>1, <1>2, <1>3, <1>4, <2>2, <2>8
  <2>10. /\ g \in CallFrame /\ Collects(g, t, fetchAll, dropped2) /\ g.half = 1
        /\ g.start = f.start /\ g.end = f.end
    <3>1. g \in CallFrame
      BY <2>1, <2>9, HalfBegins
    <3>2. Collects(g, t, fetchAll, dropped2)
      BY <2>1, <2>9, HalfBegins
    <3>3. g.half = 1 /\ g.start = f.start /\ g.end = f.end
      BY <2>1, <2>9 DEF TurnedToFirst, CallFrame
    <3>4. QED
      BY <3>1, <3>2, <3>3
  <2>11. /\ h \in CallFrame /\ Collects(h, HalfTask(g), fetchAll, dropped2) /\ h.half = 0
        /\ h.start = f.start /\ f.start <= h.end /\ h.end <= f.end
    <3>1. h \in CallFrame
      BY <2>1, <2>9, FirstHalfBegins
    <3>2. Collects(h, HalfTask(g), fetchAll, dropped2)
      BY <2>1, <2>9, FirstHalfBegins
    <3>3. h.half = 0 /\ h.start = f.start
      BY <2>1 DEF FirstHalf, Halves, Frame
    <3>4. f.start <= h.end
      BY <2>1, <2>9, FirstHalfBegins
    <3>5. h.end <= f.end
      BY <2>1, <2>9, FirstHalfBegins
    <3>6. QED
      BY <3>1, <3>2, <3>3, <3>4, <3>5
  <2>12. Top.start <= h.start /\ h.start <= h.end /\ h.end <= Top.end
    <3>1. f.start \in Nat
      BY <1>3 DEF CallFrame
    <3>2. QED
      BY <1>2, <2>11, <3>1
  <2>13. /\ Collects(g, TaskOf(Len(frames)), asked.fetchAll, rangeResult'.dropped)
         /\ Collects(h, HalfTask(g), asked.fetchAll, rangeResult'.dropped)
    BY <2>4, <2>8, <2>10, <2>11
  <2>14. (rangeResult.dropped => rangeResult'.dropped) /\ g.half # 0
    <3>1. rangeResult.dropped => dropped2
      BY <2>2
    <3>2. QED
      BY <2>4, <2>10, <3>1
  <2>15. QED
    BY <1>1, <1>2, <2>3, <2>4, <2>10, <2>11, <2>12, <2>13, <2>14, CallGoesOn
<1>5. CASE ~(f.start < f.end)
  <2>1. frames' = <<>> /\ rangeResult' = [rangeResult EXCEPT !.status = "failed"]
    BY <1>2, <1>5 DEF TooLarge
  <2>2. QED
    BY <1>1, <2>1, CallsFail
<1>6. QED
  BY <1>4, <1>5

\* A half returns, and its call turns to the other half or returns too.
LEMMA HalfReturnsKeeps ==
  ASSUME RangeIInv, HalfReturns
  PROVE  RangeIInv'
<1>1. frames # <<>> /\ rangeResult.status = "given" /\ asked' = asked
  BY DEF HalfReturns
<1>2. PICK f : f = Top
  OBVIOUS
<1>3. PICK t : t = TaskOf(Len(frames))
  OBVIOUS
<1>4. PICK events, token : events = rangeResult.events /\ token = rangeResult.token
  OBVIOUS
<1>5. /\ f \in CallFrame /\ Collects(f, t, asked.fetchAll, rangeResult.dropped) /\ f.half # 0
      /\ asked.fetchAll \in BOOLEAN /\ rangeResult.dropped \in BOOLEAN
      /\ f.half \in 0..2
  <2>1. /\ Top \in CallFrame /\ asked.fetchAll \in BOOLEAN /\ rangeResult.dropped \in BOOLEAN
        /\ Collects(Top, TaskOf(Len(frames)), asked.fetchAll, rangeResult.dropped)
        /\ Top.half = 0 <=> rangeResult.status # "given"
    BY <1>1, TopCall
  <2>2. f.half \in 0..2
    BY <1>2, <2>1 DEF CallFrame
  <2>3. QED
    BY <1>1, <1>2, <1>3, <2>1, <2>2
<1>6. PICK dropped \in BOOLEAN : dropped = rangeResult.dropped
  BY <1>5
<1>7. Serves(events, token, HalfTask(f), asked.fetchAll, dropped)
  <2>1. Serves(rangeResult.events, rangeResult.token, TaskOf(Len(frames) + 1),
               asked.fetchAll, rangeResult.dropped)
    BY <1>1 DEF RangeIInv
  <2>2. Len(frames) \in Nat /\ Len(frames) \in 1..Len(frames) /\ Top = frames[Len(frames)]
    BY <1>1, TopCall
  <2>3. Len(frames) + 1 # 1 /\ (Len(frames) + 1) - 1 = Len(frames)
    BY <2>2
  <2>4. TaskOf(Len(frames) + 1) = HalfTask(f)
    BY <1>2, <2>2, <2>3 DEF TaskOf
  <2>5. QED
    BY <1>4, <1>6, <2>1, <2>4
<1>8. rangeResult \in ResultType
  BY DEF RangeIInv
<1>9. CASE f.half = 1 /\ asked.fetchAll
  <2>1. PICK first : first = [events |-> events, token |-> token]
    OBVIOUS
  <2>2. PICK g, h : g = TurnedToSecond(f, first) /\ h = SecondHalf(f)
    OBVIOUS
  <2>3. frames' = Append(WithTop(g), h) /\ rangeResult' = [rangeResult EXCEPT !.status = "none"]
    BY <1>2, <1>4, <1>9, <2>1, <2>2 DEF HalfReturns, TurnedToSecond, SecondHalf
  <2>4. /\ rangeResult' \in ResultType /\ rangeResult'.dropped = dropped
        /\ rangeResult'.status = "none"
    BY <1>6, <1>8, <2>3 DEF ResultType
  <2>5. /\ Collects(f, t, TRUE, dropped) /\ f.half = 1
        /\ Serves(events, token, HalfTask(f), TRUE, dropped)
    <3>1. asked.fetchAll = TRUE
      BY <1>5, <1>9
    <3>2. QED
      BY <1>5, <1>6, <1>7, <1>9, <3>1
  <2>6. CollectingFrame(g, t, TRUE, dropped)
    BY <1>5, <2>1, <2>2, <2>5, SecondHalfBegins
  <2>7. g \in CallFrame /\ Collects(g, t, TRUE, dropped)
    BY <2>6 DEF CollectingFrame
  <2>8. g.half = 2 /\ g.start = f.start /\ g.end = f.end
    BY <1>5, <2>2 DEF TurnedToSecond, CallFrame
  <2>9. h \in CallFrame
    BY <1>5, <2>1, <2>2, <2>5, SecondHalfBegins
  <2>10. Collects(h, HalfTask(g), TRUE, dropped)
    BY <1>5, <2>1, <2>2, <2>5, SecondHalfBegins
  <2>11. h.half = 0 /\ h.end = f.end
    BY <2>2 DEF SecondHalf, Halves, Frame
  <2>12. f.start <= h.start
    BY <1>5, <2>1, <2>2, <2>5, SecondHalfBegins
  <2>13. h.start <= h.end
    BY <1>5, <2>1, <2>2, <2>5, SecondHalfBegins
  <2>14. Top.start <= h.start /\ h.start <= h.end /\ h.end <= Top.end
    <3>1. f.end \in Nat
      BY <1>5 DEF CallFrame
    <3>2. QED
      BY <1>2, <2>11, <2>12, <2>13, <3>1
  <2>15. /\ Collects(g, TaskOf(Len(frames)), asked.fetchAll, rangeResult'.dropped)
         /\ Collects(h, HalfTask(g), asked.fetchAll, rangeResult'.dropped)
    <3>1. asked.fetchAll = TRUE
      BY <1>5, <1>9
    <3>2. QED
      BY <1>3, <2>4, <2>7, <2>10, <3>1
  <2>16. (rangeResult.dropped => rangeResult'.dropped) /\ g.half # 0
    BY <1>6, <2>4, <2>8
  <2>17. QED
    BY <1>1, <1>2, <2>3, <2>4, <2>7, <2>8, <2>9, <2>11, <2>14, <2>15, <2>16, CallGoesOn
<1>10. CASE f.half = 1 /\ ~asked.fetchAll
  <2>1. frames' = Front(frames) /\ rangeResult' = rangeResult
    BY <1>2, <1>10 DEF HalfReturns
  <2>2. rangeResult' = Give(events, token)
    BY <1>1, <1>4, <1>8, <2>1 DEF Give, ResultType
  <2>3. asked.fetchAll = FALSE
    BY <1>5, <1>10
  <2>4. /\ Collects(f, t, FALSE, dropped) /\ f.half = 1
        /\ Serves(events, token, HalfTask(f), FALSE, dropped)
    BY <1>5, <1>6, <1>7, <1>10, <2>3
  <2>5. Serves(events, token, t, FALSE, dropped)
    BY <1>5, <2>4, FirstHalfServes
  <2>6. Serves(events, token, TaskOf(Len(frames)), asked.fetchAll, rangeResult.dropped)
    BY <1>3, <1>6, <2>3, <2>5
  <2>7. QED
    BY <1>1, <2>1, <2>2, <2>6, CallReturns
<1>11. CASE f.half = 2
  <2>1. PICK last : last = IF token # NoToken THEN token ELSE f.first.token
    OBVIOUS
  <2>2. PICK both : both = f.first.events \o events
    OBVIOUS
  <2>3. frames' = Front(frames) /\ rangeResult' = Give(both, last)
    <3>1. f.half # 1
      BY <1>11
    <3>2. QED
      BY <1>2, <1>4, <2>1, <2>2, <3>1 DEF HalfReturns
  <2>4. asked.fetchAll = TRUE
    BY <1>5, <1>11 DEF Collects
  <2>5. /\ Collects(f, t, TRUE, dropped)
        /\ Serves(events, token, HalfTask(f), TRUE, dropped)
    BY <1>5, <1>6, <1>7, <2>4
  <2>6. last \in {token, f.first.token}
    BY <2>1
  <2>7. Serves(both, last, t, TRUE, dropped)
    BY <1>5, <1>11, <2>2, <2>5, <2>6, HalvesServe
  <2>8. Serves(both, last, TaskOf(Len(frames)), asked.fetchAll, rangeResult.dropped)
    BY <1>3, <1>6, <2>4, <2>7
  <2>9. QED
    BY <1>1, <2>3, <2>8, CallReturns
<1>12. QED
  BY <1>5, <1>9, <1>10, <1>11

LEMMA RangeInvStep == RangeIInv /\ [RangeNext]_rangeVars => RangeIInv'
<1> SUFFICES ASSUME RangeIInv, [RangeNext]_rangeVars PROVE RangeIInv'
  OBVIOUS
<1>1. ASSUME NEW start \in AskedLedgers \cup {NotGiven}, NEW end \in AskedLedgers \cup {NotGiven},
             NEW rewind \in Rewinds \cup {NotGiven}, NEW cursor \in 0..Len(LedgerOf),
             NEW limit \in PageLimits, NEW fetchAll \in BOOLEAN,
             GetContractEvents(start, rewind, end, cursor, limit, fetchAll)
      PROVE  RangeIInv'
  BY <1>1, GetContractEventsKeeps
<1>2. CASE PageArrives
  BY <1>2, PageArrivesKeeps
<1>3. CASE TooLarge
  BY <1>3, TooLargeKeeps
<1>4. CASE GetEventsFails
  BY <1>4, CallsFail DEF GetEventsFails
<1>5. CASE HalfReturns
  BY <1>5, HalfReturnsKeeps
<1>6. CASE UNCHANGED rangeVars
  <2>1. asked' = asked /\ frames' = frames /\ rangeResult' = rangeResult
    BY <1>6 DEF rangeVars
  <2>2. QED
    BY <2>1 DEF RangeIInv, FrameSound, TaskOf
<1>7. QED
  BY <1>1, <1>2, <1>3, <1>4, <1>5, <1>6 DEF RangeNext

LEMMA RangeInvSays == RangeIInv => RangeTypeOK /\ RangeIsComplete
<1> SUFFICES ASSUME RangeIInv PROVE RangeTypeOK /\ RangeIsComplete
  OBVIOUS
<1>1. /\ asked \in AskedType /\ asked.start \in 1..asked.end
      /\ frames \in Seq(CallFrame) /\ rangeResult \in ResultType
      /\ \A k \in 1..Len(frames) : FrameSound(k)
  BY DEF RangeIInv
<1>2. RangeTypeOK
  <2>1. DOMAIN frames = 1..Len(frames)
    BY <1>1
  <2>2. rangeResult.status \in {"none", "given", "failed"}
    BY <1>1 DEF ResultType
  <2>3. QED
    BY <1>1, <2>1, <2>2 DEF RangeTypeOK, FrameSound
<1>3. RangeIsComplete
  <2> SUFFICES
      ASSUME Answered
      PROVE  LET got == rangeResult.events
             IN  /\ \A i, j \in DOMAIN got : i < j => got[i] < got[j]
                 /\ Range(got) \subseteq Range(EventsIn(asked.start, asked.end, NoToken))
                 /\ asked.fetchAll /\ ~rangeResult.dropped => Range(Expected) \subseteq Range(got)
                 /\ ~asked.fetchAll =>
                      /\ IsPrefix(got, Expected)
                      /\ rangeResult.token # NoToken =>
                           \A i \in Range(Expected) : i <= rangeResult.token => i \in Range(got)
    BY DEF RangeIsComplete
  <2>1. PICK got, token : got = rangeResult.events /\ token = rangeResult.token
    OBVIOUS
  <2>2. PICK t : t = Task(asked.start, asked.end, asked.cursor)
    OBVIOUS
  <2>3. Serves(got, token, t, asked.fetchAll, rangeResult.dropped)
    <3>1. rangeResult.status = "given" /\ Len(frames) + 1 = 1
      BY DEF Answered
    <3>2. TaskOf(Len(frames) + 1) = t
      BY <2>2, <3>1 DEF TaskOf
    <3>3. QED
      BY <2>1, <3>1, <3>2 DEF RangeIInv
  <2>4. /\ asked.start \in Nat /\ asked.end \in Nat /\ asked.cursor \in EventCursors
        /\ asked.cursor \in Nat /\ asked.fetchAll \in BOOLEAN
    <3>1. /\ asked.start \in Nat /\ asked.end \in Nat /\ asked.cursor \in EventCursors
          /\ asked.fetchAll \in BOOLEAN
      BY <1>1 DEF AskedType
    <3>2. QED
      BY <3>1, RangeNumbers DEF EventCursors
  <2>5. /\ Expected \in Seq(EventNumbers) /\ Ascends(Expected)
        /\ Range(Expected) = InEvents(asked.start, asked.end, asked.cursor)
    <3>1. PICK s \in Int, e \in Int, c \in Int :
            s = asked.start /\ e = asked.end /\ c = asked.cursor
      BY <2>4
    <3>2. /\ EventsIn(s, e, c) \in Seq(EventNumbers) /\ Ascends(EventsIn(s, e, c))
          /\ Range(EventsIn(s, e, c)) = InEvents(s, e, c)
      BY EventsListed
    <3>3. QED
      BY <3>1, <3>2 DEF Expected
  <2>6. Range(EventsIn(asked.start, asked.end, NoToken)) = InEvents(asked.start, asked.end, NoToken)
    <3>1. PICK s \in Int, e \in Int, c \in Int :
            s = asked.start /\ e = asked.end /\ c = NoToken
      BY <2>4 DEF NoToken
    <3>2. Range(EventsIn(s, e, c)) = InEvents(s, e, c)
      BY EventsListed
    <3>3. QED
      BY <3>1, <3>2
  <2>7. /\ t.start = asked.start /\ t.end = asked.end /\ t.cursor = asked.cursor
        /\ TaskEvents(t) = Range(Expected)
    BY <2>2, <2>5 DEF Task, TaskEvents
  <2>8. got \in Seq(EventNumbers) /\ DOMAIN got = 1..Len(got) /\ Ascends(got)
        /\ Range(got) \subseteq InEvents(asked.start, asked.end, NoToken)
    BY <2>3, <2>7 DEF Serves
  <2>9. asked.fetchAll /\ ~rangeResult.dropped => Range(Expected) \subseteq Range(got)
    BY <2>3, <2>7 DEF Serves
  <2>10. ASSUME ~asked.fetchAll
         PROVE  /\ IsPrefix(got, Expected)
                /\ \A i \in Range(Expected) : i <= token => i \in Range(got)
    <3>1. /\ Range(got) \subseteq Range(Expected) /\ LeavesNoGap(Range(got), Range(Expected))
          /\ token \in Range(got) \/ token <= asked.cursor
      BY <2>3, <2>7, <2>10 DEF Serves
    <3>2. IsPrefix(got, Expected)
      BY <2>5, <2>8, <3>1, InitialIsPrefix
    <3>3. ASSUME NEW i \in Range(Expected), i <= token PROVE i \in Range(got)
      <4>1. token \in EventCursors /\ token \in Nat
        BY <2>3, RangeNumbers DEF Serves, EventCursors
      <4>2. i > asked.cursor /\ i \in Nat
        BY <2>5, RangeNumbers DEF InEvents
      <4>3. ~(token <= asked.cursor)
        BY <2>4, <3>3, <4>1, <4>2
      <4>4. QED
        BY <3>1, <3>3, <4>3 DEF LeavesNoGap
    <3>4. QED
      BY <3>2, <3>3
  <2>11. \A i, j \in DOMAIN got : i < j => got[i] < got[j]
    BY <2>8 DEF Ascends
  <2>12. QED
    BY <2>1, <2>6, <2>8, <2>9, <2>10, <2>11
<1>4. QED
  BY <1>2, <1>3

\* What getContractEvents() returns is as RangeIsComplete says.
THEOREM RangesComplete == RangeSpec => [](RangeTypeOK /\ RangeIsComplete)
<1>1. QED
  BY RangeInvInit, RangeInvStep, RangeInvSays, PTL DEF RangeSpec

-----------------------------------------------------------------------------
(* Spans, diagnostics and the cache of decoded XDR *)

SpanNumbers == 1..Len(spanTimes)

\* Spans are known by their numbers, and as many are active as there were at most.
SpansTyped ==
  /\ traceLevel \in {"off", "info"}
  /\ spanTimes \in Seq(Nat) /\ Len(spanTimes) <= MaxSpansStarted
  /\ activeSpans \in Seq(SpanNumbers) /\ endedSpans \in Seq(SpanNumbers)
  /\ mostActive \in Nat /\ Len(activeSpans) <= mostActive
  /\ clearedAt \in 0..Len(spanTimes)

KnownSpans == Len(activeSpans) + Len(endedSpans)

SpansInBounds ==
  /\ KnownSpans <= Most(maxSpans, mostActive)
  /\ KnownSpans >= maxSpans \/ KnownSpans = Len(spanTimes) - clearedAt

EventsTyped ==
  /\ diagnostics \in [enabled : BOOLEAN, events : Seq(Nat), counter : 0..MaxRecorded]
  /\ Len(diagnostics.events) <= maxEvents
  /\ \A i \in 1..Len(diagnostics.events) :
       diagnostics.events[i] = diagnostics.counter - Len(diagnostics.events) + i

CacheTyped ==
  /\ decodes \in Seq(Inputs) /\ xdrCache \in Seq(Inputs) /\ Len(xdrCache) <= maxCacheSize

TracingIInv == SpansTyped /\ SpansInBounds /\ EventsTyped /\ CacheTyped /\ CacheIsLru

LEMMA TracingInvInit == TracingInit => TracingIInv
<1> SUFFICES ASSUME TracingInit PROVE TracingIInv
  OBVIOUS
<1>1. /\ MaxSpansStarted \in Nat /\ MaxRecorded \in Nat
      /\ maxSpans \in Nat /\ maxEvents \in Nat /\ maxCacheSize \in Nat
  BY TracingAssumption DEF TracingAssumption
<1>2. SpansTyped
  BY <1>1 DEF TracingInit, SpansTyped
<1>3. SpansInBounds
  BY <1>1 DEF TracingInit, SpansInBounds, KnownSpans, Most
<1>4. EventsTyped
  BY <1>1 DEF TracingInit, EventsTyped
<1>5. CacheTyped
  BY <1>1 DEF TracingInit, CacheTyped
<1>6. CacheIsLru
  BY DEF TracingInit, CacheIsLru, IsInjective, Range
<1>7. QED
  BY <1>2, <1>3, <1>4, <1>5, <1>6 DEF TracingIInv

\* Of spans that have ended there is an oldest, the first if several are.
LEMMA OldestIsThere ==
  ASSUME SpansTyped, NEW ended \in Seq(SpanNumbers), Len(ended) > 0
  PROVE  OldestOf(ended) \in 1..Len(ended)
<1> DEFINE Times == {spanTimes[ended[i]] : i \in 1..Len(ended)}
<1>1. /\ Len(ended) \in Nat /\ DOMAIN ended = 1..Len(ended)
      /\ \A i \in 1..Len(ended) : ended[i] \in SpanNumbers
  OBVIOUS
<1>2. \A i \in 1..Len(ended) : spanTimes[ended[i]] \in Nat
  BY <1>1 DEF SpansTyped, SpanNumbers
<1>3. Times \in SUBSET Nat /\ Times # {}
  <2>1. 1 \in 1..Len(ended)
    BY <1>1
  <2>2. QED
    BY <1>2, <2>1
<1>4. PICK t \in Times : \A m \in Times : t <= m
  BY <1>3, LeastOf
<1> DEFINE First == {i \in 1..Len(ended) : spanTimes[ended[i]] = t}
<1>5. First \in SUBSET Nat /\ First # {}
  BY <1>1, <1>4
<1>6. PICK k \in First : \A i \in First : k <= i
  BY <1>5, LeastOf
<1>7. ASSUME NEW j \in 1..Len(ended)
      PROVE  \/ spanTimes[ended[k]] < spanTimes[ended[j]]
             \/ spanTimes[ended[k]] = spanTimes[ended[j]] /\ k <= j
  <2>1. t <= spanTimes[ended[j]] /\ t \in Nat /\ spanTimes[ended[j]] \in Nat
    BY <1>2, <1>3, <1>4
  <2>2. spanTimes[ended[k]] = t
    BY <1>6
  <2>3. spanTimes[ended[j]] = t => k <= j
    BY <1>6
  <2>4. QED
    BY <2>1, <2>2, <2>3
<1>8. QED
  BY <1>1, <1>6, <1>7 DEF OldestOf

\* A start makes a span known, and forgets one if there are too many.
LEMMA StartSpanKeeps ==
  ASSUME TracingIInv, NEW d \in {0, 1}, StartSpan(d)
  PROVE  SpansTyped' /\ SpansInBounds'
<1> DEFINE active == Append(activeSpans, Len(spanTimes) + 1)
           last == IF spanTimes = <<>> THEN 0 ELSE Last(spanTimes)
<1>1. SpansTyped /\ SpansInBounds /\ maxSpans \in Nat /\ MaxSpansStarted \in Nat
  BY TracingAssumption DEF TracingAssumption, TracingIInv
<1>2. /\ spanTimes' = Append(spanTimes, last + d) /\ Len(spanTimes) < MaxSpansStarted
      /\ activeSpans' = active
      /\ endedSpans' = IF Len(active) + Len(endedSpans) > maxSpans
                       THEN Evicted(endedSpans) ELSE endedSpans
      /\ mostActive' = Most(mostActive, Len(activeSpans) + 1)
      /\ traceLevel' = traceLevel /\ clearedAt' = clearedAt
  BY DEF StartSpan, SpansKept
<1>3. last \in Nat
  <2>1. spanTimes # <<>> => Len(spanTimes) \in 1..Len(spanTimes)
    BY <1>1 DEF SpansTyped
  <2>2. QED
    BY <1>1, <2>1 DEF SpansTyped, Last
<1> HIDE DEF last
<1>4. /\ spanTimes' \in Seq(Nat) /\ Len(spanTimes') = Len(spanTimes) + 1
      /\ Len(spanTimes) \in Nat
  BY <1>1, <1>2, <1>3 DEF SpansTyped
<1>5. \A i \in SpanNumbers : i \in SpanNumbers'
  BY <1>4 DEF SpanNumbers
<1>6. active \in Seq(SpanNumbers') /\ Len(active) = Len(activeSpans) + 1 /\ Len(activeSpans) \in Nat
  <2>1. activeSpans \in Seq(SpanNumbers')
    BY <1>1, <1>5 DEF SpansTyped
  <2>2. Len(spanTimes) + 1 \in SpanNumbers'
    BY <1>4 DEF SpanNumbers
  <2>3. QED
    BY <2>1, <2>2
<1>7. /\ Evicted(endedSpans) \in Seq(SpanNumbers) /\ Len(endedSpans) \in Nat
      /\ Len(Evicted(endedSpans)) = IF endedSpans = <<>> THEN 0 ELSE Len(endedSpans) - 1
      /\ endedSpans = <<>> => Len(endedSpans) = 0
      /\ endedSpans # <<>> => Len(endedSpans) > 0
  <2>1. endedSpans \in Seq(SpanNumbers)
    BY <1>1 DEF SpansTyped
  <2>2. CASE endedSpans = <<>>
    BY <2>1, <2>2 DEF Evicted
  <2>3. CASE endedSpans # <<>>
    <3>1. Len(endedSpans) > 0
      BY <2>1, <2>3
    <3>2. OldestOf(endedSpans) \in 1..Len(endedSpans)
      BY <1>1, <2>1, <3>1, OldestIsThere
    <3>3. Evicted(endedSpans) = RemoveAt(endedSpans, OldestOf(endedSpans))
      BY <2>3 DEF Evicted
    <3>4. QED
      BY <2>1, <2>3, <3>1, <3>2, <3>3, WithoutOne
  <2>4. QED
    BY <2>2, <2>3
<1>8. /\ endedSpans' \in Seq(SpanNumbers)
      /\ Len(endedSpans') = IF Len(activeSpans) + 1 + Len(endedSpans) > maxSpans /\ Len(endedSpans) > 0
                            THEN Len(endedSpans) - 1 ELSE Len(endedSpans)
  <2>1. endedSpans \in Seq(SpanNumbers)
    BY <1>1 DEF SpansTyped
  <2>2. CASE Len(activeSpans) + 1 + Len(endedSpans) > maxSpans
    <3>1. endedSpans' = Evicted(endedSpans)
      BY <1>2, <1>6, <2>2
    <3>2. QED
      BY <1>7, <2>2, <3>1
  <2>3. CASE ~(Len(activeSpans) + 1 + Len(endedSpans) > maxSpans)
    <3>1. endedSpans' = endedSpans
      BY <1>2, <1>6, <2>3
    <3>2. QED
      BY <2>1, <2>3, <3>1
  <2>4. QED
    BY <2>2, <2>3
<1>9. endedSpans' \in Seq(SpanNumbers')
  BY <1>5, <1>8
<1>10. mostActive' \in Nat /\ mostActive' >= mostActive /\ mostActive' >= Len(activeSpans) + 1
  BY <1>1, <1>2, <1>6 DEF Most, SpansTyped
<1>11. SpansTyped'
  BY <1>1, <1>2, <1>4, <1>6, <1>9, <1>10 DEF SpansTyped
<1>12. SpansInBounds'
  <2> DEFINE a == Len(activeSpans)  e == Len(endedSpans)  n == Len(spanTimes)
  <2>1. /\ a \in Nat /\ e \in Nat /\ n \in Nat /\ clearedAt \in 0..n /\ mostActive \in Nat
        /\ a <= mostActive
    BY <1>1, <1>4, <1>6, <1>7 DEF SpansTyped
  <2>2. /\ a + e <= Most(maxSpans, mostActive)
        /\ a + e >= maxSpans \/ a + e = n - clearedAt
    BY <1>1 DEF SpansInBounds, KnownSpans
  <2>3. /\ Len(activeSpans') = a + 1 /\ Len(spanTimes') = n + 1 /\ clearedAt' = clearedAt
        /\ Len(endedSpans') = IF a + 1 + e > maxSpans /\ e > 0 THEN e - 1 ELSE e
        /\ mostActive' = Most(mostActive, a + 1)
    BY <1>2, <1>4, <1>6, <1>8
  <2> HIDE DEF a, e, n
  <2>4. a + 1 + Len(endedSpans') <= Most(maxSpans, mostActive')
    <3>1. CASE a + 1 + e > maxSpans /\ e > 0
      BY <1>1, <2>1, <2>2, <2>3, <3>1 DEF Most
    <3>2. CASE ~(a + 1 + e > maxSpans)
      BY <1>1, <2>1, <2>3, <3>2 DEF Most
    <3>3. CASE e = 0
      BY <1>1, <2>1, <2>3, <3>3 DEF Most
    <3>4. QED
      BY <2>1, <3>1, <3>2, <3>3
  <2>5. \/ a + 1 + Len(endedSpans') >= maxSpans
        \/ a + 1 + Len(endedSpans') = (n + 1) - clearedAt
    <3>1. CASE a + 1 + e > maxSpans /\ e > 0
      BY <1>1, <2>1, <2>2, <2>3, <3>1
    <3>2. CASE ~(a + 1 + e > maxSpans /\ e > 0)
      BY <1>1, <2>1, <2>2, <2>3, <3>2
    <3>3. QED
      BY <3>1, <3>2
  <2>6. QED
    BY <2>3, <2>4, <2>5 DEF SpansInBounds, KnownSpans
<1>13. QED
  BY <1>11, <1>12

LEMMA EndSpanKeeps ==
  ASSUME TracingIInv, NEW id \in DOMAIN spanTimes, EndSpan(id)
  PROVE  SpansTyped' /\ SpansInBounds'
<1>1. SpansTyped /\ SpansInBounds
  BY DEF TracingIInv
<1>2. /\ activeSpans' = RemoveFirst(activeSpans, id) /\ endedSpans' = Append(endedSpans, id)
      /\ UNCHANGED <<traceLevel, spanTimes, mostActive, clearedAt>>
  BY DEF EndSpan
<1>3. id \in SpanNumbers /\ activeSpans \in Seq(SpanNumbers) /\ endedSpans \in Seq(SpanNumbers)
  BY <1>1 DEF SpansTyped, SpanNumbers
<1>4. PICK n \in 1..Len(activeSpans) : activeSpans[n] = id
  BY DEF EndSpan, Contains
<1>5. PICK k \in 1..Len(activeSpans) : RemoveFirst(activeSpans, id) = RemoveAt(activeSpans, k)
  BY <1>3, <1>4, FirstRemoved
<1>6. activeSpans' \in Seq(SpanNumbers) /\ Len(activeSpans') = Len(activeSpans) - 1
  BY <1>2, <1>3, <1>5, WithoutOne
<1>7. endedSpans' \in Seq(SpanNumbers) /\ Len(endedSpans') = Len(endedSpans) + 1
  BY <1>2, <1>3
<1>8. SpanNumbers' = SpanNumbers
  BY <1>2 DEF SpanNumbers
<1>9. Len(activeSpans) \in Nat /\ Len(endedSpans) \in Nat
  BY <1>3
<1>10. SpansTyped'
  BY <1>1, <1>2, <1>6, <1>7, <1>8, <1>9 DEF SpansTyped
<1>11. KnownSpans' = KnownSpans
  BY <1>6, <1>7, <1>9 DEF KnownSpans
<1>12. SpansInBounds'
  BY <1>1, <1>2, <1>11 DEF SpansInBounds, Most
<1>13. QED
  BY <1>10, <1>12

LEMMA RecordEventKeeps ==
  ASSUME TracingIInv, RecordEvent
  PROVE  EventsTyped'
<1> DEFINE n == diagnostics.counter + 1
           longer == Append(diagnostics.events, n)
           kept == IF Len(longer) > maxEvents THEN Tail(longer) ELSE longer
<1>1. EventsTyped /\ maxEvents \in Nat /\ maxEvents > 0 /\ MaxRecorded \in Nat
  BY TracingAssumption DEF TracingAssumption, TracingIInv
<1>2. /\ diagnostics' = [diagnostics EXCEPT !.counter = n, !.events = kept]
      /\ diagnostics.counter < MaxRecorded
  BY DEF RecordEvent
<1>3. n \in 0..MaxRecorded /\ n \in Nat /\ diagnostics.events \in Seq(Nat)
  BY <1>1, <1>2 DEF EventsTyped
<1>4. /\ longer \in Seq(Nat) /\ Len(longer) = Len(diagnostics.events) + 1
      /\ Len(diagnostics.events) \in Nat
      /\ \A i \in 1..Len(longer) : longer[i] = n - Len(longer) + i
  <2>1. longer \in Seq(Nat) /\ Len(longer) = Len(diagnostics.events) + 1
    BY <1>3
  <2>2. ASSUME NEW i \in 1..Len(longer) PROVE longer[i] = n - Len(longer) + i
    <3>1. CASE i = Len(longer)
      BY <1>3, <2>1, <3>1
    <3>2. CASE i # Len(longer)
      <4>1. i \in 1..Len(diagnostics.events)
        BY <1>3, <2>1, <3>2
      <4>2. longer[i] = diagnostics.events[i]
        BY <1>3, <4>1
      <4>3. QED
        BY <1>1, <1>3, <2>1, <4>1, <4>2 DEF EventsTyped
    <3>3. QED
      BY <3>1, <3>2
  <2>3. QED
    BY <1>3, <2>1, <2>2
<1> HIDE DEF longer, n
<1>5. /\ kept \in Seq(Nat) /\ Len(kept) <= maxEvents
      /\ \A i \in 1..Len(kept) : kept[i] = n - Len(kept) + i
  <2>1. CASE Len(longer) > maxEvents
    <3>1. kept = Tail(longer) /\ longer # <<>>
      BY <1>1, <1>4, <2>1
    <3>2. /\ Tail(longer) \in Seq(Nat) /\ Len(Tail(longer)) = Len(longer) - 1
          /\ \A i \in 1..(Len(longer) - 1) : Tail(longer)[i] = longer[i + 1]
      <4>1. longer \in Seq(Nat) /\ longer # <<>>
        BY <1>4, <3>1
      <4>2. QED
        BY <4>1, HeadTailProperties
    <3>3. Len(longer) <= maxEvents + 1 /\ Len(longer) \in Nat
      BY <1>1, <1>4 DEF EventsTyped
    <3>4. Len(kept) = Len(longer) - 1 /\ kept \in Seq(Nat)
      BY <3>1, <3>2
    <3>7. n \in Nat
      BY <1>3
    <3> HIDE DEF kept
    <3>5. ASSUME NEW i \in 1..Len(kept) PROVE kept[i] = n - Len(kept) + i
      <4>1. i + 1 \in 1..Len(longer) /\ i \in 1..(Len(longer) - 1) /\ i \in Int
        BY <3>3, <3>4
      <4>2. kept[i] = longer[i + 1]
        BY <3>1, <3>2, <4>1 DEF kept
      <4>3. longer[i + 1] = n - Len(longer) + (i + 1)
        BY <1>4, <4>1
      <4>4. QED
        BY <3>7, <3>3, <3>4, <4>1, <4>2, <4>3
    <3>6. QED
      BY <1>1, <3>3, <3>4, <3>5
  <2>2. CASE Len(longer) <= maxEvents
    BY <1>1, <1>4, <2>2
  <2>3. QED
    BY <1>1, <1>4, <2>1, <2>2
<1> HIDE DEF kept
<1>6. /\ diagnostics' \in [enabled : BOOLEAN, events : Seq(Nat), counter : 0..MaxRecorded]
      /\ diagnostics'.events = kept /\ diagnostics'.counter = n
  BY <1>1, <1>2, <1>3, <1>5 DEF EventsTyped
<1>7. QED
  BY <1>5, <1>6 DEF EventsTyped


\* The limits and what is known stay as they are when tracing is turned on or off.
LEMMA UpdateTracingKeeps ==
  ASSUME TracingIInv, NEW level \in {"off", "info"}, NEW on \in BOOLEAN,
         UpdateTracing(level, on)
  PROVE  SpansTyped' /\ SpansInBounds' /\ EventsTyped'
<1>1. SpansTyped /\ SpansInBounds /\ EventsTyped
  BY DEF TracingIInv
<1>2. /\ traceLevel' = level /\ diagnostics' = [diagnostics EXCEPT !.enabled = on]
      /\ UNCHANGED <<spanTimes, activeSpans, endedSpans, mostActive, clearedAt>>
  BY DEF UpdateTracing
<1>3. SpansTyped' /\ SpansInBounds'
  BY <1>1, <1>2 DEF SpansTyped, SpansInBounds, KnownSpans, Most, SpanNumbers
<1>4. /\ diagnostics' \in [enabled : BOOLEAN, events : Seq(Nat), counter : 0..MaxRecorded]
      /\ diagnostics'.events = diagnostics.events /\ diagnostics'.counter = diagnostics.counter
  BY <1>1, <1>2 DEF EventsTyped
<1>5. EventsTyped'
  BY <1>1, <1>4 DEF EventsTyped
<1>6. QED
  BY <1>3, <1>5

LEMMA ClearTracingKeeps ==
  ASSUME TracingIInv, ClearTracing
  PROVE  SpansTyped' /\ SpansInBounds' /\ EventsTyped'
<1>1. SpansTyped /\ EventsTyped /\ maxSpans \in Nat /\ maxEvents \in Nat
  BY TracingAssumption DEF TracingAssumption, TracingIInv
<1>2. /\ activeSpans' = <<>> /\ endedSpans' = <<>> /\ mostActive' = 0
      /\ clearedAt' = Len(spanTimes) /\ diagnostics' = [diagnostics EXCEPT !.events = <<>>]
      /\ UNCHANGED <<traceLevel, spanTimes>>
  BY DEF ClearTracing
<1>3. Len(spanTimes) \in Nat /\ Len(spanTimes) - Len(spanTimes) = 0
  BY <1>1 DEF SpansTyped
<1>4. SpansTyped'
  BY <1>1, <1>2, <1>3 DEF SpansTyped, SpanNumbers
<1>5. SpansInBounds'
  BY <1>1, <1>2, <1>3 DEF SpansInBounds, KnownSpans, Most
<1>6. /\ diagnostics' \in [enabled : BOOLEAN, events : Seq(Nat), counter : 0..MaxRecorded]
      /\ diagnostics'.events = <<>>
  <2>1. <<>> \in Seq(Nat)
    OBVIOUS
  <2>2. diagnostics \in [enabled : BOOLEAN, events : Seq(Nat), counter : 0..MaxRecorded]
    BY <1>1 DEF EventsTyped
  <2>3. QED
    BY <1>2, <2>1, <2>2
<1>7. EventsTyped'
  BY <1>1, <1>6 DEF EventsTyped
<1>8. QED
  BY <1>4, <1>5, <1>7

\* What CacheIsLru says of the sequences it is about.
UsedIn(d, x, y) ==
  \E i \in DOMAIN d : d[i] = x /\ \A j \in DOMAIN d : j >= i => d[j] # y

LruOf(q, d) ==
  /\ \A i, j \in DOMAIN q : q[i] = q[j] => i = j
  /\ \A i \in DOMAIN q : \E k \in DOMAIN d : d[k] = q[i]
  /\ \A i, j \in DOMAIN q : i < j => UsedIn(d, q[j], q[i])
  /\ \A k \in DOMAIN d : (\A i \in DOMAIN q : q[i] # d[k]) =>
       Len(q) = maxCacheSize /\ \A i \in DOMAIN q : UsedIn(d, q[i], d[k])

LEMMA LruMeans == CacheIsLru <=> LruOf(xdrCache, decodes)
<1>1. \A x, y : UsedSince(x, y) <=> UsedIn(decodes, x, y)
  BY DEF UsedSince, UsedIn
<1>2. Range(xdrCache) = {xdrCache[i] : i \in DOMAIN xdrCache}
  BY DEF Range
<1>3. Range(decodes) = {decodes[i] : i \in DOMAIN decodes}
  BY DEF Range
<1>4. IsInjective(xdrCache) <=>
        \A i, j \in DOMAIN xdrCache : xdrCache[i] = xdrCache[j] => i = j
  BY DEF IsInjective
<1>5. Range(xdrCache) \subseteq Range(decodes) <=>
        \A i \in DOMAIN xdrCache : \E k \in DOMAIN decodes : decodes[k] = xdrCache[i]
  BY <1>2, <1>3
<1>6. (\A x \in Range(decodes) \ Range(xdrCache) :
         /\ Len(xdrCache) = maxCacheSize
         /\ \A i \in DOMAIN xdrCache : UsedIn(decodes, xdrCache[i], x))
      <=> \A k \in DOMAIN decodes : (\A i \in DOMAIN xdrCache : xdrCache[i] # decodes[k]) =>
            /\ Len(xdrCache) = maxCacheSize
            /\ \A i \in DOMAIN xdrCache : UsedIn(decodes, xdrCache[i], decodes[k])
  BY <1>2, <1>3
<1>7. QED
  BY <1>1, <1>4, <1>5, <1>6 DEF CacheIsLru, LruOf

\* A decoding of x leaves what it does not concern in the order of its last use.
LEMMA UsedStill ==
  ASSUME NEW S, NEW d \in Seq(S), NEW x \in S, NEW b, b # x
  PROVE  /\ UsedIn(Append(d, x), x, b)
         /\ \A a : UsedIn(d, a, b) => UsedIn(Append(d, x), a, b)
<1> DEFINE e == Append(d, x)
<1>1. /\ DOMAIN d = 1..Len(d) /\ Len(d) \in Nat /\ DOMAIN e = 1..(Len(d) + 1)
      /\ e[Len(d) + 1] = x
  OBVIOUS
<1>2. \A i \in 1..Len(d) : e[i] = d[i]
  OBVIOUS
<1> HIDE DEF e
<1>3. UsedIn(e, x, b)
  <2>1. Len(d) + 1 \in DOMAIN e
    BY <1>1
  <2>2. ASSUME NEW j \in DOMAIN e, j >= Len(d) + 1 PROVE e[j] # b
    BY <1>1, <2>2
  <2>3. QED
    BY <1>1, <2>1, <2>2 DEF UsedIn
<1>4. ASSUME NEW a, UsedIn(d, a, b) PROVE UsedIn(e, a, b)
  <2>1. PICK i \in DOMAIN d : d[i] = a /\ \A j \in DOMAIN d : j >= i => d[j] # b
    BY <1>4 DEF UsedIn
  <2>2. i \in DOMAIN e /\ e[i] = a
    BY <1>1, <1>2, <2>1
  <2>3. ASSUME NEW j \in DOMAIN e, j >= i PROVE e[j] # b
    <3>1. CASE j = Len(d) + 1
      BY <1>1, <3>1
    <3>2. CASE j # Len(d) + 1
      <4>1. j \in DOMAIN d /\ j \in 1..Len(d)
        BY <1>1, <3>2
      <4>2. QED
        BY <1>2, <2>1, <2>3, <4>1
    <3>3. QED
      BY <3>1, <3>2
  <2>4. QED
    BY <2>2, <2>3 DEF UsedIn
<1>5. QED
  BY <1>3, <1>4 DEF e

\* The entries that stay, r, of those there were, in their order; and x behind them.
LEMMA LruGrows ==
  ASSUME NEW d \in Seq(Inputs), NEW r \in Seq(Inputs), NEW x \in Inputs,
         \A i, j \in DOMAIN r : r[i] = r[j] => i = j,
         \A i \in DOMAIN r : r[i] # x /\ \E k \in DOMAIN d : d[k] = r[i],
         \A i, j \in DOMAIN r : i < j => UsedIn(d, r[j], r[i]),
         \A k \in DOMAIN d : d[k] # x /\ (\A i \in DOMAIN r : r[i] # d[k]) =>
           Len(r) + 1 = maxCacheSize /\ \A i \in DOMAIN r : UsedIn(d, r[i], d[k])
  PROVE  LruOf(Append(r, x), Append(d, x))
<1> DEFINE e == Append(d, x)
           q == Append(r, x)
<1>1. /\ DOMAIN d = 1..Len(d) /\ Len(d) \in Nat /\ DOMAIN e = 1..(Len(d) + 1)
      /\ e[Len(d) + 1] = x
  OBVIOUS
<1>2. \A i \in 1..Len(d) : e[i] = d[i]
  OBVIOUS
<1>3. /\ DOMAIN r = 1..Len(r) /\ Len(r) \in Nat /\ DOMAIN q = 1..(Len(r) + 1)
      /\ q[Len(r) + 1] = x /\ Len(q) = Len(r) + 1
  OBVIOUS
<1>4. \A i \in 1..Len(r) : q[i] = r[i]
  OBVIOUS
<1>5. /\ \A b : b # x => UsedIn(e, x, b)
      /\ \A a, b : b # x /\ UsedIn(d, a, b) => UsedIn(e, a, b)
  BY UsedStill
<1> HIDE DEF e, q
<1>6. ASSUME NEW i \in DOMAIN q
      PROVE  i = Len(r) + 1 \/ (i \in DOMAIN r /\ i # Len(r) + 1)
  <2>1. i \in 1..(Len(r) + 1)
    BY <1>3
  <2>2. i = Len(r) + 1 \/ (i \in 1..Len(r) /\ i # Len(r) + 1)
    BY <1>3, <2>1
  <2>3. QED
    BY <1>3, <2>2
<1>7. ASSUME NEW i \in DOMAIN q, NEW j \in DOMAIN q, q[i] = q[j] PROVE i = j
  <2>1. i \in DOMAIN r => q[i] = r[i] /\ r[i] # x
    BY <1>3, <1>4
  <2>2. j \in DOMAIN r => q[j] = r[j] /\ r[j] # x
    BY <1>3, <1>4
  <2>3. QED
    BY <1>3, <1>6, <1>7, <2>1, <2>2
<1>8. ASSUME NEW i \in DOMAIN q PROVE \E k \in DOMAIN e : e[k] = q[i]
  <2>1. CASE i = Len(r) + 1
    <3>1. Len(d) + 1 \in DOMAIN e
      BY <1>1
    <3>2. e[Len(d) + 1] = q[i]
      BY <1>1, <1>3, <2>1
    <3>3. QED
      BY <3>1, <3>2
  <2>2. CASE i \in DOMAIN r
    <3>1. PICK k \in DOMAIN d : d[k] = r[i]
      BY <2>2
    <3>2. k \in DOMAIN e /\ e[k] = d[k]
      BY <1>1, <1>2
    <3>3. q[i] = r[i]
      BY <1>3, <1>4, <2>2
    <3>4. QED
      BY <3>1, <3>2, <3>3
  <2>3. QED
    BY <1>6, <2>1, <2>2
<1>9. ASSUME NEW i \in DOMAIN q, NEW j \in DOMAIN q, i < j PROVE UsedIn(e, q[j], q[i])
  <2>1. i \in DOMAIN r /\ q[i] = r[i] /\ r[i] # x
    <3>1. i \in DOMAIN r
      BY <1>3, <1>9
    <3>2. QED
      BY <1>3, <1>4, <3>1
  <2>2. CASE j = Len(r) + 1
    BY <1>3, <1>5, <2>1, <2>2
  <2>3. CASE j \in DOMAIN r
    <3>1. q[j] = r[j] /\ UsedIn(d, r[j], r[i])
      BY <1>3, <1>4, <1>9, <2>1, <2>3
    <3>2. QED
      BY <1>5, <2>1, <3>1
  <2>4. QED
    BY <1>6, <2>2, <2>3
<1>10. ASSUME NEW k \in DOMAIN e, \A i \in DOMAIN q : q[i] # e[k]
       PROVE  Len(q) = maxCacheSize /\ \A i \in DOMAIN q : UsedIn(e, q[i], e[k])
  <2>1. e[k] # x
    BY <1>3, <1>10
  <2>2. k \in DOMAIN d /\ e[k] = d[k]
    <3>1. k # Len(d) + 1
      BY <1>1, <2>1
    <3>2. k \in DOMAIN d
      BY <1>1, <3>1
    <3>3. QED
      BY <1>1, <1>2, <3>2
  <2>3. \A i \in DOMAIN r : r[i] # d[k]
    BY <1>3, <1>4, <1>10, <2>2
  <2>4. Len(r) + 1 = maxCacheSize /\ \A i \in DOMAIN r : UsedIn(d, r[i], d[k])
    BY <2>1, <2>2, <2>3
  <2>5. ASSUME NEW i \in DOMAIN q PROVE UsedIn(e, q[i], e[k])
    <3>1. CASE i = Len(r) + 1
      BY <1>3, <1>5, <2>1, <3>1
    <3>2. CASE i \in DOMAIN r
      <4>1. q[i] = r[i]
        BY <1>3, <1>4, <3>2
      <4>2. QED
        BY <1>5, <2>1, <2>2, <2>4, <3>2, <4>1
    <3>3. QED
      BY <1>6, <3>1, <3>2
  <2>6. QED
    BY <1>3, <2>4, <2>5
<1>11. LruOf(q, e)
  BY <1>7, <1>8, <1>9, <1>10 DEF LruOf
<1>12. QED
  BY <1>11 DEF e, q

\* What the cache keeps of its entries when x is decoded
Survivors(x, r) ==
  /\ r \in Seq(Inputs) /\ Cached(xdrCache, x) = Append(r, x) /\ Len(r) < maxCacheSize
  /\ \A i, j \in DOMAIN r : r[i] = r[j] => i = j
  /\ \A i \in DOMAIN r : r[i] # x /\ \E k \in DOMAIN decodes : decodes[k] = r[i]
  /\ \A i, j \in DOMAIN r : i < j => UsedIn(decodes, r[j], r[i])
  /\ \A k \in DOMAIN decodes : decodes[k] # x /\ (\A i \in DOMAIN r : r[i] # decodes[k]) =>
       /\ Len(r) + 1 = maxCacheSize
       /\ \A i \in DOMAIN r : UsedIn(decodes, r[i], decodes[k])

\* A hit moves an entry to the end.
LEMMA HitKeeps ==
  ASSUME CacheTyped, CacheIsLru, NEW x \in Inputs, Contains(xdrCache, x)
  PROVE  \E r : Survivors(x, r)
<1> DEFINE q == xdrCache
           d == decodes
<1>1. /\ q \in Seq(Inputs) /\ d \in Seq(Inputs) /\ maxCacheSize \in Nat
      /\ Len(q) <= maxCacheSize /\ Len(q) \in Nat /\ DOMAIN q = 1..Len(q)
  BY TracingAssumption DEF TracingAssumption, CacheTyped
<1>2. LruOf(q, d)
  BY LruMeans
<1>3. PICK n \in 1..Len(q) : q[n] = x
  BY <1>1 DEF Contains
<1>4. PICK k \in 1..Len(q) : q[k] = x /\ RemoveFirst(q, x) = RemoveAt(q, k)
  BY <1>1, <1>3, FirstRemoved
<1> DEFINE r == RemoveAt(q, k)
<1>5. Cached(q, x) = Append(r, x)
  BY <1>4 DEF Cached
<1>6. /\ r \in Seq(Inputs) /\ Len(r) = Len(q) - 1
      /\ \A j \in 1..(Len(q) - 1) : r[j] = IF j < k THEN q[j] ELSE q[j + 1]
  BY <1>1, WithoutOne
<1> DEFINE At(j) == IF j < k THEN j ELSE j + 1
<1> HIDE DEF q, d, r
<1>7. DOMAIN r = 1..(Len(q) - 1) /\ Len(r) < maxCacheSize /\ Len(r) + 1 = Len(q)
  BY <1>1, <1>6
<1>8. ASSUME NEW j \in DOMAIN r
      PROVE  At(j) \in DOMAIN q /\ At(j) # k /\ r[j] = q[At(j)]
  <2>1. j \in 1..(Len(q) - 1)
    BY <1>7
  <2>2. CASE j < k
    BY <1>1, <1>6, <2>1, <2>2
  <2>3. CASE j >= k
    BY <1>1, <1>6, <2>1, <2>3
  <2>4. QED
    BY <1>1, <2>1, <2>2, <2>3
<1>9. \A i, j \in DOMAIN r : /\ i < j => At(i) < At(j)
                             /\ At(i) = At(j) => i = j
  BY <1>1, <1>7
<1>10. \A m \in DOMAIN q : m # k => \E j \in DOMAIN r : r[j] = q[m]
  <2>1. TAKE m \in DOMAIN q
  <2>2. HAVE m # k
  <2>3. m \in 1..Len(q)
    BY <1>1
  <2>4. CASE m < k
    <3>1. m \in DOMAIN r /\ r[m] = q[m]
      BY <1>1, <1>6, <1>7, <2>3, <2>4
    <3>2. QED
      BY <3>1
  <2>5. CASE m > k
    <3>1. m - 1 \in DOMAIN r /\ ~(m - 1 < k) /\ (m - 1) + 1 = m
      BY <1>1, <1>7, <2>3, <2>5
    <3>2. r[m - 1] = q[m]
      BY <1>6, <1>7, <3>1
    <3>3. QED
      BY <3>1, <3>2
  <2>6. QED
    BY <1>1, <2>2, <2>3, <2>4, <2>5
<1> HIDE DEF At
<1>11. /\ \A i, j \in DOMAIN q : q[i] = q[j] => i = j
       /\ \A i \in DOMAIN q : \E m \in DOMAIN d : d[m] = q[i]
       /\ \A i, j \in DOMAIN q : i < j => UsedIn(d, q[j], q[i])
       /\ \A m \in DOMAIN d : (\A i \in DOMAIN q : q[i] # d[m]) =>
            Len(q) = maxCacheSize /\ \A i \in DOMAIN q : UsedIn(d, q[i], d[m])
  BY <1>2 DEF LruOf
<1>12. \A i, j \in DOMAIN r : r[i] = r[j] => i = j
  BY <1>8, <1>9, <1>11
<1>13. \A i \in DOMAIN r : r[i] # x /\ \E m \in DOMAIN d : d[m] = r[i]
  <2>1. k \in DOMAIN q /\ q[k] = x
    BY <1>1, <1>4 DEF q
  <2>2. QED
    BY <1>8, <1>11, <2>1
<1>14. \A i, j \in DOMAIN r : i < j => UsedIn(d, r[j], r[i])
  BY <1>8, <1>9, <1>11
<1>15. ASSUME NEW m \in DOMAIN d, d[m] # x, \A i \in DOMAIN r : r[i] # d[m]
       PROVE  Len(r) + 1 = maxCacheSize /\ \A i \in DOMAIN r : UsedIn(d, r[i], d[m])
  <2>1. q[k] = x
    BY <1>4 DEF q
  <2>2. \A i \in DOMAIN q : q[i] # d[m]
    BY <1>10, <1>15, <2>1
  <2>3. Len(q) = maxCacheSize /\ \A i \in DOMAIN q : UsedIn(d, q[i], d[m])
    BY <1>11, <2>2
  <2>4. QED
    BY <1>7, <1>8, <2>3
<1>16. Survivors(x, r)
  BY <1>5, <1>6, <1>7, <1>12, <1>13, <1>14, <1>15 DEF Survivors, q, d
<1>17. QED
  BY <1>16

\* A miss drops the entry that was used the longest ago, if the cache is full.
LEMMA MissKeeps ==
  ASSUME CacheTyped, CacheIsLru, NEW x \in Inputs, ~Contains(xdrCache, x)
  PROVE  \E r : Survivors(x, r)
<1> DEFINE q == xdrCache
           d == decodes
<1>1. /\ q \in Seq(Inputs) /\ d \in Seq(Inputs) /\ maxCacheSize \in Nat /\ maxCacheSize > 0
      /\ Len(q) <= maxCacheSize /\ Len(q) \in Nat /\ DOMAIN q = 1..Len(q)
  BY TracingAssumption DEF TracingAssumption, CacheTyped
<1>2. /\ \A i, j \in DOMAIN q : q[i] = q[j] => i = j
      /\ \A i \in DOMAIN q : \E m \in DOMAIN d : d[m] = q[i]
      /\ \A i, j \in DOMAIN q : i < j => UsedIn(d, q[j], q[i])
      /\ \A m \in DOMAIN d : (\A i \in DOMAIN q : q[i] # d[m]) =>
           Len(q) = maxCacheSize /\ \A i \in DOMAIN q : UsedIn(d, q[i], d[m])
  BY LruMeans DEF LruOf
<1>3. \A i \in DOMAIN q : q[i] # x
  BY <1>1 DEF Contains
<1>4. Cached(q, x) = Append(IF Len(q) >= maxCacheSize THEN Tail(q) ELSE q, x)
  BY DEF Cached
<1>5. CASE Len(q) < maxCacheSize
  <2>1. Cached(q, x) = Append(q, x)
    BY <1>1, <1>4, <1>5
  <2>2. \A m \in DOMAIN d : ~ \A i \in DOMAIN q : q[i] # d[m]
    <3>1. \A m \in DOMAIN d : (\A i \in DOMAIN q : q[i] # d[m]) => Len(q) = maxCacheSize
      BY <1>2
    <3> HIDE DEF q, d
    <3>2. Len(q) \in Nat /\ maxCacheSize \in Nat
      BY <1>1
    <3>3. \A a, b \in Nat : a < b => a # b
      OBVIOUS
    <3>4. Len(q) # maxCacheSize
      BY <1>5, <3>2, <3>3
    <3>5. QED
      BY <3>1, <3>4
  <2>3. Survivors(x, q)
    BY <1>1, <1>2, <1>3, <1>5, <2>1, <2>2 DEF Survivors
  <2>4. QED
    BY <2>3
<1>6. CASE Len(q) >= maxCacheSize
  <2> DEFINE r == Tail(q)
  <2>1. q # <<>> /\ Len(q) = maxCacheSize /\ 1 \in DOMAIN q
    <3> HIDE DEF q, d, r
    <3> DEFINE n == Len(q)
    <3>1. n \in Nat /\ n <= maxCacheSize /\ n >= maxCacheSize
          /\ maxCacheSize \in Nat /\ maxCacheSize > 0
      BY <1>1, <1>6
    <3>2. Len(<<>>) = 0
      OBVIOUS
    <3> HIDE DEF n
    <3>3. n > 0 /\ n = maxCacheSize /\ 1 \in 1..n
      BY <3>1
    <3>4. QED
      BY <1>1, <3>2, <3>3 DEF n
  <2>2. Cached(q, x) = Append(r, x)
    BY <1>4, <1>6
  <2>3. /\ r \in Seq(Inputs) /\ Len(r) = Len(q) - 1
        /\ \A i \in 1..Len(r) : r[i] = q[i + 1]
    BY <1>1, <2>1, HeadTailProperties
  <2> HIDE DEF q, d, r
  <2>4. DOMAIN r = 1..Len(r) /\ Len(r) < maxCacheSize /\ Len(r) + 1 = maxCacheSize
    BY <1>1, <2>1, <2>3
  <2>5. ASSUME NEW i \in DOMAIN r
        PROVE  i + 1 \in DOMAIN q /\ r[i] = q[i + 1] /\ 1 < i + 1 /\ i \in Int
    <3>1. i \in 1..Len(r)
      BY <2>4
    <3>2. QED
      BY <1>1, <2>3, <3>1
  <2>6. \A i \in DOMAIN q : i = 1 \/ (i - 1 \in DOMAIN r /\ r[i - 1] = q[i])
    <3>1. TAKE i \in DOMAIN q
    <3>2. i \in 1..Len(q)
      BY <1>1
    <3>3. CASE i # 1
      <4>1. i - 1 \in 1..Len(r) /\ (i - 1) + 1 = i
        BY <1>1, <2>3, <3>2, <3>3
      <4>2. QED
        BY <2>3, <2>4, <4>1
    <3>4. QED
      BY <3>3
  <2>7. ASSUME NEW i \in DOMAIN r, NEW j \in DOMAIN r, r[i] = r[j] PROVE i = j
    <3>1. i + 1 = j + 1
      BY <1>2, <2>5, <2>7
    <3>2. QED
      BY <2>5, <3>1
  <2>8. \A i \in DOMAIN r : r[i] # x /\ \E m \in DOMAIN d : d[m] = r[i]
    BY <1>2, <1>3, <2>5
  <2>9. ASSUME NEW i \in DOMAIN r, NEW j \in DOMAIN r, i < j PROVE UsedIn(d, r[j], r[i])
    <3>1. i + 1 < j + 1
      BY <2>5, <2>9
    <3>2. QED
      BY <1>2, <2>5, <3>1
  <2>10. ASSUME NEW m \in DOMAIN d, d[m] # x, \A i \in DOMAIN r : r[i] # d[m]
         PROVE  \A i \in DOMAIN r : UsedIn(d, r[i], d[m])
    <3>1. CASE d[m] = q[1]
      BY <1>2, <2>1, <2>5, <3>1
    <3>2. CASE d[m] # q[1]
      <4>1. \A i \in DOMAIN q : q[i] # d[m]
        BY <2>6, <2>10, <3>2
      <4>2. QED
        BY <1>2, <2>5, <4>1
    <3>3. QED
      BY <3>1, <3>2
  <2>11. Survivors(x, r)
    BY <2>2, <2>3, <2>4, <2>7, <2>8, <2>9, <2>10 DEF Survivors, q, d
  <2>12. QED
    BY <2>11
<1>7. QED
  BY <1>1, <1>5, <1>6

LEMMA DecodeXdrKeeps ==
  ASSUME TracingIInv, NEW x \in Inputs, DecodeXdr(x)
  PROVE  CacheTyped' /\ CacheIsLru'
<1>1. CacheTyped /\ CacheIsLru /\ decodes \in Seq(Inputs) /\ maxCacheSize \in Nat
  BY TracingAssumption DEF TracingAssumption, TracingIInv, CacheTyped
<1>2. xdrCache' = Cached(xdrCache, x) /\ decodes' = Append(decodes, x)
  BY DEF DecodeXdr
<1>3. PICK r : Survivors(x, r)
  BY <1>1, HitKeeps, MissKeeps
<1>4. r \in Seq(Inputs) /\ xdrCache' = Append(r, x) /\ Len(r) < maxCacheSize
  BY <1>2, <1>3 DEF Survivors
<1>5. CacheTyped'
  BY <1>1, <1>2, <1>4 DEF CacheTyped
<1>6. LruOf(Append(r, x), Append(decodes, x))
  BY <1>1, <1>3, LruGrows DEF Survivors
<1>7. LruOf(xdrCache', decodes')
  BY <1>2, <1>4, <1>6
<1>8. (CacheIsLru <=> LruOf(xdrCache, decodes))'
  BY LruMeans, PTL
<1>9. CacheIsLru'
  BY <1>7, <1>8
<1>10. QED
  BY <1>5, <1>9

LEMMA ClearXdrCacheKeeps ==
  ASSUME TracingIInv, ClearXdrCache
  PROVE  CacheTyped' /\ CacheIsLru'
<1>1. maxCacheSize \in Nat /\ xdrCache' = <<>> /\ decodes' = <<>>
  BY TracingAssumption DEF TracingAssumption, ClearXdrCache
<1>2. CacheTyped'
  BY <1>1 DEF CacheTyped
<1>3. CacheIsLru'
  BY <1>1 DEF CacheIsLru, IsInjective, Range
<1>4. QED
  BY <1>2, <1>3

LEMMA TracingInvStep ==
  ASSUME TracingIInv, [TracingNext]_tracingVars
  PROVE  TracingIInv'
<1>1. SpansTyped /\ SpansInBounds /\ EventsTyped /\ CacheTyped /\ CacheIsLru
  BY DEF TracingIInv
<1>2. UNCHANGED <<traceLevel, spanTimes, activeSpans, endedSpans, mostActive, clearedAt>> =>
        SpansTyped' /\ SpansInBounds'
  BY <1>1 DEF SpansTyped, SpansInBounds, KnownSpans, Most, SpanNumbers
<1>3. UNCHANGED diagnostics => EventsTyped'
  BY <1>1 DEF EventsTyped
<1>4. UNCHANGED cacheVars => CacheTyped' /\ CacheIsLru'
  BY <1>1 DEF CacheTyped, CacheIsLru, UsedSince, cacheVars
<1>5. CASE UNCHANGED tracingVars
  BY <1>2, <1>3, <1>4, <1>5 DEF TracingIInv, tracingVars, tracerVars, cacheVars
<1>6. CASE \E d \in {0, 1} : StartSpan(d)
  BY <1>3, <1>4, <1>6, StartSpanKeeps DEF TracingIInv, StartSpan
<1>7. CASE \E id \in DOMAIN spanTimes : EndSpan(id)
  BY <1>3, <1>4, <1>7, EndSpanKeeps DEF TracingIInv, EndSpan
<1>8. CASE \E level \in {"off", "info"}, on \in BOOLEAN : UpdateTracing(level, on)
  BY <1>4, <1>8, UpdateTracingKeeps DEF TracingIInv, UpdateTracing
<1>9. CASE RecordEvent
  BY <1>2, <1>4, <1>9, RecordEventKeeps DEF TracingIInv, RecordEvent, tracerVars
<1>10. CASE ClearTracing
  BY <1>4, <1>10, ClearTracingKeeps DEF TracingIInv, ClearTracing
<1>11. CASE \E input \in Inputs : DecodeXdr(input)
  BY <1>2, <1>3, <1>11, DecodeXdrKeeps DEF TracingIInv, DecodeXdr, tracerVars
<1>12. CASE ClearXdrCache
  BY <1>2, <1>3, <1>12, ClearXdrCacheKeeps DEF TracingIInv, ClearXdrCache, tracerVars
<1>13. QED
  BY <1>5, <1>6, <1>7, <1>8, <1>9, <1>10, <1>11, <1>12 DEF TracingNext, ObservingNext, CacheNext

\* The invariant says that memory is bounded, and that the cache is what it is to be.
LEMMA TracingInvMeans == TracingIInv => TracingTypeOK /\ MemoryIsBounded /\ CacheIsLru
<1> SUFFICES ASSUME TracingIInv PROVE TracingTypeOK /\ MemoryIsBounded
  BY DEF TracingIInv
<1>1. SpansTyped /\ SpansInBounds /\ EventsTyped /\ CacheTyped
  BY DEF TracingIInv
<1>2. Range(activeSpans) \cup Range(endedSpans) \subseteq DOMAIN spanTimes
  BY <1>1 DEF SpansTyped, SpanNumbers, Range
<1>3. Range(xdrCache) \subseteq Inputs
  BY <1>1 DEF CacheTyped, Range
<1>4. TracingTypeOK
  BY <1>1, <1>2, <1>3 DEF TracingTypeOK, SpansTyped, EventsTyped, CacheTyped
<1>5. DOMAIN diagnostics.events = 1..Len(diagnostics.events)
  BY <1>1 DEF EventsTyped
<1>6. MemoryIsBounded
  BY <1>1, <1>5 DEF MemoryIsBounded, SpansInBounds, KnownSpans, EventsTyped
<1>7. QED
  BY <1>4, <1>6

(* However spans start and end, and events are recorded and cleared, tracing
   keeps at most what it is set to keep, and forgets nothing while it has room.
   (src/observability/tracer.ts:19-50, src/diagnostics/diagnosticsManager.ts:23-45) *)
THEOREM TracingIsBounded == TracingSpec => []MemoryIsBounded
<1>1. TracingInit => TracingIInv
  BY TracingInvInit
<1>2. TracingIInv /\ [TracingNext]_tracingVars => TracingIInv'
  BY TracingInvStep
<1>3. TracingIInv => MemoryIsBounded
  BY TracingInvMeans
<1>4. QED
  BY <1>1, <1>2, <1>3, PTL DEF TracingSpec

(* However often and in whatever order inputs are decoded, the cache holds those
   that were decoded last, in that order.  (src/utils/xdrCache.ts:18-49) *)
THEOREM XdrCacheIsLru == TracingSpec => []CacheIsLru
<1>1. TracingInit => TracingIInv
  BY TracingInvInit
<1>2. TracingIInv /\ [TracingNext]_tracingVars => TracingIInv'
  BY TracingInvStep
<1>3. TracingIInv => CacheIsLru
  BY TracingInvMeans
<1>4. QED
  BY <1>1, <1>2, <1>3, PTL DEF TracingSpec

-----------------------------------------------------------------------------
(* Telemetry *)

Handings == [events : Seq(Nat), counter : Nat]

TelemetryTyped ==
  /\ telemetryOn \in BOOLEAN /\ flushHandler \in BOOLEAN /\ destroyed \in BOOLEAN
  /\ flushTimers \in 0..1 /\ (~destroyed => (telemetryOn <=> flushTimers = 1))
  /\ buffered \in Seq(Nat) /\ Len(buffered) < bufferSize /\ tracked \in 0..MaxTracked
  /\ handedOver \in Seq(Handings) /\ discarded \in Seq(Nat)
  /\ handedOver # <<>> => flushHandler

CountersTyped ==
  /\ counters \in Seq(1..MaxCounted) /\ collector \in 0..Len(counters)

\* What the property says of events 1..n: those discarded, handed over and buffered
Before(lost, handed, k) == IF k = 1 THEN Len(lost) ELSE Last(handed[k - 1].events)

Accounted(lost, handed, waiting, n) ==
  /\ FollowOn(lost, 0)
  /\ \A k \in DOMAIN handed :
       handed[k].events # <<>> /\ FollowOn(handed[k].events, Before(lost, handed, k))
  /\ FollowOn(waiting, Before(lost, handed, Len(handed) + 1))
  /\ n = Before(lost, handed, Len(handed) + 1) + Len(waiting)

TelemetryIInv ==
  TelemetryTyped /\ CountersTyped /\ Accounted(discarded, handedOver, buffered, tracked)

LEMMA TelemetryConstants ==
  /\ bufferSize \in Nat /\ bufferSize > 1 /\ MaxTracked \in Nat /\ MaxCounted \in Nat
  /\ MaxTimers \in Nat /\ MaxTimers >= 1
BY TelemetryAssumption DEF TelemetryAssumption

LEMMA TelemetryInvInit == TelemetryInit => TelemetryIInv
<1> SUFFICES ASSUME TelemetryInit PROVE TelemetryIInv
  OBVIOUS
<1>1. TelemetryTyped
  <2>1. <<>> \in Seq(Nat) /\ <<>> \in Seq(Handings) /\ Len(<<>>) = 0
    OBVIOUS
  <2>2. 0 \in 0..MaxTracked /\ 0 < bufferSize
    BY TelemetryConstants
  <2>3. telemetryOn \in BOOLEAN /\ flushHandler \in BOOLEAN /\ destroyed \in BOOLEAN
    BY DEF TelemetryInit
  <2>4. flushTimers \in 0..1 /\ (~destroyed => (telemetryOn <=> flushTimers = 1))
    BY DEF TelemetryInit
  <2>5. buffered = <<>> /\ handedOver = <<>> /\ discarded = <<>> /\ tracked = 0
    BY DEF TelemetryInit
  <2>6. QED
    BY <2>1, <2>2, <2>3, <2>4, <2>5 DEF TelemetryTyped
<1>2. CountersTyped
  BY DEF TelemetryInit, CountersTyped
<1>3. Accounted(discarded, handedOver, buffered, tracked)
  BY DEF TelemetryInit, Accounted, FollowOn, Before
<1>4. QED
  BY <1>1, <1>2, <1>3 DEF TelemetryIInv

LEMMA BeforeIsNumber ==
  ASSUME NEW lost \in Seq(Nat), NEW handed \in Seq(Handings), NEW k \in 1..(Len(handed) + 1),
         \A j \in DOMAIN handed : handed[j].events # <<>>
  PROVE  Before(lost, handed, k) \in Nat
<1>1. CASE k = 1
  BY <1>1 DEF Before
<1>2. CASE k # 1
  <2>1. k - 1 \in DOMAIN handed /\ k - 1 \in 1..Len(handed)
    BY <1>2
  <2>2. PICK b : b = handed[k - 1].events
    OBVIOUS
  <2>0. handed[k - 1] \in Handings
    BY <2>1
  <2>3. b \in Seq(Nat) /\ b # <<>>
    BY <2>0, <2>1, <2>2 DEF Handings
  <2>4. Len(b) \in 1..Len(b)
    BY <2>3
  <2>5. Last(b) \in Nat
    BY <2>3, <2>4 DEF Last
  <2>6. QED
    BY <1>2, <2>2, <2>5 DEF Before
<1>3. QED
  BY <1>1, <1>2

\* One more event is buffered.
LEMMA OneIsBuffered ==
  ASSUME NEW lost \in Seq(Nat), NEW handed \in Seq(Handings), NEW waiting \in Seq(Nat),
         NEW n \in Nat, Accounted(lost, handed, waiting, n)
  PROVE  Accounted(lost, handed, Append(waiting, n + 1), n + 1)
<1> DEFINE t == Before(lost, handed, Len(handed) + 1)
           more == Append(waiting, n + 1)
<1>1. t \in Nat
  <2>1. Len(handed) + 1 \in 1..(Len(handed) + 1)
    OBVIOUS
  <2>2. QED
    BY <2>1, BeforeIsNumber DEF Accounted
<1>2. FollowOn(waiting, t) /\ n = t + Len(waiting) /\ Len(waiting) \in Nat
  BY DEF Accounted
<1>3. DOMAIN more = 1..(Len(waiting) + 1) /\ Len(more) = Len(waiting) + 1
  OBVIOUS
<1>4. more[Len(waiting) + 1] = n + 1 /\ \A i \in 1..Len(waiting) : more[i] = waiting[i]
  OBVIOUS
<1> HIDE DEF t, more
<1>5. ASSUME NEW i \in 1..(Len(waiting) + 1) PROVE more[i] = t + i
  <2>1. CASE i = Len(waiting) + 1
    BY <1>1, <1>2, <1>4, <2>1
  <2>2. CASE i # Len(waiting) + 1
    <3>1. i \in 1..Len(waiting)
      BY <1>2, <2>2
    <3>3. DOMAIN waiting = 1..Len(waiting)
      OBVIOUS
    <3>2. QED
      BY <1>2, <1>4, <3>1, <3>3 DEF FollowOn
  <2>3. QED
    BY <2>1, <2>2
<1>6. FollowOn(more, t) /\ n + 1 = t + Len(more)
  BY <1>1, <1>2, <1>3, <1>5 DEF FollowOn
<1>7. QED
  BY <1>6 DEF Accounted, t, more

\* The last of the events that wait is the last there is.
LEMMA LastIsTracked ==
  ASSUME NEW lost \in Seq(Nat), NEW handed \in Seq(Handings), NEW waiting \in Seq(Nat),
         NEW n \in Nat, Accounted(lost, handed, waiting, n), waiting # <<>>
  PROVE  Last(waiting) = n
<1> DEFINE t == Before(lost, handed, Len(handed) + 1)
<1>1. FollowOn(waiting, t) /\ n = t + Len(waiting)
  BY DEF Accounted
<1>2. Len(waiting) \in DOMAIN waiting
  OBVIOUS
<1> HIDE DEF t
<1>3. QED
  BY <1>1, <1>2 DEF FollowOn, Last

\* All that wait are handed over.
LEMMA AllAreHanded ==
  ASSUME NEW lost \in Seq(Nat), NEW handed \in Seq(Handings), NEW waiting \in Seq(Nat),
         NEW n \in Nat, Accounted(lost, handed, waiting, n), waiting # <<>>, NEW c \in Nat
  PROVE  Accounted(lost, Append(handed, [events |-> waiting, counter |-> c]), <<>>, n)
<1> DEFINE batch == [events |-> waiting, counter |-> c]
           more == Append(handed, batch)
           m == Len(handed)
<1>1. m \in Nat /\ DOMAIN handed = 1..m /\ DOMAIN more = 1..(m + 1) /\ Len(more) = m + 1
  OBVIOUS
<1>2. more[m + 1].events = waiting /\ \A k \in 1..m : more[k] = handed[k]
  OBVIOUS
<1>3. Last(waiting) = n
  BY LastIsTracked
<1> HIDE DEF batch, more
<1>4. ASSUME NEW k \in 1..(m + 1) PROVE Before(lost, more, k) = Before(lost, handed, k)
  <2>1. CASE k = 1
    BY <2>1 DEF Before
  <2>2. CASE k # 1
    <3>1. k - 1 \in 1..m
      BY <1>1, <2>2
    <3>2. QED
      BY <1>2, <2>2, <3>1 DEF Before
  <2>3. QED
    BY <2>1, <2>2
<1>5. Before(lost, more, Len(more) + 1) = n
  <2>1. Len(more) + 1 # 1 /\ (Len(more) + 1) - 1 = m + 1
    BY <1>1
  <2>2. QED
    BY <1>2, <1>3, <2>1 DEF Before
<1>6. ASSUME NEW k \in DOMAIN more
      PROVE  more[k].events # <<>> /\ FollowOn(more[k].events, Before(lost, more, k))
  <2>1. CASE k = m + 1
    <3>1. Before(lost, more, m + 1) = Before(lost, handed, m + 1)
      BY <1>1, <1>4
    <3>2. QED
      BY <1>2, <2>1, <3>1 DEF Accounted
  <2>2. CASE k # m + 1
    <3>1. k \in DOMAIN handed /\ k \in 1..m /\ k \in 1..(m + 1)
      BY <1>1, <2>2
    <3>2. QED
      BY <1>2, <1>4, <3>1 DEF Accounted
  <2>3. QED
    BY <2>1, <2>2
<1>7. FollowOn(<<>>, n) /\ n = n + Len(<<>>) /\ FollowOn(lost, 0)
  BY DEF FollowOn, Accounted
<1>8. Accounted(lost, more, <<>>, n)
  BY <1>5, <1>6, <1>7 DEF Accounted
<1>9. QED
  BY <1>8 DEF more, batch

\* All that wait are discarded, as there was no handler yet.
LEMMA AllAreDiscarded ==
  ASSUME NEW lost \in Seq(Nat), NEW waiting \in Seq(Nat), NEW n \in Nat,
         Accounted(lost, <<>>, waiting, n)
  PROVE  Accounted(lost \o waiting, <<>>, <<>>, n)
<1> DEFINE t == Before(lost, <<>>, Len(<<>>) + 1)
           all == lost \o waiting
<1>1. t = Len(lost) /\ Len(lost) \in Nat /\ Len(waiting) \in Nat
  BY DEF Before
<1>2. /\ FollowOn(lost, 0) /\ FollowOn(waiting, Len(lost)) /\ n = Len(lost) + Len(waiting)
  BY <1>1 DEF Accounted
<1>3. /\ all \in Seq(Nat) /\ Len(all) = Len(lost) + Len(waiting)
      /\ \A i \in 1..(Len(lost) + Len(waiting)) :
           all[i] = IF i <= Len(lost) THEN lost[i] ELSE waiting[i - Len(lost)]
  BY ConcatProperties
<1> HIDE DEF all, t
<1>4. ASSUME NEW i \in 1..(Len(lost) + Len(waiting)) PROVE all[i] = 0 + i
  <2>1. CASE i <= Len(lost)
    <3>1. i \in DOMAIN lost
      BY <1>1, <2>1
    <3>2. QED
      BY <1>2, <1>3, <2>1, <3>1 DEF FollowOn
  <2>2. CASE i > Len(lost)
    <3>1. i - Len(lost) \in DOMAIN waiting /\ Len(lost) + (i - Len(lost)) = i /\ ~(i <= Len(lost))
      BY <1>1, <2>2
    <3>2. waiting[i - Len(lost)] = Len(lost) + (i - Len(lost))
      BY <1>2, <3>1 DEF FollowOn
    <3>3. QED
      BY <1>1, <1>3, <3>1, <3>2
  <2>3. QED
    BY <1>1, <2>1, <2>2
<1>5. FollowOn(all, 0)
  <2>1. DOMAIN all = 1..(Len(lost) + Len(waiting))
    BY <1>3
  <2>2. QED
    BY <1>4, <2>1 DEF FollowOn
<1>6. Before(all, <<>>, Len(<<>>) + 1) = n
  BY <1>2, <1>3 DEF Before
<1>7. FollowOn(<<>>, n) /\ n = n + Len(<<>>)
  BY DEF FollowOn
<1>8. Accounted(all, <<>>, <<>>, n)
  BY <1>5, <1>6, <1>7 DEF Accounted
<1>9. QED
  BY <1>8 DEF all

\* flush() of all the events, n of them, that are buffered, or are to be
LEMMA FlushKeeps ==
  ASSUME NEW events \in Seq(Nat), NEW n \in Nat, NEW again \in BOOLEAN,
         handedOver \in Seq(Handings), discarded \in Seq(Nat), collector \in Nat,
         bufferSize \in Nat, bufferSize > 1, flushHandler \in BOOLEAN,
         handedOver # <<>> => flushHandler,
         Accounted(discarded, handedOver, events, n),
         events = <<>> => n = tracked, again => events # <<>> /\ flushHandler,
         Flush(events, again)
  PROVE  /\ Accounted(discarded', handedOver', buffered', tracked')
         /\ tracked' = n + (IF again THEN 1 ELSE 0)
         /\ buffered' \in Seq(Nat) /\ Len(buffered') < bufferSize
         /\ handedOver' \in Seq(Handings) /\ discarded' \in Seq(Nat)
         /\ handedOver' # <<>> => flushHandler
<1>1. CASE events = <<>>
  <2>1. ~again /\ buffered' = <<>> /\ tracked' = n /\ UNCHANGED <<handedOver, discarded>>
    BY <1>1 DEF Flush
  <2>2. QED
    BY <1>1, <2>1
<1>2. CASE events # <<>>
  <2>1. Last(events) = n
    BY <1>2, LastIsTracked
  <2>2. /\ buffered' = IF again THEN <<n + 1>> ELSE <<>>
        /\ tracked' = n + (IF again THEN 1 ELSE 0)
    BY <1>2, <2>1 DEF Flush
  <2>3. /\ handedOver' \in Seq(Handings) /\ discarded' \in Seq(Nat)
        /\ handedOver' # <<>> => flushHandler
        /\ Accounted(discarded', handedOver', <<>>, n)
    <3>1. CASE flushHandler
      <4>1. /\ handedOver' = Append(handedOver, [events |-> events, counter |-> collector])
            /\ discarded' = discarded
        BY <1>2, <3>1 DEF Flush
      <4>2. [events |-> events, counter |-> collector] \in Handings
        BY DEF Handings
      <4>3. Accounted(discarded, handedOver', <<>>, n)
        BY <1>2, <4>1, AllAreHanded
      <4>4. QED
        BY <3>1, <4>1, <4>2, <4>3
    <3>2. CASE ~flushHandler
      <4>1. handedOver = <<>> /\ handedOver' = <<>> /\ discarded' = discarded \o events
        BY <1>2, <3>2 DEF Flush
      <4>2. Accounted(discarded', <<>>, <<>>, n)
        BY <4>1, AllAreDiscarded
      <4>3. discarded' \in Seq(Nat)
        BY <4>1
      <4>4. QED
        BY <4>1, <4>2, <4>3
    <3>3. QED
      BY <3>1, <3>2
  <2>4. CASE again
    <3>1. buffered' = <<n + 1>> /\ tracked' = n + 1 /\ Append(<<>>, n + 1) = <<n + 1>>
      BY <2>2, <2>4
    <3>2. <<>> \in Seq(Nat)
      OBVIOUS
    <3>3. Accounted(discarded', handedOver', Append(<<>>, n + 1), n + 1)
      BY <2>3, <3>2, OneIsBuffered
    <3>4. <<n + 1>> \in Seq(Nat) /\ Len(<<n + 1>>) = 1
      OBVIOUS
    <3>5. QED
      BY <2>2, <2>3, <3>1, <3>3, <3>4
  <2>5. CASE ~again
    <3>1. buffered' = <<>> /\ tracked' = n /\ n + 0 = n
      BY <2>2, <2>5
    <3>2. <<>> \in Seq(Nat) /\ Len(<<>>) = 0
      OBVIOUS
    <3>3. QED
      BY <2>2, <2>3, <3>1, <3>2
  <2>6. QED
    BY <2>4, <2>5
<1>3. QED
  BY <1>1, <1>2

\* What flush() leaves alone
Others ==
  /\ telemetryOn \in BOOLEAN /\ flushHandler \in BOOLEAN /\ destroyed \in BOOLEAN
  /\ flushTimers \in 0..1 /\ (~destroyed => (telemetryOn <=> flushTimers = 1))

LEMMA TelemetryFacts ==
  ASSUME TelemetryIInv
  PROVE  /\ handedOver \in Seq(Handings) /\ discarded \in Seq(Nat) /\ collector \in Nat
         /\ flushHandler \in BOOLEAN /\ (handedOver # <<>> => flushHandler)
         /\ buffered \in Seq(Nat) /\ tracked \in Nat /\ tracked <= MaxTracked
         /\ Len(buffered) < bufferSize /\ Others
         /\ Accounted(discarded, handedOver, buffered, tracked)
<1>1. TelemetryTyped /\ CountersTyped /\ Accounted(discarded, handedOver, buffered, tracked)
  BY DEF TelemetryIInv
<1>2. Others
  BY <1>1 DEF TelemetryTyped, Others
<1>3. collector \in Nat
  BY <1>1 DEF CountersTyped
<1>4. tracked \in Nat /\ tracked <= MaxTracked
  BY <1>1, TelemetryConstants DEF TelemetryTyped
<1>5. QED
  BY <1>1, <1>2, <1>3, <1>4 DEF TelemetryTyped

LEMMA TrackKeeps ==
  ASSUME TelemetryIInv, NEW again \in BOOLEAN, Track(again)
  PROVE  TelemetryIInv'
<1> DEFINE events == Append(buffered, tracked + 1)
<1>1. /\ telemetryOn /\ tracked < MaxTracked /\ MayTrackAgain(again)
      /\ UNCHANGED <<telemetryOn, flushTimers, flushHandler, counters, collector, destroyed>>
      /\ IF Len(events) >= bufferSize THEN Flush(events, again)
         ELSE /\ ~again /\ buffered' = events /\ tracked' = tracked + 1
              /\ UNCHANGED <<handedOver, discarded>>
  BY DEF Track, metricVars
<1>2. /\ events \in Seq(Nat) /\ events # <<>> /\ Len(events) = Len(buffered) + 1
      /\ Len(buffered) \in Nat /\ tracked + 1 \in Nat
  <2>1. buffered \in Seq(Nat) /\ tracked \in Nat
    BY TelemetryFacts
  <2>2. events \in Seq(Nat) /\ Len(events) = Len(buffered) + 1 /\ Len(buffered) \in Nat
    BY <2>1
  <2>3. events # <<>>
    <3>1. Len(events) # 0 /\ Len(<<>>) = 0
      BY <2>2
    <3>2. QED
      BY <3>1
  <2>4. QED
    BY <2>1, <2>2, <2>3
<1>3. Accounted(discarded, handedOver, events, tracked + 1)
  BY TelemetryFacts, OneIsBuffered
<1> HIDE DEF events
<1>4. /\ Accounted(discarded', handedOver', buffered', tracked')
      /\ buffered' \in Seq(Nat) /\ Len(buffered') < bufferSize
      /\ handedOver' \in Seq(Handings) /\ discarded' \in Seq(Nat)
      /\ handedOver' # <<>> => flushHandler
      /\ tracked' = tracked + 1 + (IF again THEN 1 ELSE 0)
  <2>1. CASE Len(events) >= bufferSize
    <3>1. Flush(events, again)
      BY <1>1, <2>1
    <3>2. again => flushHandler
      BY <1>1 DEF MayTrackAgain
    <3>3. QED
      BY <1>2, <1>3, <3>1, <3>2, FlushKeeps, TelemetryFacts, TelemetryConstants
  <2>2. CASE ~(Len(events) >= bufferSize)
    <3>1. ~again /\ buffered' = events /\ tracked' = tracked + 1 /\ UNCHANGED <<handedOver, discarded>>
      BY <1>1, <2>2
    <3>2. Len(events) < bufferSize /\ tracked + 1 + 0 = tracked + 1
      BY <1>2, <2>2, TelemetryConstants
    <3>3. QED
      BY <1>2, <1>3, <3>1, <3>2, TelemetryFacts
  <2>3. QED
    BY <2>1, <2>2
<1>5. tracked' \in 0..MaxTracked
  <2>1. again => tracked + 1 < MaxTracked
    BY <1>1 DEF MayTrackAgain
  <2>2. tracked < MaxTracked
    BY <1>1
  <2>3. tracked' = tracked + 1 + (IF again THEN 1 ELSE 0)
    BY <1>4
  <2>4. tracked \in Nat /\ MaxTracked \in Nat
    BY TelemetryFacts, TelemetryConstants
  <2>5. QED
    BY <2>1, <2>2, <2>3, <2>4
<1>6. Others'
  BY <1>1, TelemetryFacts DEF Others
<1>7. TelemetryTyped'
  BY <1>1, <1>4, <1>5, <1>6 DEF TelemetryTyped, Others
<1>8. CountersTyped'
  BY <1>1 DEF TelemetryIInv, CountersTyped
<1>9. QED
  BY <1>4, <1>7, <1>8 DEF TelemetryIInv

\* flush() of the buffer, by the interval, an application, or the service itself
LEMMA FlushBufferKeeps ==
  ASSUME TelemetryIInv, NEW again \in BOOLEAN, MayTrackAgain(again), Flush(buffered, again),
         UNCHANGED flushHandler, Others'
  PROVE  /\ TelemetryTyped' /\ Accounted(discarded', handedOver', buffered', tracked')
<1>1. again => flushHandler /\ buffered # <<>> /\ tracked + 1 < MaxTracked
  BY DEF MayTrackAgain
<1>2. /\ Accounted(discarded', handedOver', buffered', tracked')
      /\ buffered' \in Seq(Nat) /\ Len(buffered') < bufferSize
      /\ handedOver' \in Seq(Handings) /\ discarded' \in Seq(Nat)
      /\ handedOver' # <<>> => flushHandler
      /\ tracked' = tracked + (IF again THEN 1 ELSE 0)
  BY <1>1, FlushKeeps, TelemetryFacts, TelemetryConstants
<1>3. tracked' \in 0..MaxTracked
  BY <1>1, <1>2, TelemetryFacts, TelemetryConstants
<1>4. QED
  BY <1>2, <1>3 DEF TelemetryTyped, Others

LEMMA IncrementKeeps ==
  ASSUME TelemetryIInv, Increment
  PROVE  CountersTyped'
<1>1. /\ counters \in Seq(1..MaxCounted) /\ collector \in 0..Len(counters)
      /\ MaxCounted \in Nat /\ Len(counters) \in Nat
  BY TelemetryConstants DEF TelemetryIInv, CountersTyped
<1>2. CASE collector = 0
  <2>1. /\ Len(counters) < MaxCounted /\ counters' = Append(counters, 1)
        /\ collector' = Len(counters) + 1
    BY <1>2 DEF Increment
  <2>2. 1 \in 1..MaxCounted
    BY <1>1, <2>1
  <2>3. counters' \in Seq(1..MaxCounted) /\ Len(counters') = Len(counters) + 1
    BY <1>1, <2>1, <2>2
  <2>4. QED
    BY <1>1, <2>1, <2>3 DEF CountersTyped
<1>3. CASE collector # 0
  <2>1. /\ counters[collector] < MaxCounted /\ collector' = collector
        /\ counters' = [counters EXCEPT ![collector] = counters[collector] + 1]
    BY <1>3 DEF Increment
  <2>2. collector \in 1..Len(counters)
    BY <1>1, <1>3
  <2>3. counters[collector] \in 1..MaxCounted
    BY <1>1, <2>2
  <2>4. counters[collector] + 1 \in 1..MaxCounted
    BY <1>1, <2>1, <2>3
  <2>5. counters' \in Seq(1..MaxCounted) /\ Len(counters') = Len(counters)
    BY <1>1, <2>1, <2>2, <2>4, ExceptSeq
  <2>6. QED
    BY <1>1, <2>1, <2>5 DEF CountersTyped
<1>4. QED
  BY <1>2, <1>3

\* An interval runs, and only one, while the service is enabled and not destroyed.
LEMMA TimersKept ==
  ASSUME TelemetryIInv, NEW on \in BOOLEAN, telemetryOn' = on, UNCHANGED <<flushHandler, destroyed>>,
         \/ flushTimers' = (IF on THEN StartFlushTimer(flushTimers) ELSE StopFlushTimer(flushTimers))
         \/ telemetryOn = on /\ flushTimers' = flushTimers
  PROVE  Others'
<1>1. Others
  BY TelemetryFacts
<1>2. /\ flushTimers \in 0..1
      /\ StartFlushTimer(flushTimers) = 1 /\ StopFlushTimer(flushTimers) = 0
  BY <1>1 DEF Others, StartFlushTimer, StopFlushTimer
<1>3. CASE telemetryOn = on /\ flushTimers' = flushTimers
  BY <1>1, <1>3 DEF Others
<1>4. CASE flushTimers' = (IF on THEN StartFlushTimer(flushTimers) ELSE StopFlushTimer(flushTimers))
  <2>1. flushTimers' = IF on THEN 1 ELSE 0
    BY <1>2, <1>4
  <2>2. flushTimers' \in 0..1 /\ (on <=> flushTimers' = 1)
    BY <2>1
  <2>3. flushHandler' \in BOOLEAN /\ destroyed' \in BOOLEAN /\ telemetryOn' \in BOOLEAN
    BY <1>1 DEF Others
  <2>4. QED
    BY <2>2, <2>3 DEF Others
<1>5. QED
  BY <1>3, <1>4

LEMMA TelemetryInvStep ==
  ASSUME TelemetryIInv, [TelemetryNext]_telemetryVars
  PROVE  TelemetryIInv'
<1>1. TelemetryTyped /\ CountersTyped /\ Accounted(discarded, handedOver, buffered, tracked)
  BY DEF TelemetryIInv
<1>2. UNCHANGED metricVars => CountersTyped'
  BY <1>1 DEF CountersTyped, metricVars
<1>3. UNCHANGED <<buffered, tracked, handedOver, discarded>> =>
        Accounted(discarded', handedOver', buffered', tracked')
  BY <1>1
<1>4. UNCHANGED <<buffered, tracked, handedOver, discarded>> /\ Others'
        /\ (flushHandler => flushHandler') => TelemetryTyped'
  BY <1>1 DEF TelemetryTyped, Others
<1>5. Others
  BY TelemetryFacts
<1>6. CASE UNCHANGED telemetryVars
  <2>1. Others'
    BY <1>5, <1>6 DEF Others, telemetryVars
  <2>2. QED
    BY <1>2, <1>3, <1>4, <1>6, <2>1 DEF TelemetryIInv, telemetryVars, metricVars
<1>7. CASE \E again \in BOOLEAN : Track(again)
  BY <1>7, TrackKeeps
<1>8. CASE \E again \in BOOLEAN : FlushNow(again)
  <2>1. PICK again \in BOOLEAN : FlushNow(again)
    BY <1>8
  <2>2. /\ MayTrackAgain(again) /\ Flush(buffered, again) /\ UNCHANGED metricVars
        /\ UNCHANGED <<telemetryOn, flushTimers, flushHandler, destroyed>>
    BY <2>1 DEF FlushNow
  <2>3. Others'
    BY <1>5, <2>2 DEF Others
  <2>4. QED
    BY <1>2, <2>2, <2>3, FlushBufferKeeps DEF TelemetryIInv
<1>9. CASE \E again \in BOOLEAN : Destroy(again)
  <2>1. PICK again \in BOOLEAN : Destroy(again)
    BY <1>9
  <2>2. /\ MayTrackAgain(again) /\ Flush(buffered, again)
        /\ flushTimers' = StopFlushTimer(flushTimers) /\ collector' = 0 /\ destroyed' = TRUE
        /\ UNCHANGED <<telemetryOn, flushHandler, counters>>
    BY <2>1 DEF Destroy
  <2>3. Others'
    BY <1>5, <2>2 DEF Others, StopFlushTimer
  <2>4. CountersTyped'
    BY <1>1, <2>2 DEF CountersTyped
  <2>5. QED
    BY <2>2, <2>3, <2>4, FlushBufferKeeps DEF TelemetryIInv
<1>10. CASE \E on \in BOOLEAN : SetEnabled(on)
  <2>1. PICK on \in BOOLEAN : SetEnabled(on)
    BY <1>10
  <2>2. /\ telemetryOn' = on /\ UNCHANGED metricVars
        /\ flushTimers' = IF on THEN StartFlushTimer(flushTimers) ELSE StopFlushTimer(flushTimers)
        /\ UNCHANGED <<flushHandler, buffered, tracked, handedOver, discarded, destroyed>>
    BY <2>1 DEF SetEnabled
  <2>3. Others'
    BY <2>2, TimersKept
  <2>4. QED
    BY <1>2, <1>3, <1>4, <2>2, <2>3 DEF TelemetryIInv
<1>11. CASE \E on \in BOOLEAN : UpdateConfig(on)
  <2>1. PICK on \in BOOLEAN : UpdateConfig(on)
    BY <1>11
  <2>2. /\ telemetryOn' = on /\ UNCHANGED metricVars /\ UNCHANGED <<flushHandler, destroyed>>
        /\ IF telemetryOn /\ ~on THEN Flush(buffered, FALSE)
           ELSE UNCHANGED <<buffered, tracked, handedOver, discarded>>
    BY <2>1 DEF UpdateConfig
  <2>3. \/ flushTimers' = (IF on THEN StartFlushTimer(flushTimers) ELSE StopFlushTimer(flushTimers))
        \/ telemetryOn = on /\ flushTimers' = flushTimers
    BY <2>1 DEF UpdateConfig
  <2>4. Others'
    BY <2>2, <2>3, TimersKept
  <2>5. CASE telemetryOn /\ ~on
    <3>1. MayTrackAgain(FALSE)
      BY DEF MayTrackAgain
    <3>2. QED
      BY <1>2, <2>2, <2>4, <2>5, <3>1, FlushBufferKeeps DEF TelemetryIInv
  <2>6. CASE ~(telemetryOn /\ ~on)
    BY <1>2, <1>3, <1>4, <2>2, <2>4, <2>6 DEF TelemetryIInv
  <2>7. QED
    BY <2>5, <2>6
<1>12. CASE OnFlush
  <2>1. /\ flushHandler' = TRUE /\ UNCHANGED metricVars
        /\ UNCHANGED <<telemetryOn, flushTimers, buffered, tracked, handedOver, discarded, destroyed>>
    BY <1>12 DEF OnFlush
  <2>2. Others'
    BY <1>5, <2>1 DEF Others
  <2>3. QED
    BY <1>2, <1>3, <1>4, <2>1, <2>2 DEF TelemetryIInv
<1>13. CASE Increment
  <2>1. UNCHANGED <<telemetryOn, flushTimers, flushHandler, buffered, tracked, handedOver,
                    discarded, destroyed>>
    BY <1>13 DEF Increment
  <2>2. Others'
    BY <1>5, <2>1 DEF Others
  <2>3. QED
    BY <1>3, <1>4, <1>13, <2>1, <2>2, IncrementKeeps DEF TelemetryIInv
<1>14. QED
  BY <1>6, <1>7, <1>8, <1>9, <1>10, <1>11, <1>12, <1>13 DEF TelemetryNext

LEMMA TelemetryInvMeans == TelemetryIInv => TelemetryTypeOK /\ TelemetryAccountsForAll
<1> SUFFICES ASSUME TelemetryIInv PROVE TelemetryTypeOK /\ TelemetryAccountsForAll
  OBVIOUS
<1>1. TelemetryTyped /\ CountersTyped /\ Accounted(discarded, handedOver, buffered, tracked)
  BY DEF TelemetryIInv
<1>2. TelemetryTypeOK
  BY <1>1, TelemetryConstants DEF TelemetryTyped, CountersTyped, TelemetryTypeOK
<1>3. \A k : TakenBefore(k) = Before(discarded, handedOver, k)
  BY DEF TakenBefore, Before
<1>4. flushTimers <= 1
  BY <1>1 DEF TelemetryTyped
<1>5. TelemetryAccountsForAll
  BY <1>1, <1>3, <1>4 DEF TelemetryTyped, Accounted, TelemetryAccountsForAll
<1>6. QED
  BY <1>2, <1>5

(* No event is lost or given twice, whatever a handler has tracked in the middle
   of a flush, and while the service is enabled one interval runs, and only one,
   until it is destroyed.  (src/telemetry/telemetryService.ts:38-55, 65-91, 99-110) *)
THEOREM TelemetryLosesNothing == TelemetrySpec => []TelemetryAccountsForAll
<1>1. TelemetryInit => TelemetryIInv
  BY TelemetryInvInit
<1>2. TelemetryIInv /\ [TelemetryNext]_telemetryVars => TelemetryIInv'
  BY TelemetryInvStep
<1>3. TelemetryIInv => TelemetryAccountsForAll
  BY TelemetryInvMeans
<1>4. QED
  BY <1>1, <1>2, <1>3, PTL DEF TelemetrySpec

-----------------------------------------------------------------------------
(* Profiling *)

\* Numbers that have a bound have a greatest one.
LEMMA GreatestOf ==
  ASSUME NEW S \in SUBSET Nat, S # {}, NEW b \in Nat, \A s \in S : s <= b
  PROVE  \E n \in S : \A m \in S : m <= n
<1> DEFINE Rest == {b - s : s \in S}
<1>1. Rest \in SUBSET Nat /\ Rest # {}
  <2>1. ASSUME NEW s \in S PROVE b - s \in Nat
    <3>1. s \in Nat /\ s <= b
      OBVIOUS
    <3>2. QED
      BY <3>1
  <2>2. QED
    BY <2>1
<1>2. PICK r \in Rest : \A t \in Rest : r <= t
  BY <1>1, LeastOf
<1>3. PICK n \in S : r = b - n
  BY <1>2
<1>4. \A m \in S : b - n <= b - m
  BY <1>2, <1>3
<1>5. \A m \in S : m <= n
  BY <1>4
<1>6. QED
  BY <1>5

\* The places of a sequence of which something holds are finitely many.
LEMMA PlacesAreFinite ==
  ASSUME NEW n \in Nat, NEW S \in SUBSET (1..n)
  PROVE  IsFiniteSet(S) /\ Cardinality(S) \in Nat /\ Cardinality(S) <= n
<1>1. IsFiniteSet(1..n) /\ Cardinality(1..n) = n
  <2>1. Cardinality(1..n) = IF 1 > n THEN 0 ELSE n - 1 + 1
    BY FS_Interval
  <2>2. QED
    BY <2>1, FS_Interval
<1>2. QED
  BY <1>1, FS_Subset, FS_CardinalityType

LEMMA FewerPlaces ==
  ASSUME NEW n \in Nat, NEW S \in SUBSET (1..n), NEW T \in SUBSET S
  PROVE  Cardinality(T) <= Cardinality(S)
BY PlacesAreFinite, FS_Subset

\* The greatest of some of the elements of a sequence
LEMMA GreatestPlace ==
  ASSUME NEW q \in Seq(Nat), NEW P \in SUBSET (1..Len(q)), P # {}
  PROVE  \E i \in P : \A j \in P : q[j] <= q[i]
<1> DEFINE n == Len(q)
           T == {k \in Nat : \E b \in Nat : \A i \in 1..n : i <= k => q[i] <= b}
<1>1. n \in Nat /\ \A i \in 1..n : q[i] \in Nat
  OBVIOUS
<1> HIDE DEF n
<1>2. 0 \in T
  BY <1>1
<1>3. ASSUME NEW k \in Nat, k \in T PROVE k + 1 \in T
  <2>6. k + 1 \in Nat
    OBVIOUS
  <2>5. SUFFICES \E b \in Nat : \A i \in 1..n : i <= k + 1 => q[i] <= b
    BY <2>6, Zenon
  <2>1. PICK b \in Nat : \A i \in 1..n : i <= k => q[i] <= b
    BY <1>3
  <2>2. CASE k + 1 \in 1..n
    <3>1. q[k + 1] \in Nat
      BY <1>1, <2>2
    <3>2. b + q[k + 1] \in Nat /\ q[k + 1] <= b + q[k + 1]
      BY <3>1
    <3>3. ASSUME NEW i \in 1..n, i <= k + 1 PROVE q[i] <= b + q[k + 1]
      <4>1. CASE i = k + 1
        BY <3>2, <4>1
      <4>2. CASE i # k + 1
        <5>1. i <= k
          BY <1>1, <3>3, <4>2
        <5>2. q[i] <= b /\ q[i] \in Nat
          BY <1>1, <2>1, <5>1
        <5>3. QED
          BY <3>1, <5>2
      <4>3. QED
        BY <4>1, <4>2
    <3>4. QED
      BY <3>2, <3>3
  <2>3. CASE k + 1 \notin 1..n
    <3>1. \A i \in 1..n : i <= k + 1 => i <= k
      BY <1>1, <2>3
    <3>2. QED
      BY <2>1, <3>1
  <2>4. QED
    BY <2>2, <2>3
<1>4. n \in T
  <2> HIDE DEF T
  <2>1. Nat \subseteq T
    BY <1>2, <1>3, UpFromZero
  <2>2. QED
    BY <1>1, <2>1
<1>5. PICK b \in Nat : \A i \in 1..n : q[i] <= b
  BY <1>1, <1>4
<1> DEFINE Found == {q[i] : i \in P}
<1>6. /\ Found \in SUBSET Nat /\ Found # {} /\ \A v \in Found : v <= b
      /\ \A i \in P : i \in 1..n
  BY <1>1, <1>5 DEF n
<1>7. PICK v \in Found : \A w \in Found : w <= v
  BY <1>6, GreatestOf
<1>8. PICK i \in P : v = q[i]
  BY <1>7
<1>9. \A j \in P : q[j] <= q[i]
  BY <1>7, <1>8
<1>10. QED
  BY <1>9

\* How many durations are at most d, and how many less
NotLonger(q, d) == Cardinality({i \in DOMAIN q : q[i] <= d})
ShorterThan(q, d) == Cardinality({i \in DOMAIN q : q[i] < d})

LEMMA RankIsPlace ==
  ASSUME NEW n \in Nat, n > 0
  PROVE  /\ RankOf(n) \in 1..n
         /\ 100 * RankOf(n) >= n * Percentile /\ 100 * (RankOf(n) - 1) < n * Percentile
<1>1. Percentile \in 1..100
  BY ProfilingAssumption DEF ProfilingAssumption
<1> DEFINE m == n * Percentile
           r == (m + 99) \div 100
<1>2. m \in Nat /\ m >= 1
  BY <1>1
<1>3. m <= n * 100
  BY <1>1
<1>4. RankOf(n) = r
  BY DEF RankOf
<1> HIDE DEF m
<1>5. r \in Nat /\ 100 * r <= m + 99 /\ m + 99 < 100 * r + 100
  BY <1>2
<1> HIDE DEF r
<1>6. r >= 1 /\ r <= n /\ 100 * r >= m /\ 100 * (r - 1) < m
  BY <1>2, <1>3, <1>5
<1>7. QED
  BY <1>4, <1>5, <1>6 DEF m

\* There is a duration at every place of the sorted ones.
LEMMA RankIsThere ==
  ASSUME NEW q \in Seq(Nat), NEW rank \in 1..Len(q)
  PROVE  \E d \in Range(q) : ShorterThan(q, d) < rank /\ rank <= NotLonger(q, d)
<1> DEFINE n == Len(q)
           S == {d \in Range(q) : rank <= NotLonger(q, d)}
<1>1. n \in Nat /\ DOMAIN q = 1..n /\ n \in 1..n /\ rank \in 1..n
  OBVIOUS
<1>2. Range(q) = {q[i] : i \in 1..n}
  BY <1>1 DEF Range
<1>3. \A i \in 1..n : q[i] \in Nat
  OBVIOUS
<1>4. S \in SUBSET Nat
  BY <1>2, <1>3
<1>5. S # {}
  <2>1. PICK i \in 1..n : \A j \in 1..n : q[j] <= q[i]
    BY <1>1, GreatestPlace
  <2>2. {j \in DOMAIN q : q[j] <= q[i]} = 1..n
    BY <1>1, <2>1
  <2>3. Cardinality(1..n) = n
    <3>1. Cardinality(1..n) = IF 1 > n THEN 0 ELSE n - 1 + 1
      BY <1>1, FS_Interval
    <3>2. QED
      BY <1>1, <3>1
  <2>4. NotLonger(q, q[i]) = n
    BY <2>2, <2>3 DEF NotLonger
  <2>5. q[i] \in S
    BY <1>1, <1>2, <2>4
  <2>6. QED
    BY <2>5
<1>6. PICK d \in S : \A e \in S : d <= e
  <2> HIDE DEF S
  <2>1. QED
    BY <1>4, <1>5, LeastOf
<1>7. SUFFICES ASSUME rank <= ShorterThan(q, d) PROVE FALSE
  <2>1. ShorterThan(q, d) \in Nat
    BY <1>1, PlacesAreFinite DEF ShorterThan
  <2>2. d \in Range(q) /\ rank <= NotLonger(q, d)
    BY <1>6
  <2>3. rank \in Nat
    BY <1>1
  <2>4. ASSUME ~(rank <= ShorterThan(q, d)) PROVE ShorterThan(q, d) < rank
    BY <2>1, <2>3, <2>4
  <2>5. QED
    BY <2>2, <2>4
<1> DEFINE Less == {i \in DOMAIN q : q[i] < d}
<1>8. Less \in SUBSET (1..n) /\ Less # {}
  <2>1. Less = {} => ShorterThan(q, d) = 0
    BY FS_EmptySet DEF ShorterThan
  <2>2. QED
    BY <1>1, <1>7, <2>1
<1>9. PICK i \in Less : \A j \in Less : q[j] <= q[i]
  <2> HIDE DEF Less
  <2>1. QED
    BY <1>8, GreatestPlace
<1>10. {j \in DOMAIN q : q[j] <= q[i]} = Less
  <2>1. d \in Nat /\ q[i] < d /\ i \in 1..n
    BY <1>1, <1>4, <1>6, <1>9
  <2>2. \A j \in 1..n : q[j] <= q[i] => q[j] < d
    BY <1>3, <2>1
  <2>3. QED
    BY <1>1, <1>9, <2>2
<1>11. NotLonger(q, q[i]) = ShorterThan(q, d)
  BY <1>10 DEF NotLonger, ShorterThan
<1>12. q[i] \in S
  <2>1. q[i] \in Range(q)
    BY <1>1, <1>2, <1>9
  <2>2. QED
    BY <1>7, <1>11, <2>1
<1>13. d <= q[i] /\ q[i] < d /\ d \in Nat /\ q[i] \in Nat
  BY <1>1, <1>3, <1>4, <1>6, <1>9, <1>12
<1>14. QED
  BY <1>13

MetricsRecorded ==
  [id : Nat, call : ProfiledCalls, duration : Durations, success : BOOLEAN, memory : BOOLEAN]
RecordedCallsOf == {c \in ProfiledCalls : profiled[c].state = "recorded"}

ProfilingTyped ==
  /\ enabled \in BOOLEAN /\ profilingLevel \in {"off", "basic", "detailed"}
  /\ profileMetrics \in Seq(MetricsRecorded)
  /\ profiled \in [ProfiledCalls -> [state : {"new", "measured", "unmeasured", "recorded",
                                               "unrecorded"}, memory : BOOLEAN]]
  /\ nextProfileId \in Nat /\ switched \in 0..MaxSwitched

\* Every call that was recorded since clear() is there, once, under a number of its own.
MetricsTold ==
  /\ endedSinceClear \subseteq RecordedCallsOf
  /\ IsFiniteSet(endedSinceClear) /\ Len(profileMetrics) = Cardinality(endedSinceClear)
  /\ {profileMetrics[i].call : i \in 1..Len(profileMetrics)} = endedSinceClear
  /\ \A i, j \in 1..Len(profileMetrics) : i < j => profileMetrics[i].id < profileMetrics[j].id
  /\ \A i \in 1..Len(profileMetrics) : profileMetrics[i].id < nextProfileId
  /\ IsFiniteSet(RecordedCallsOf) /\ nextProfileId = 1 + Cardinality(RecordedCallsOf)

ProfilingIInv == ProfilingTyped /\ MetricsTold

LEMMA ProfilingInvInit == ProfilingInit => ProfilingIInv
<1> SUFFICES ASSUME ProfilingInit PROVE ProfilingIInv
  OBVIOUS
<1>1. MaxSwitched \in Nat
  BY ProfilingAssumption DEF ProfilingAssumption
<1>2. ProfilingTyped
  <2>1. <<>> \in Seq(MetricsRecorded)
    OBVIOUS
  <2>2. QED
    BY <1>1, <2>1 DEF ProfilingInit, ProfilingTyped
<1>3. RecordedCallsOf = {} /\ endedSinceClear = {} /\ profileMetrics = <<>> /\ nextProfileId = 1
  BY DEF ProfilingInit, RecordedCallsOf
<1>4. IsFiniteSet({}) /\ Cardinality({}) = 0 /\ Len(<<>>) = 0
  BY FS_EmptySet
<1>5. MetricsTold
  BY <1>3, <1>4 DEF MetricsTold
<1>6. QED
  BY <1>2, <1>5 DEF ProfilingIInv

\* Switching the service changes nothing that was recorded.
LEMMA SwitchKeeps ==
  ASSUME ProfilingIInv, Switch, enabled' \in BOOLEAN,
         profilingLevel' \in {"off", "basic", "detailed"},
         UNCHANGED <<profileMetrics, nextProfileId, profiled, endedSinceClear>>
  PROVE  ProfilingIInv'
<1>1. ProfilingTyped /\ MetricsTold
  BY DEF ProfilingIInv
<1>2. switched' \in 0..MaxSwitched
  BY <1>1, ProfilingAssumption DEF Switch, ProfilingTyped, ProfilingAssumption
<1>3. ProfilingTyped'
  BY <1>1, <1>2 DEF ProfilingTyped
<1>4. MetricsTold'
  BY <1>1 DEF MetricsTold, RecordedCallsOf
<1>5. QED
  BY <1>3, <1>4 DEF ProfilingIInv

LEMMA ClearMetricsKeeps ==
  ASSUME ProfilingIInv, ClearMetrics
  PROVE  ProfilingIInv'
<1>1. ProfilingTyped /\ MetricsTold
  BY DEF ProfilingIInv
<1>2. /\ profileMetrics' = <<>> /\ endedSinceClear' = {} /\ nextProfileId' = nextProfileId
      /\ UNCHANGED <<enabled, profilingLevel, profiled>> /\ Switch
  BY DEF ClearMetrics, NextAfterClear
<1>3. switched' \in 0..MaxSwitched
  BY <1>1, <1>2, ProfilingAssumption DEF Switch, ProfilingTyped, ProfilingAssumption
<1>4. IsFiniteSet({}) /\ Cardinality({}) = 0 /\ Len(<<>>) = 0 /\ <<>> \in Seq(MetricsRecorded)
  BY FS_EmptySet
<1>5. ProfilingTyped'
  BY <1>1, <1>2, <1>3, <1>4 DEF ProfilingTyped
<1>6. MetricsTold'
  BY <1>1, <1>2, <1>4 DEF MetricsTold, RecordedCallsOf
<1>7. QED
  BY <1>5, <1>6 DEF ProfilingIInv

LEMMA StartProfileKeeps ==
  ASSUME ProfilingIInv, NEW c \in ProfiledCalls, StartProfile(c)
  PROVE  ProfilingIInv'
<1>1. ProfilingTyped /\ MetricsTold
  BY DEF ProfilingIInv
<1>2. /\ profiled[c].state = "new"
      /\ UNCHANGED <<enabled, profilingLevel, profileMetrics, nextProfileId, endedSinceClear,
                     switched>>
  BY DEF StartProfile
<1>3. PICK s \in {"measured", "unmeasured"}, b \in BOOLEAN :
        profiled' = [profiled EXCEPT ![c] = [state |-> s, memory |-> b]]
  <2>1. PICK b \in BOOLEAN : b = (ProfilingIsOn /\ profilingLevel = "detailed")
    OBVIOUS
  <2>2. PICK s \in {"measured", "unmeasured"} :
          s = IF ProfilingIsOn THEN "measured" ELSE "unmeasured"
    OBVIOUS
  <2>3. QED
    BY <2>1, <2>2 DEF StartProfile
<1>4. ProfilingTyped'
  BY <1>1, <1>2, <1>3 DEF ProfilingTyped
<1>5. RecordedCallsOf' = RecordedCallsOf
  BY <1>1, <1>2, <1>3 DEF RecordedCallsOf, ProfilingTyped
<1>6. MetricsTold'
  BY <1>1, <1>2, <1>5 DEF MetricsTold
<1>7. QED
  BY <1>4, <1>6 DEF ProfilingIInv

LEMMA EndProfileKeeps ==
  ASSUME ProfilingIInv, NEW c \in ProfiledCalls, NEW d \in Durations, NEW s \in BOOLEAN,
         EndProfile(c, d, s)
  PROVE  ProfilingIInv'
<1>1. ProfilingTyped /\ MetricsTold
  BY DEF ProfilingIInv
<1>2. /\ profiled[c].state \in {"measured", "unmeasured"}
      /\ UNCHANGED <<enabled, profilingLevel, switched>>
      /\ profiled' = [profiled EXCEPT ![c].state =
           IF profiled[c].state = "measured" THEN "recorded" ELSE "unrecorded"]
  BY DEF EndProfile
<1>3. profiled' \in [ProfiledCalls -> [state : {"new", "measured", "unmeasured", "recorded",
                                                "unrecorded"}, memory : BOOLEAN]]
  BY <1>1, <1>2 DEF ProfilingTyped
<1>4. CASE profiled[c].state = "unmeasured"
  <2>1. UNCHANGED <<profileMetrics, nextProfileId, endedSinceClear>>
    BY <1>4 DEF EndProfile, Recorded
  <2>2. ProfilingTyped'
    BY <1>1, <1>2, <1>3, <2>1 DEF ProfilingTyped
  <2>3. RecordedCallsOf' = RecordedCallsOf
    BY <1>1, <1>2, <1>4 DEF RecordedCallsOf, ProfilingTyped
  <2>4. MetricsTold'
    BY <1>1, <2>1, <2>3 DEF MetricsTold
  <2>5. QED
    BY <2>2, <2>4 DEF ProfilingIInv
<1>5. CASE profiled[c].state = "measured"
  <2>1. PICK b \in BOOLEAN : b = (profiled[c].memory /\ profilingLevel = "detailed")
    OBVIOUS
  <2> DEFINE metric == [id |-> nextProfileId, call |-> c, duration |-> d, success |-> s,
                        memory |-> b]
             more == Append(profileMetrics, metric)
             n == Len(profileMetrics)
  <2>2. /\ profileMetrics' = more /\ nextProfileId' = nextProfileId + 1
        /\ endedSinceClear' = endedSinceClear \cup {c}
    BY <1>5, <2>1 DEF EndProfile, Recorded
  <2>3. metric \in MetricsRecorded /\ profileMetrics \in Seq(MetricsRecorded) /\ nextProfileId \in Nat
    BY <1>1 DEF ProfilingTyped, MetricsRecorded
  <2>4. metric.id = nextProfileId /\ metric.call = c
    OBVIOUS
  <2> HIDE DEF metric
  <2>5. /\ more \in Seq(MetricsRecorded) /\ Len(more) = n + 1 /\ n \in Nat
        /\ \A i \in 1..n : more[i] = profileMetrics[i]
        /\ more[n + 1] = metric
    BY <2>3, AppendProperties
  <2> HIDE DEF more
  <2>6. ProfilingTyped'
    BY <1>1, <1>2, <1>3, <2>2, <2>3, <2>5 DEF ProfilingTyped
  <2>7. RecordedCallsOf' = RecordedCallsOf \cup {c} /\ c \notin RecordedCallsOf
    BY <1>1, <1>2, <1>5 DEF RecordedCallsOf, ProfilingTyped
  <2>8. c \notin endedSinceClear
    BY <1>1, <2>7 DEF MetricsTold
  <2>9. /\ IsFiniteSet(endedSinceClear')
        /\ Cardinality(endedSinceClear') = Cardinality(endedSinceClear) + 1
    BY <1>1, <2>2, <2>8, FS_AddElement DEF MetricsTold
  <2>10. /\ IsFiniteSet(RecordedCallsOf')
         /\ Cardinality(RecordedCallsOf') = Cardinality(RecordedCallsOf) + 1
         /\ Cardinality(RecordedCallsOf) \in Nat
    BY <1>1, <2>7, FS_AddElement, FS_CardinalityType DEF MetricsTold
  <2> DEFINE k == Len(profileMetrics')
  <2>11. k = n + 1
    BY <2>2, <2>5
  <2>12. {profileMetrics'[i].call : i \in 1..k} = endedSinceClear'
    <3>1. 1..k = (1..n) \cup {n + 1}
      BY <2>5, <2>11
    <3>2. {profileMetrics[i].call : i \in 1..n} = endedSinceClear
      BY <1>1 DEF MetricsTold
    <3>3. QED
      BY <2>2, <2>4, <2>5, <3>1, <3>2
  <2>13. ASSUME NEW i \in 1..k
         PROVE  /\ profileMetrics'[i].id < nextProfileId'
                /\ i # n + 1 => profileMetrics'[i].id < nextProfileId
    <3>1. CASE i = n + 1
      BY <2>2, <2>3, <2>4, <2>5, <3>1
    <3>2. CASE i # n + 1
      <4>1. i \in 1..n
        BY <2>5, <2>11, <3>2
      <4>2. profileMetrics'[i] = profileMetrics[i] /\ profileMetrics[i] \in MetricsRecorded
        BY <2>2, <2>3, <2>5, <4>1
      <4>3. profileMetrics[i].id < nextProfileId /\ profileMetrics[i].id \in Nat
        BY <1>1, <4>1, <4>2 DEF MetricsTold, MetricsRecorded
      <4>4. QED
        BY <2>2, <2>3, <4>2, <4>3
    <3>3. QED
      BY <3>1, <3>2
  <2>14. ASSUME NEW i \in 1..k, NEW j \in 1..k, i < j
         PROVE  profileMetrics'[i].id < profileMetrics'[j].id
    <3>1. i # n + 1 /\ i \in 1..n
      BY <2>5, <2>11, <2>14
    <3>2. CASE j = n + 1
      BY <2>2, <2>4, <2>5, <2>13, <3>1, <3>2
    <3>3. CASE j # n + 1
      <4>1. j \in 1..n
        BY <2>5, <2>11, <3>3
      <4>2. profileMetrics[i].id < profileMetrics[j].id
        BY <1>1, <2>14, <3>1, <4>1 DEF MetricsTold
      <4>3. QED
        BY <2>2, <2>5, <3>1, <4>1, <4>2
    <3>4. QED
      BY <3>2, <3>3
  <2>15. k = Cardinality(endedSinceClear')
    BY <1>1, <2>9, <2>11 DEF MetricsTold
  <2>16. endedSinceClear' \subseteq RecordedCallsOf'
    BY <1>1, <2>2, <2>7 DEF MetricsTold
  <2>17. nextProfileId' = 1 + Cardinality(RecordedCallsOf')
    BY <1>1, <2>2, <2>10 DEF MetricsTold
  <2> HIDE DEF k
  <2>18. MetricsTold'
    BY <2>9, <2>10, <2>12, <2>13, <2>14, <2>15, <2>16, <2>17 DEF MetricsTold, k
  <2>19. QED
    BY <2>6, <2>18 DEF ProfilingIInv
<1>6. QED
  BY <1>2, <1>4, <1>5

LEMMA ProfilingInvStep ==
  ASSUME ProfilingIInv, [ProfilingNext]_profilingVars
  PROVE  ProfilingIInv'
<1>1. ProfilingTyped /\ MetricsTold
  BY DEF ProfilingIInv
<1>2. CASE UNCHANGED profilingVars
  BY <1>1, <1>2 DEF ProfilingIInv, ProfilingTyped, MetricsTold, RecordedCallsOf, profilingVars
<1>3. CASE \E l \in {"basic", "detailed"} : EnableProfiling(l)
  BY <1>3, SwitchKeeps DEF EnableProfiling
<1>4. CASE DisableProfiling
  BY <1>4, SwitchKeeps DEF DisableProfiling
<1>5. CASE ClearMetrics
  BY <1>5, ClearMetricsKeeps
<1>6. CASE \E c \in ProfiledCalls : StartProfile(c)
  BY <1>6, StartProfileKeeps
<1>7. CASE \E c \in ProfiledCalls : \E d \in Durations, s \in BOOLEAN : EndProfile(c, d, s)
  BY <1>7, EndProfileKeeps
<1>8. QED
  BY <1>2, <1>3, <1>4, <1>5, <1>6, <1>7 DEF ProfilingNext

LEMMA DurationsAreNumbers == Durations \subseteq Nat
BY ProfilingAssumption DEF ProfilingAssumption

LEMMA MeasuredTyped ==
  ASSUME ProfilingTyped
  PROVE  /\ Measured \in Seq(Nat) /\ Len(Measured) = Len(profileMetrics)
         /\ Len(profileMetrics) \in Nat /\ DOMAIN profileMetrics = 1..Len(profileMetrics)
         /\ \A i \in 1..Len(profileMetrics) :
              /\ Measured[i] = profileMetrics[i].duration /\ Measured[i] \in Nat
              /\ profileMetrics[i] \in MetricsRecorded
<1> DEFINE n == Len(profileMetrics)
<1>1. profileMetrics \in Seq(MetricsRecorded)
  BY DEF ProfilingTyped
<1>2. n \in Nat /\ DOMAIN profileMetrics = 1..n
  BY <1>1
<1>3. \A i \in 1..n : profileMetrics[i] \in MetricsRecorded
  BY <1>1
<1>4. \A i \in 1..n : profileMetrics[i].duration \in Nat
  BY <1>3, DurationsAreNumbers DEF MetricsRecorded
<1> HIDE DEF n
<1>5. Measured = [i \in 1..n |-> profileMetrics[i].duration]
  BY <1>2 DEF Measured
<1>6. Measured \in [1..n -> Nat]
  BY <1>4, <1>5
<1>7. Measured \in Seq(Nat) /\ Len(Measured) = n
  BY <1>2, <1>6
<1>8. QED
  BY <1>2, <1>3, <1>4, <1>5, <1>7 DEF n

\* The report's percentile is a duration that enough of the calls do not exceed,
\* and a shorter one would not be.
LEMMA PercentileCovers ==
  ASSUME ProfilingTyped, Len(profileMetrics) > 0
  PROVE  /\ 100 * NotLonger(Measured, Report.p95) >= Percentile * Len(profileMetrics)
         /\ \A d \in Durations : d < Report.p95 =>
              ~(100 * NotLonger(Measured, d) >= Percentile * Len(profileMetrics))
<1> DEFINE n == Len(profileMetrics)
           rank == RankOf(n)
<1>1. /\ n \in Nat /\ n > 0 /\ Measured \in Seq(Nat) /\ Len(Measured) = n
      /\ DOMAIN Measured = 1..n /\ \A i \in 1..n : Measured[i] \in Nat
  BY MeasuredTyped
<1>2. rank \in 1..n /\ 100 * rank >= n * Percentile /\ 100 * (rank - 1) < n * Percentile
  BY <1>1, RankIsPlace
<1>3. n * Percentile = Percentile * n /\ Percentile * n \in Nat
  BY <1>1, ProfilingAssumption DEF ProfilingAssumption
<1>4. Report.p95 = AtRank(rank)
  BY <1>2 DEF Report
<1> DEFINE p == AtRank(rank)
<1>5. \E d \in Range(Measured) : ShorterThan(Measured, d) < rank /\ rank <= NotLonger(Measured, d)
  BY <1>1, <1>2, RankIsThere
<1>6. p \in Range(Measured) /\ ShorterThan(Measured, p) < rank /\ rank <= NotLonger(Measured, p)
  BY <1>5 DEF AtRank, ShorterThan, NotLonger
<1> HIDE DEF n, rank, p
<1>7. \A d : NotLonger(Measured, d) \in Nat /\ ShorterThan(Measured, d) \in Nat
  BY <1>1, PlacesAreFinite DEF NotLonger, ShorterThan
<1>8. p \in Nat
  BY <1>1, <1>6 DEF Range
<1> DEFINE u == NotLonger(Measured, p)
           m == n * Percentile
<1>9. u \in Nat /\ m \in Nat /\ rank \in Nat /\ rank <= u /\ 100 * rank >= m
      /\ 100 * (rank - 1) < m
  BY <1>1, <1>2, <1>3, <1>6, <1>7
<1> HIDE DEF m, u
<1>10. 100 * u >= m
  BY <1>9
<1>11. ASSUME NEW d \in Durations, d < p PROVE ~(100 * NotLonger(Measured, d) >= m)
  <2>1. d \in Nat
    BY DurationsAreNumbers
  <2> DEFINE S == {i \in DOMAIN Measured : Measured[i] < p}
             T == {i \in DOMAIN Measured : Measured[i] <= d}
  <2>2. S \in SUBSET (1..n) /\ T \in SUBSET S
    BY <1>1, <1>8, <1>11, <2>1
  <2>3. Cardinality(T) <= Cardinality(S)
    <3> HIDE DEF S, T
    <3>1. QED
      BY <1>1, <2>2, FewerPlaces
  <2> DEFINE v == NotLonger(Measured, d)
             w == ShorterThan(Measured, p)
  <2>4. v \in Nat /\ w \in Nat /\ v <= w /\ w < rank
    BY <1>6, <1>7, <2>3 DEF NotLonger, ShorterThan
  <2> HIDE DEF v, w
  <2>5. ~(100 * v >= m)
    BY <1>9, <2>4
  <2>6. QED
    BY <2>5 DEF v
<1>12. QED
  BY <1>3, <1>4, <1>10, <1>11 DEF u, m, n, p

\* Every call succeeded or failed.
LEMMA ReportAddsUp ==
  ASSUME ProfilingTyped
  PROVE  Report.total = Report.successful + Report.failed
<1> DEFINE n == Len(profileMetrics)
           Good == {i \in 1..n : profileMetrics[i].success}
           Bad == {i \in 1..n : ~profileMetrics[i].success}
<1>1. n \in Nat
  BY MeasuredTyped
<1>2. Bad = (1..n) \ Good
  OBVIOUS
<1>3. Good \in SUBSET (1..n) /\ Bad \in SUBSET (1..n)
  OBVIOUS
<1>4. Report.total = n /\ Report.successful = Cardinality(Good) /\ Report.failed = Cardinality(Bad)
  BY DEF Report
<1> HIDE DEF n, Good, Bad
<1>5. /\ IsFiniteSet(Good) /\ IsFiniteSet(Bad)
      /\ Cardinality(Good) \in Nat /\ Cardinality(Bad) \in Nat
  BY <1>1, <1>3, PlacesAreFinite
<1>6. Good \cup Bad = 1..n /\ Good \cap Bad = {}
  BY <1>2, <1>3
<1>7. Cardinality(Good \cup Bad) = Cardinality(Good) + Cardinality(Bad) - Cardinality(Good \cap Bad)
  BY <1>5, FS_Union
<1>8. Cardinality({}) = 0
  BY FS_EmptySet
<1>9. Cardinality(1..n) = n
  <2>1. Cardinality(1..n) = IF 1 > n THEN 0 ELSE n - 1 + 1
    BY <1>1, FS_Interval
  <2>2. QED
    BY <1>1, <2>1
<1>10. n = Cardinality(Good) + Cardinality(Bad) - 0
  BY <1>6, <1>7, <1>8, <1>9
<1>11. QED
  BY <1>4, <1>5, <1>10

\* The slowest call is among those recorded: the first of them if several are.
LEMMA SlowestIsThere ==
  ASSUME ProfilingTyped, Len(profileMetrics) > 0
  PROVE  \E metric \in Report.slowest : \A i \in DOMAIN profileMetrics :
           Measured[i] <= metric.duration
<1> DEFINE n == Len(profileMetrics)
<1>1. /\ n \in Nat /\ n > 0 /\ Measured \in Seq(Nat) /\ Len(Measured) = n
      /\ DOMAIN profileMetrics = 1..n
      /\ \A i \in 1..n : /\ Measured[i] = profileMetrics[i].duration /\ Measured[i] \in Nat
  BY MeasuredTyped
<1>2. 1 \in 1..n
  BY <1>1
<1>3. PICK k \in 1..n : \A j \in 1..n : Measured[j] <= Measured[k]
  BY <1>1, <1>2, GreatestPlace
<1> DEFINE Slow == {i \in 1..n : Measured[i] = Measured[k]}
<1>4. Slow \in SUBSET Nat /\ Slow # {}
  OBVIOUS
<1>5. PICK f \in Slow : \A j \in Slow : f <= j
  <2> HIDE DEF Slow
  <2>1. QED
    BY <1>4, LeastOf
<1>6. f \in 1..n /\ \A j \in 1..n : Measured[j] <= Measured[f]
  BY <1>3, <1>5
<1>7. ASSUME NEW j \in 1..n \ {f}
      PROVE  \/ profileMetrics[f].duration > profileMetrics[j].duration
             \/ (j > f /\ ~(profileMetrics[j].duration > profileMetrics[f].duration))
  <2>1. Measured[j] <= Measured[f] /\ Measured[j] \in Nat /\ Measured[f] \in Nat
    BY <1>1, <1>6
  <2>2. Measured[j] = Measured[f] => j > f
    <3>1. Measured[j] = Measured[f] => f <= j
      BY <1>5
    <3>2. QED
      BY <1>1, <1>6, <3>1
  <2>3. /\ Measured[f] = profileMetrics[f].duration
        /\ Measured[j] = profileMetrics[j].duration
    BY <1>1, <1>6
  <2>4. \/ Measured[f] > Measured[j] \/ (j > f /\ ~(Measured[j] > Measured[f]))
    BY <2>1, <2>2
  <2>5. QED
    BY <2>3, <2>4
<1>8. profileMetrics[f] \in Report.slowest
  BY <1>6, <1>7 DEF Report
<1>9. \A i \in DOMAIN profileMetrics : Measured[i] <= profileMetrics[f].duration
  BY <1>1, <1>6
<1>10. QED
  BY <1>8, <1>9

LEMMA ProfilingInvMeans == ProfilingIInv => ProfilingTypeOK /\ ProfilesAreComplete
<1> SUFFICES ASSUME ProfilingIInv PROVE ProfilingTypeOK /\ ProfilesAreComplete
  OBVIOUS
<1>1. ProfilingTyped /\ MetricsTold
  BY DEF ProfilingIInv
<1> DEFINE n == Len(profileMetrics)
<1>2. /\ n \in Nat /\ DOMAIN profileMetrics = 1..n /\ Len(Measured) = n /\ Measured \in Seq(Nat)
      /\ \A i \in 1..n : profileMetrics[i] \in MetricsRecorded
  BY <1>1, MeasuredTyped
<1>3. ASSUME NEW i \in 1..n
      PROVE  /\ profileMetrics[i].call \in ProfiledCalls /\ profileMetrics[i].duration \in Durations
             /\ {profileMetrics[i].success, profileMetrics[i].memory} \subseteq BOOLEAN
  <2>1. PICK m \in MetricsRecorded : m = profileMetrics[i]
    BY <1>2
  <2>2. m.call \in ProfiledCalls /\ m.duration \in Durations
    BY DEF MetricsRecorded
  <2>3. m.success \in BOOLEAN /\ m.memory \in BOOLEAN
    BY DEF MetricsRecorded
  <2>4. QED
    BY <2>1, <2>2, <2>3
<1>4. endedSinceClear \subseteq ProfiledCalls
  BY <1>1 DEF MetricsTold, RecordedCallsOf
<1>5. ProfilingTypeOK
  BY <1>1, <1>2, <1>3, <1>4 DEF ProfilingTyped, ProfilingTypeOK
<1>6. \A d : Cardinality({i \in DOMAIN profileMetrics : Measured[i] <= d}) = NotLonger(Measured, d)
  <2>1. DOMAIN Measured = DOMAIN profileMetrics
    BY <1>2
  <2>2. QED
    BY <2>1 DEF NotLonger
<1>7. Report.total = n
  BY DEF Report
<1>8. /\ {profileMetrics[i].call : i \in DOMAIN profileMetrics} = endedSinceClear
      /\ n = Cardinality(endedSinceClear)
      /\ \A i, j \in DOMAIN profileMetrics : i < j => profileMetrics[i].id < profileMetrics[j].id
      /\ nextProfileId = 1 + Cardinality({c \in ProfiledCalls : profiled[c].state = "recorded"})
  BY <1>1, <1>2 DEF MetricsTold, RecordedCallsOf
<1>9. Report.total = Report.successful + Report.failed
  BY <1>1, ReportAddsUp
<1>10. ASSUME n > 0
       PROVE  /\ 100 * NotLonger(Measured, Report.p95) >= Percentile * n
              /\ \A d \in Durations : d < Report.p95 => ~(100 * NotLonger(Measured, d) >= Percentile * n)
              /\ \E metric \in Report.slowest : \A i \in DOMAIN profileMetrics :
                   Measured[i] <= metric.duration
  BY <1>1, <1>10, PercentileCovers, SlowestIsThere
<1>11. ProfilesAreComplete
  BY <1>6, <1>7, <1>8, <1>9, <1>10 DEF ProfilesAreComplete
<1>12. QED
  BY <1>5, <1>11

(* The metrics are those of the calls that were measured, each once, whatever is
   switched while calls are in flight, and the report's percentile is right of
   however many of them.  (src/profiling/profilingService.ts:95, 139) *)
THEOREM ProfilesComplete == ProfilingSpec => []ProfilesAreComplete
<1>1. ProfilingInit => ProfilingIInv
  BY ProfilingInvInit
<1>2. ProfilingIInv /\ [ProfilingNext]_profilingVars => ProfilingIInv'
  BY ProfilingInvStep
<1>3. ProfilingIInv => ProfilesAreComplete
  BY ProfilingInvMeans
<1>4. QED
  BY <1>1, <1>2, <1>3, PTL DEF ProfilingSpec

-----------------------------------------------------------------------------
(* The mock server *)

Ends == {"SUCCESS", "FAILED"}
Entries == [status : {"PENDING"} \cup Ends, remaining : Nat, finalStatus : Ends, asked : Nat,
            pollsInVain : Nat]
Errors == [method : MockMethods, number : Nat]

\* A map from hashes to n entries; the number in a hash is less than the map's size.
MapTyped(map, n) ==
  /\ map \in [DOMAIN map -> 1..n] /\ IsFiniteSet(DOMAIN map)
  /\ \A h \in DOMAIN map : h.number \in Nat /\ h.number < Cardinality(DOMAIN map)

EntryIsRight(entry) ==
  /\ entry.pollsInVain + entry.remaining = entry.asked
  /\ entry.status # "PENDING" => entry.remaining = 0

\* What became of an entry
Progressed(then, now) ==
  /\ now.asked = then.asked /\ now.finalStatus = then.finalStatus
  /\ now.pollsInVain >= then.pollsInVain
  /\ then.status # "PENDING" => now = then

ServerTyped ==
  /\ mockLedger \in MockLedgers
  /\ heap \in Seq(Entries) /\ \A i \in 1..Len(heap) : EntryIsRight(heap[i])
  /\ MapTyped(transactions, Len(heap))

SnapshotTyped ==
  /\ snapshotTaken.ledger \in MockLedgers
  /\ snapshotTaken.heap \in Seq(Entries) /\ Len(snapshotTaken.heap) <= Len(heap)
  /\ MapTyped(snapshotTaken.transactions, Len(heap))
  /\ \A i \in 1..Len(snapshotTaken.heap) : Progressed(snapshotTaken.heap[i], heap[i])

SentOnce ==
  /\ sentHashes \in Seq(DOMAIN transactions)
  /\ \A i, j \in DOMAIN sentHashes : sentHashes[i] = sentHashes[j] => i = j

\* Errors of one method come in the order of their numbers.
ErrorsInOrder(errors) ==
  \A i, j \in DOMAIN errors : i < j /\ errors[i].method = errors[j].method =>
    errors[i].number < errors[j].number

ErrorsKept ==
  /\ pendingErrors \in Seq(Errors) /\ injected \in Seq(Errors) /\ thrown \in Seq(Errors)
  /\ \A i \in 1..Len(injected) : injected[i].number = i
  /\ Len(thrown) + Len(pendingErrors) = Len(injected)
  /\ Range(thrown \o pendingErrors) = Range(injected) /\ ErrorsInOrder(thrown \o pendingErrors)

MockIInv == ServerTyped /\ SnapshotTyped /\ SentOnce /\ ErrorsKept

LEMMA FirstLedgerIsOne == FirstLedger \in MockLedgers
<1>1. MockLedgers \in SUBSET Nat /\ MockLedgers # {}
  BY MockAssumption DEF MockAssumption
<1>2. \E l \in MockLedgers : \A k \in MockLedgers : l <= k
  BY <1>1, LeastOf
<1>3. QED
  BY <1>2 DEF FirstLedger

LEMMA EmptyMap ==
  ASSUME NEW n \in Nat
  PROVE  DOMAIN NoTransactions = {} /\ MapTyped(NoTransactions, n)
BY FS_EmptySet DEF NoTransactions, MapTyped

LEMMA NoErrors ==
  ASSUME pendingErrors' = <<>>, injected' = <<>>, thrown' = <<>>
  PROVE  ErrorsKept'
<1>1. <<>> \in Seq(Errors) /\ Len(<<>>) = 0 /\ <<>> \o <<>> = <<>> /\ 0 + 0 = 0
  OBVIOUS
<1>2. DOMAIN <<>> = {}
  OBVIOUS
<1>3. ErrorsInOrder(<<>>)
  BY <1>2 DEF ErrorsInOrder
<1>4. QED
  BY <1>1, <1>3 DEF ErrorsKept

LEMMA MockInvInit == MockInit => MockIInv
<1> SUFFICES ASSUME MockInit PROVE MockIInv
  OBVIOUS
<1>1. /\ mockLedger = FirstLedger /\ heap = <<>> /\ transactions = NoTransactions
      /\ snapshotTaken = [ledger |-> FirstLedger, transactions |-> NoTransactions, heap |-> <<>>]
      /\ pendingErrors = <<>> /\ injected = <<>> /\ thrown = <<>> /\ sentHashes = <<>>
  BY DEF MockInit
<1>2. <<>> \in Seq(Entries) /\ Len(<<>>) = 0 /\ <<>> \in Seq(Errors) /\ <<>> \o <<>> = <<>>
      /\ DOMAIN <<>> = {}
  OBVIOUS
<1>3. MapTyped(NoTransactions, 0)
  BY EmptyMap
<1>4. ServerTyped
  BY <1>1, <1>2, <1>3, FirstLedgerIsOne DEF ServerTyped
<1>5. SnapshotTyped
  BY <1>1, <1>2, <1>3, FirstLedgerIsOne DEF SnapshotTyped
<1>6. SentOnce
  BY <1>1 DEF SentOnce
<1>7. ErrorsKept
  BY <1>1, <1>2 DEF ErrorsKept, ErrorsInOrder
<1>8. QED
  BY <1>4, <1>5, <1>6, <1>7 DEF MockIInv

\* A longer heap has place for all that were in it.
LEMMA MapStill ==
  ASSUME NEW map, NEW n \in Nat, NEW m \in Nat, n <= m, MapTyped(map, n)
  PROVE  MapTyped(map, m)
<1>1. 1..n \subseteq 1..m
  OBVIOUS
<1>2. map \in [DOMAIN map -> 1..m]
  BY <1>1 DEF MapTyped
<1>3. QED
  BY <1>2 DEF MapTyped

LEMMA SetEntryKeeps ==
  ASSUME MockIInv, NEW hash, NEW entry \in Entries, EntryIsRight(entry),
         hash.number \in Nat,
         hash \in DOMAIN transactions \/ hash.number <= Cardinality(DOMAIN transactions),
         SetEntry(hash, entry), UNCHANGED <<mockLedger, snapshotTaken>>
  PROVE  /\ ServerTyped' /\ SnapshotTyped'
         /\ DOMAIN transactions' = DOMAIN transactions \cup {hash}
<1> DEFINE n == Len(heap)
           c == Cardinality(DOMAIN transactions)
<1>1. ServerTyped /\ SnapshotTyped
  BY DEF MockIInv
<1>2. /\ heap \in Seq(Entries) /\ n \in Nat /\ heap' = Append(heap, entry)
      /\ transactions' = [h \in DOMAIN transactions \cup {hash} |->
                            IF h = hash THEN n + 1 ELSE transactions[h]]
  BY <1>1 DEF SetEntry, ServerTyped
<1>3. /\ heap' \in Seq(Entries) /\ Len(heap') = n + 1
      /\ \A i \in 1..n : heap'[i] = heap[i]
      /\ heap'[n + 1] = entry
  BY <1>2, AppendProperties
<1> HIDE DEF n
<1>4. ASSUME NEW i \in 1..Len(heap') PROVE EntryIsRight(heap'[i])
  <2>1. CASE i = n + 1
    BY <1>3, <2>1
  <2>2. CASE i # n + 1
    <3>1. i \in 1..n
      BY <1>2, <1>3, <2>2
    <3>2. EntryIsRight(heap[i]) /\ heap'[i] = heap[i]
      BY <1>1, <1>3, <3>1 DEF ServerTyped, n
    <3>3. QED
      BY <3>2
  <2>3. QED
    BY <2>1, <2>2
<1>5. DOMAIN transactions' = DOMAIN transactions \cup {hash}
  BY <1>2
<1>6. MapTyped(transactions, n)
  BY <1>1 DEF ServerTyped, n
<1>7. transactions' \in [DOMAIN transactions' -> 1..(n + 1)]
  <2>1. \A h \in DOMAIN transactions : transactions[h] \in 1..(n + 1)
    BY <1>2, <1>6 DEF MapTyped
  <2>2. n + 1 \in 1..(n + 1)
    BY <1>2
  <2>3. QED
    BY <1>2, <1>5, <2>1, <2>2
<1>8. /\ IsFiniteSet(DOMAIN transactions') /\ c \in Nat
      /\ Cardinality(DOMAIN transactions') = IF hash \in DOMAIN transactions THEN c ELSE c + 1
  BY <1>5, <1>6, FS_AddElement, FS_CardinalityType DEF MapTyped
<1> HIDE DEF c
<1>9. ASSUME NEW h \in DOMAIN transactions'
      PROVE  h.number \in Nat /\ h.number < Cardinality(DOMAIN transactions')
  <2>1. CASE h \in DOMAIN transactions
    <3>1. h.number \in Nat /\ h.number < c
      BY <1>6, <2>1 DEF MapTyped, c
    <3>2. QED
      BY <1>8, <3>1
  <2>2. CASE h \notin DOMAIN transactions
    <3>1. h = hash /\ hash.number <= c
      BY <1>5, <2>2 DEF c
    <3>2. Cardinality(DOMAIN transactions') = c + 1
      BY <1>8, <2>2, <3>1
    <3>3. QED
      BY <1>8, <3>1, <3>2
  <2>3. QED
    BY <2>1, <2>2
<1>10. MapTyped(transactions', Len(heap'))
  BY <1>3, <1>7, <1>8, <1>9 DEF MapTyped
<1>11. ServerTyped'
  BY <1>1, <1>3, <1>4, <1>10 DEF ServerTyped
<1>12. SnapshotTyped'
  <2>1. /\ snapshotTaken' = snapshotTaken /\ snapshotTaken.heap \in Seq(Entries)
        /\ Len(snapshotTaken.heap) <= n /\ MapTyped(snapshotTaken.transactions, n)
        /\ snapshotTaken.ledger \in MockLedgers
        /\ \A i \in 1..Len(snapshotTaken.heap) : Progressed(snapshotTaken.heap[i], heap[i])
    BY <1>1 DEF SnapshotTyped, n
  <2>2. Len(snapshotTaken.heap) <= n + 1 /\ Len(snapshotTaken.heap) \in Nat
    BY <1>2, <2>1
  <2>3. \A i \in 1..Len(snapshotTaken.heap) : i \in 1..n
    BY <1>2, <2>1, <2>2
  <2>4. MapTyped(snapshotTaken.transactions, n + 1)
    BY <1>2, <2>1, MapStill
  <2>5. \A i \in 1..Len(snapshotTaken.heap) : Progressed(snapshotTaken.heap[i], heap'[i])
    BY <1>3, <2>1, <2>3
  <2>6. QED
    BY <1>3, <2>1, <2>2, <2>4, <2>5 DEF SnapshotTyped
<1>13. QED
  BY <1>5, <1>11, <1>12

LEMMA AddTransactionKeeps ==
  ASSUME MockIInv, NEW polls \in SeededPolls, AddTransaction(polls)
  PROVE  MockIInv'
<1>1. /\ SetEntry(SeededHash, NewEntry(polls, "FAILED"))
      /\ UNCHANGED <<mockLedger, pendingErrors, snapshotTaken, injected, thrown, sentHashes>>
  BY DEF AddTransaction
<1>2. ServerTyped /\ SentOnce /\ ErrorsKept
  BY DEF MockIInv
<1>3. polls \in Nat
  BY MockAssumption DEF MockAssumption
<1>4. NewEntry(polls, "FAILED") \in Entries /\ EntryIsRight(NewEntry(polls, "FAILED"))
  BY <1>3 DEF NewEntry, Entries, Ends, EntryIsRight
<1>5. SeededHash.number = 0 /\ SeededHash.number <= Cardinality(DOMAIN transactions)
  <2>1. Cardinality(DOMAIN transactions) \in Nat
    BY <1>2, FS_CardinalityType DEF ServerTyped, MapTyped
  <2>2. QED
    BY <2>1 DEF SeededHash
<1>6. ServerTyped' /\ SnapshotTyped' /\ DOMAIN transactions' = DOMAIN transactions \cup {SeededHash}
  <2>1. PICK h, e : h = SeededHash /\ e = NewEntry(polls, "FAILED")
    OBVIOUS
  <2>2. e \in Entries /\ EntryIsRight(e) /\ h.number \in Nat
    BY <1>4, <1>5, <2>1
  <2>3. SetEntry(h, e) /\ UNCHANGED <<mockLedger, snapshotTaken>>
    BY <1>1, <2>1
  <2>4. h.number <= Cardinality(DOMAIN transactions)
    BY <1>5, <2>1
  <2>5. ServerTyped' /\ SnapshotTyped' /\ DOMAIN transactions' = DOMAIN transactions \cup {h}
    BY <2>2, <2>3, <2>4, SetEntryKeeps
  <2>6. QED
    BY <2>1, <2>5
<1>7. SentOnce'
  BY <1>1, <1>2, <1>6 DEF SentOnce
<1>8. ErrorsKept'
  BY <1>1, <1>2 DEF ErrorsKept
<1>9. QED
  BY <1>6, <1>7, <1>8 DEF MockIInv

\* The number of the next hash is one no transaction has.
LEMMA SendToMockKeeps ==
  ASSUME MockIInv, SendToMock
  PROVE  MockIInv'
<1>1. /\ sentHashes' = Append(sentHashes, NextHash)
      /\ UNCHANGED <<mockLedger, pendingErrors, snapshotTaken, injected, thrown>>
      /\ NextHash \notin DOMAIN transactions => SetEntry(NextHash, NewEntry(1, "SUCCESS"))
  BY DEF SendToMock
<1>2. ServerTyped /\ SentOnce /\ ErrorsKept
  BY DEF MockIInv
<1>3. /\ NextHash.number = Cardinality(DOMAIN transactions)
      /\ Cardinality(DOMAIN transactions) \in Nat
  BY <1>2, FS_CardinalityType DEF NextHash, SentHash, ServerTyped, MapTyped
<1>4. NextHash \notin DOMAIN transactions
  <2>1. \A h \in DOMAIN transactions : h.number \in Nat /\ h.number < Cardinality(DOMAIN transactions)
    BY <1>2 DEF ServerTyped, MapTyped
  <2>2. QED
    BY <1>3, <2>1
<1>5. NewEntry(1, "SUCCESS") \in Entries /\ EntryIsRight(NewEntry(1, "SUCCESS"))
  BY DEF NewEntry, Entries, Ends, EntryIsRight
<1>6. ServerTyped' /\ SnapshotTyped' /\ DOMAIN transactions' = DOMAIN transactions \cup {NextHash}
  <2>1. PICK h, e : h = NextHash /\ e = NewEntry(1, "SUCCESS")
    OBVIOUS
  <2>2. e \in Entries /\ EntryIsRight(e) /\ h.number \in Nat
    BY <1>3, <1>5, <2>1
  <2>3. SetEntry(h, e) /\ UNCHANGED <<mockLedger, snapshotTaken>>
    BY <1>1, <1>4, <2>1
  <2>4. h.number <= Cardinality(DOMAIN transactions)
    BY <1>3, <2>1
  <2>5. ServerTyped' /\ SnapshotTyped' /\ DOMAIN transactions' = DOMAIN transactions \cup {h}
    BY <2>2, <2>3, <2>4, SetEntryKeeps
  <2>6. QED
    BY <2>1, <2>5
<1>7. SentOnce'
  <2> DEFINE n == Len(sentHashes)
  <2>1. /\ sentHashes \in Seq(DOMAIN transactions) /\ n \in Nat
        /\ \A i, j \in 1..n : sentHashes[i] = sentHashes[j] => i = j
    BY <1>2 DEF SentOnce
  <2>2. \A i \in 1..n : sentHashes[i] \in DOMAIN transactions
    BY <2>1
  <2>3. sentHashes \in Seq(DOMAIN transactions') /\ NextHash \in DOMAIN transactions'
    BY <1>6, <2>1
  <2>4. /\ sentHashes' \in Seq(DOMAIN transactions') /\ Len(sentHashes') = n + 1
        /\ \A i \in 1..n : sentHashes'[i] = sentHashes[i]
        /\ sentHashes'[n + 1] = NextHash
    BY <1>1, <2>3, AppendProperties
  <2> HIDE DEF n
  <2>5. ASSUME NEW i \in 1..(n + 1), NEW j \in 1..(n + 1), sentHashes'[i] = sentHashes'[j]
        PROVE  i = j
    <3>1. (i = n + 1 \/ i \in 1..n) /\ (j = n + 1 \/ j \in 1..n)
      BY <2>1
    <3>2. i \in 1..n => sentHashes'[i] # NextHash
      BY <1>4, <2>2, <2>4
    <3>3. j \in 1..n => sentHashes'[j] # NextHash
      BY <1>4, <2>2, <2>4
    <3>4. QED
      BY <2>1, <2>4, <2>5, <3>1, <3>2, <3>3
  <2>6. DOMAIN sentHashes' = 1..(n + 1)
    BY <2>4
  <2>7. QED
    BY <2>4, <2>5, <2>6 DEF SentOnce
<1>8. ErrorsKept'
  BY <1>1, <1>2 DEF ErrorsKept
<1>9. QED
  BY <1>6, <1>7, <1>8 DEF MockIInv

\* A poll of a pending entry is one more in vain, or brings it to its end.
LEMMA PolledEntry ==
  ASSUME NEW entry \in Entries, EntryIsRight(entry), entry.status = "PENDING"
  PROVE  /\ Polled(entry) \in Entries /\ EntryIsRight(Polled(entry))
         /\ \A then \in Entries : Progressed(then, entry) => Progressed(then, Polled(entry))
<1> DEFINE now == Polled(entry)
<1>0. /\ entry.remaining \in Nat /\ entry.pollsInVain \in Nat /\ entry.asked \in Nat
      /\ entry.finalStatus \in Ends
  BY DEF Entries
<1>1. CASE entry.remaining > 0
  <2>1. now = [entry EXCEPT !.remaining = entry.remaining - 1, !.pollsInVain = entry.pollsInVain + 1]
    BY <1>1 DEF Polled
  <2>2. /\ now \in Entries /\ now.status = "PENDING" /\ now.asked = entry.asked
        /\ now.finalStatus = entry.finalStatus /\ now.pollsInVain = entry.pollsInVain + 1
        /\ now.remaining = entry.remaining - 1
    <3>1. PICK r \in Nat, p \in Nat : r = entry.remaining - 1 /\ p = entry.pollsInVain + 1
      BY <1>0, <1>1
    <3>2. now = [entry EXCEPT !.remaining = r, !.pollsInVain = p]
      BY <2>1, <3>1
    <3>3. /\ now \in Entries /\ now.status = entry.status /\ now.asked = entry.asked
          /\ now.finalStatus = entry.finalStatus /\ now.pollsInVain = p /\ now.remaining = r
      BY <3>2 DEF Entries
    <3>4. QED
      BY <3>1, <3>3
  <2>3. EntryIsRight(now)
    BY <1>0, <2>2 DEF EntryIsRight
  <2> HIDE DEF now
  <2>4. ASSUME NEW then \in Entries, Progressed(then, entry) PROVE Progressed(then, now)
    <3>1. /\ then.status = "PENDING" /\ entry.asked = then.asked /\ entry.finalStatus = then.finalStatus
          /\ entry.pollsInVain >= then.pollsInVain
      BY <2>4 DEF Progressed
    <3>2. then.pollsInVain \in Nat
      BY DEF Entries
    <3>3. now.pollsInVain >= then.pollsInVain
      BY <1>0, <2>2, <3>1, <3>2
    <3>4. QED
      BY <2>2, <3>1, <3>3 DEF Progressed
  <2>5. QED
    BY <2>2, <2>3, <2>4 DEF now
<1>2. CASE entry.remaining = 0
  <2>1. now = [entry EXCEPT !.status = entry.finalStatus]
    BY <1>2 DEF Polled
  <2>2. /\ now \in Entries /\ now.status = entry.finalStatus /\ now.asked = entry.asked
        /\ now.finalStatus = entry.finalStatus /\ now.pollsInVain = entry.pollsInVain
        /\ now.remaining = 0
    BY <1>0, <1>2, <2>1 DEF Entries
  <2>3. EntryIsRight(now)
    BY <1>0, <1>2, <2>2 DEF EntryIsRight
  <2> HIDE DEF now
  <2>4. ASSUME NEW then \in Entries, Progressed(then, entry) PROVE Progressed(then, now)
    BY <2>2, <2>4 DEF Progressed
  <2>5. QED
    BY <2>2, <2>3, <2>4 DEF now
<1>3. QED
  BY <1>0, <1>1, <1>2

LEMMA PollMockKeeps ==
  ASSUME MockIInv, NEW hash \in DOMAIN transactions, PollMock(hash)
  PROVE  MockIInv'
<1> DEFINE k == transactions[hash]
           n == Len(heap)
<1>1. ServerTyped /\ SnapshotTyped /\ SentOnce /\ ErrorsKept
  BY DEF MockIInv
<1>2. /\ heap[k].status = "PENDING" /\ heap' = [heap EXCEPT ![k] = Polled(heap[k])]
      /\ UNCHANGED <<mockLedger, transactions, pendingErrors, snapshotTaken, injected,
                     thrown, sentHashes>>
  BY DEF PollMock
<1>3. heap \in Seq(Entries) /\ n \in Nat /\ k \in 1..n /\ heap[k] \in Entries /\ EntryIsRight(heap[k])
  <2>1. heap \in Seq(Entries) /\ n \in Nat
    BY <1>1 DEF ServerTyped
  <2>2. k \in 1..n
    BY <1>1 DEF ServerTyped, MapTyped
  <2>3. QED
    BY <1>1, <2>1, <2>2 DEF ServerTyped
<1>4. /\ Polled(heap[k]) \in Entries /\ EntryIsRight(Polled(heap[k]))
      /\ \A then \in Entries : Progressed(then, heap[k]) => Progressed(then, Polled(heap[k]))
  BY <1>2, <1>3, PolledEntry
<1> HIDE DEF k, n
<1>5. /\ heap' \in Seq(Entries) /\ Len(heap') = n
      /\ \A i \in 1..n : heap'[i] = IF i = k THEN Polled(heap[k]) ELSE heap[i]
  BY <1>2, <1>3, <1>4, ExceptSeq DEF n
<1>6. ASSUME NEW i \in 1..n PROVE EntryIsRight(heap'[i])
  <2>1. EntryIsRight(heap[i])
    BY <1>1 DEF ServerTyped, n
  <2>2. QED
    BY <1>4, <1>5, <2>1
<1>7. ServerTyped'
  BY <1>1, <1>2, <1>5, <1>6 DEF ServerTyped, n
<1>8. SnapshotTyped'
  <2> DEFINE old == snapshotTaken.heap
  <2>1. /\ old \in Seq(Entries) /\ Len(old) <= n /\ Len(old) \in Nat
        /\ \A i \in 1..Len(old) : Progressed(old[i], heap[i])
    BY <1>1 DEF SnapshotTyped, n
  <2>2. ASSUME NEW i \in 1..Len(old) PROVE Progressed(old[i], heap'[i])
    <3>1. i \in 1..n /\ old[i] \in Entries /\ Progressed(old[i], heap[i])
      BY <1>3, <2>1
    <3>2. QED
      BY <1>4, <1>5, <3>1
  <2>3. snapshotTaken' = snapshotTaken
    BY <1>2
  <2>4. QED
    BY <1>1, <1>5, <2>2, <2>3 DEF SnapshotTyped, n
<1>9. SentOnce' /\ ErrorsKept'
  BY <1>1, <1>2 DEF SentOnce, ErrorsKept
<1>10. QED
  BY <1>7, <1>8, <1>9 DEF MockIInv

\* What is set up again, from nothing or from the snapshot
LEMMA SetUpKeeps ==
  ASSUME MockIInv, NEW map, MapTyped(map, Len(heap)), mockLedger' \in MockLedgers,
         transactions' = map, pendingErrors' = <<>>, injected' = <<>>, thrown' = <<>>,
         sentHashes' = <<>>, UNCHANGED <<heap, snapshotTaken>>
  PROVE  MockIInv'
<1>1. ServerTyped /\ SnapshotTyped
  BY DEF MockIInv
<1>2. ServerTyped'
  BY <1>1 DEF ServerTyped
<1>3. SnapshotTyped'
  BY <1>1 DEF SnapshotTyped
<1>4. SentOnce'
  <2>1. <<>> \in Seq(DOMAIN map) /\ DOMAIN <<>> = {}
    OBVIOUS
  <2>2. QED
    BY <2>1 DEF SentOnce
<1>5. ErrorsKept'
  BY NoErrors
<1>6. QED
  BY <1>2, <1>3, <1>4, <1>5 DEF MockIInv

LEMMA TakeSnapshotKeeps ==
  ASSUME MockIInv, TakeSnapshot
  PROVE  MockIInv'
<1>1. ServerTyped /\ SentOnce /\ ErrorsKept
  BY DEF MockIInv
<1>2. /\ snapshotTaken' = [ledger |-> mockLedger, transactions |-> transactions, heap |-> heap]
      /\ UNCHANGED <<mockLedger, heap, transactions, pendingErrors, injected, thrown, sentHashes>>
  BY DEF TakeSnapshot
<1>3. /\ snapshotTaken'.ledger = mockLedger /\ snapshotTaken'.transactions = transactions
      /\ snapshotTaken'.heap = heap
  BY <1>2
<1>4. heap \in Seq(Entries) /\ Len(heap) <= Len(heap)
  BY <1>1 DEF ServerTyped
<1>5. ASSUME NEW i \in 1..Len(heap) PROVE Progressed(heap[i], heap[i])
  <2>1. PICK entry \in Entries : entry = heap[i]
    BY <1>4
  <2>2. entry.pollsInVain >= entry.pollsInVain
    BY DEF Entries
  <2>3. QED
    BY <2>1, <2>2 DEF Progressed
<1>6. SnapshotTyped'
  BY <1>1, <1>2, <1>3, <1>4, <1>5 DEF SnapshotTyped, ServerTyped
<1>7. ServerTyped' /\ SentOnce' /\ ErrorsKept'
  BY <1>1, <1>2 DEF ServerTyped, SentOnce, ErrorsKept
<1>8. QED
  BY <1>6, <1>7 DEF MockIInv

LEMMA ErrorsJoined ==
  ASSUME NEW u \in Seq(Errors), NEW v \in Seq(Errors)
  PROVE  /\ u \o v \in Seq(Errors) /\ Len(u \o v) = Len(u) + Len(v)
         /\ Len(u) \in Nat /\ Len(v) \in Nat /\ DOMAIN (u \o v) = 1..(Len(u) + Len(v))
         /\ \A i \in 1..Len(u) : (u \o v)[i] = u[i]
         /\ \A i \in 1..Len(v) : (u \o v)[Len(u) + i] = v[i]
<1> DEFINE w == u \o v
<1>1. /\ w \in Seq(Errors) /\ Len(w) = Len(u) + Len(v)
      /\ \A i \in 1..(Len(u) + Len(v)) :
           w[i] = IF i <= Len(u) THEN u[i] ELSE v[i - Len(u)]
  BY ConcatProperties
<1>2. Len(u) \in Nat /\ Len(v) \in Nat
  OBVIOUS
<1> HIDE DEF w
<1>3. DOMAIN w = 1..(Len(u) + Len(v))
  BY <1>1
<1>4. ASSUME NEW i \in 1..Len(u) PROVE w[i] = u[i]
  BY <1>1, <1>2
<1>5. ASSUME NEW i \in 1..Len(v) PROVE w[Len(u) + i] = v[i]
  <2>1. Len(u) + i \in 1..(Len(u) + Len(v)) /\ ~(Len(u) + i <= Len(u)) /\ (Len(u) + i) - Len(u) = i
    BY <1>2
  <2>2. QED
    BY <1>1, <2>1
<1>6. QED
  BY <1>1, <1>2, <1>3, <1>4, <1>5 DEF w

LEMMA InjectErrorKeeps ==
  ASSUME ErrorsKept, NEW method \in MockMethods, InjectError(method)
  PROVE  ErrorsKept'
<1> DEFINE n == Len(injected)
           error == [method |-> method, number |-> n + 1]
           old == thrown \o pendingErrors
           new == thrown \o Append(pendingErrors, error)
<1>1. /\ pendingErrors' = Append(pendingErrors, error) /\ injected' = Append(injected, error)
      /\ thrown' = thrown
  BY DEF InjectError
<1>2. /\ pendingErrors \in Seq(Errors) /\ injected \in Seq(Errors) /\ thrown \in Seq(Errors)
      /\ n \in Nat /\ error \in Errors
  BY DEF ErrorsKept, Errors
<1>3. error.method = method /\ error.number = n + 1
  OBVIOUS
<1> HIDE DEF error
<1>4. /\ old \in Seq(Errors) /\ Len(old) = n /\ DOMAIN old = 1..n
  BY <1>2, ErrorsJoined DEF ErrorsKept
<1>5. new = Append(old, error)
  <2>1. Append(pendingErrors, error) = pendingErrors \o <<error>>
    BY <1>2, AppendIsConcat
  <2>2. Append(old, error) = old \o <<error>>
    BY <1>2, <1>4, AppendIsConcat
  <2>3. <<error>> \in Seq(Errors)
    BY <1>2
  <2>4. (thrown \o pendingErrors) \o <<error>> = thrown \o (pendingErrors \o <<error>>)
    BY <1>2, <2>3, ConcatAssociative
  <2>5. QED
    BY <2>1, <2>2, <2>4
<1>6. Range(old) = Range(injected) /\ ErrorsInOrder(old) /\ \A i \in 1..n : injected[i].number = i
  BY DEF ErrorsKept
<1>7. /\ injected' \in Seq(Errors) /\ Len(injected') = n + 1
      /\ \A i \in 1..n : injected'[i] = injected[i]
      /\ injected'[n + 1] = error
  BY <1>1, <1>2, AppendProperties
<1>8. /\ new \in Seq(Errors) /\ Len(new) = n + 1
      /\ \A i \in 1..n : new[i] = old[i]
      /\ new[n + 1] = error
  BY <1>2, <1>4, <1>5, AppendProperties
<1> HIDE DEF old, new, n
<1>9. /\ DOMAIN injected = 1..n /\ DOMAIN new = 1..(n + 1) /\ DOMAIN injected' = 1..(n + 1)
      /\ 1..(n + 1) = (1..n) \cup {n + 1}
  BY <1>2, <1>7, <1>8 DEF n
<1>10. ASSUME NEW i \in 1..n PROVE old[i].number \in Nat /\ old[i].number <= n
  <2>1. old[i] \in Range(injected)
    BY <1>4, <1>6 DEF Range
  <2>2. PICK j \in 1..n : injected[j] = old[i]
    BY <1>9, <2>1 DEF Range
  <2>3. injected[j].number = j /\ j \in Nat /\ j <= n
    BY <1>2, <1>6
  <2>4. QED
    BY <2>2, <2>3
<1>11. Range(new) = Range(injected')
  <2>1. Range(new) = Range(old) \cup {error}
    BY <1>4, <1>8, <1>9 DEF Range
  <2>2. Range(injected') = Range(injected) \cup {error}
    BY <1>7, <1>9 DEF Range
  <2>3. QED
    BY <1>6, <2>1, <2>2
<1>12. ErrorsInOrder(new)
  <2>1. SUFFICES ASSUME NEW i \in 1..(n + 1), NEW j \in 1..(n + 1), i < j,
                        new[i].method = new[j].method
                 PROVE  new[i].number < new[j].number
    BY <1>9 DEF ErrorsInOrder
  <2>2. i \in 1..n /\ new[i] = old[i]
    BY <1>2, <1>8, <2>1
  <2>3. CASE j = n + 1
    <3>1. old[i].number \in Nat /\ old[i].number <= n
      BY <1>10, <2>2
    <3>2. QED
      BY <1>2, <1>3, <1>8, <2>2, <2>3, <3>1
  <2>4. CASE j # n + 1
    <3>1. j \in 1..n /\ new[j] = old[j]
      BY <1>2, <1>8, <2>4
    <3>2. QED
      BY <1>4, <1>6, <2>1, <2>2, <3>1 DEF ErrorsInOrder
  <2>5. QED
    BY <2>3, <2>4
<1>13. ASSUME NEW i \in 1..(n + 1) PROVE injected'[i].number = i
  <2>1. i = n + 1 \/ i \in 1..n
    BY <1>2
  <2>2. QED
    BY <1>3, <1>6, <1>7, <2>1
<1>14. /\ pendingErrors' \in Seq(Errors) /\ thrown' \in Seq(Errors)
       /\ thrown' \o pendingErrors' = new
  BY <1>1, <1>2 DEF new
<1>15. Len(thrown') + Len(pendingErrors') = Len(injected')
  BY <1>7, <1>8, <1>14, ErrorsJoined
<1>16. QED
  BY <1>7, <1>11, <1>12, <1>13, <1>14, <1>15 DEF ErrorsKept

\* The error that is thrown is put before those that wait, none of which, if it was
\* injected before, is of the same method.
LEMMA ThrowInjectedKeeps ==
  ASSUME ErrorsKept, NEW method \in MockMethods, ThrowInjected(method), UNCHANGED injected
  PROVE  ErrorsKept'
<1> DEFINE old == thrown \o pendingErrors
           t == Len(thrown)
           p == Len(pendingErrors)
<1>1. pendingErrors \in Seq(Errors) /\ injected \in Seq(Errors) /\ thrown \in Seq(Errors)
  BY DEF ErrorsKept
<1>2. ErrorsOf(method) \in SUBSET (1..p) /\ ErrorsOf(method) # {}
  <2>1. ErrorsOf(method) # {}
    BY DEF ThrowInjected
  <2>2. DOMAIN pendingErrors = 1..p
    BY <1>1
  <2>3. ErrorsOf(method) \in SUBSET DOMAIN pendingErrors
    BY DEF ErrorsOf
  <2>4. QED
    BY <2>1, <2>2, <2>3
<1>3. \E j \in ErrorsOf(method) : \A k \in ErrorsOf(method) : j <= k
  <2>1. ErrorsOf(method) \in SUBSET Nat
    BY <1>2
  <2>2. QED
    BY <1>2, <2>1, LeastOf
<1>4. PICK i \in ErrorsOf(method) :
        /\ \A k \in ErrorsOf(method) : i <= k
        /\ thrown' = Append(thrown, pendingErrors[i]) /\ pendingErrors' = RemoveAt(pendingErrors, i)
  BY <1>3 DEF ThrowInjected
<1> DEFINE one == pendingErrors[i]
           rest == RemoveAt(pendingErrors, i)
           more == Append(thrown, one)
           new == more \o rest
<1>5. i \in 1..p /\ p \in Nat /\ t \in Nat /\ one \in Errors
  BY <1>1, <1>2, <1>4
<1>6. \A k \in 1..p : k < i => pendingErrors[k].method # method
  BY <1>1, <1>4, <1>5 DEF ErrorsOf
<1>7. one.method = method
  BY <1>4 DEF ErrorsOf
<1>8. /\ rest \in Seq(Errors) /\ Len(rest) = p - 1
      /\ \A j \in 1..(p - 1) : rest[j] = IF j < i THEN pendingErrors[j] ELSE pendingErrors[j + 1]
  BY <1>1, <1>5, WithoutOne
<1>9. /\ more \in Seq(Errors) /\ Len(more) = t + 1 /\ \A k \in 1..t : more[k] = thrown[k]
      /\ more[t + 1] = one
  BY <1>1, <1>5, AppendProperties
<1>10. /\ old \in Seq(Errors) /\ Len(old) = t + p /\ DOMAIN old = 1..(t + p)
       /\ \A k \in 1..t : old[k] = thrown[k]
       /\ \A k \in 1..p : old[t + k] = pendingErrors[k]
  BY <1>1, ErrorsJoined
<1> HIDE DEF more, rest
<1>11. /\ new \in Seq(Errors) /\ Len(new) = Len(more) + Len(rest) /\ DOMAIN new = 1..(Len(more) + Len(rest))
       /\ \A k \in 1..Len(more) : new[k] = more[k]
       /\ \A k \in 1..Len(rest) : new[Len(more) + k] = rest[k]
  BY <1>8, <1>9, ErrorsJoined
<1> HIDE DEF new, old, t, p, one
<1>12. /\ Len(new) = t + p /\ DOMAIN new = 1..(t + p)
       /\ \A k \in 1..(t + 1) : new[k] = more[k]
       /\ \A k \in 1..(p - 1) : new[t + 1 + k] = rest[k]
  <2>1. Len(more) + Len(rest) = t + p
    BY <1>5, <1>8, <1>9
  <2>2. QED
    BY <1>8, <1>9, <1>11, <2>1
<1> DEFINE at(k) == IF k <= t THEN k ELSE IF k = t + 1 THEN t + i
                    ELSE IF k <= t + i THEN k - 1 ELSE k
<1>13. ASSUME NEW k \in 1..(t + p) PROVE at(k) \in 1..(t + p) /\ new[k] = old[at(k)]
  <2>1. CASE k <= t
    <3>1. at(k) = k /\ k \in 1..t /\ k \in 1..(t + 1)
      BY <1>5, <2>1
    <3>2. QED
      BY <1>9, <1>10, <1>12, <3>1
  <2>2. CASE k = t + 1
    <3>1. at(k) = t + i /\ t + i \in 1..(t + p) /\ k \in 1..(t + 1)
      BY <1>5, <2>2
    <3>2. old[t + i] = one
      BY <1>5, <1>10 DEF one
    <3>3. QED
      BY <1>9, <1>12, <2>2, <3>1, <3>2
  <2>3. CASE k > t + 1 /\ k <= t + i
    <3>1. at(k) = k - 1 /\ k - 1 \in 1..(t + p)
      BY <1>5, <2>3
    <3>2. k - t - 1 \in 1..(p - 1) /\ k - t - 1 < i /\ t + 1 + (k - t - 1) = k
          /\ k - t - 1 \in 1..p /\ t + (k - t - 1) = k - 1
      BY <1>5, <2>3
    <3>3. new[k] = pendingErrors[k - t - 1]
      BY <1>8, <1>12, <3>2
    <3>4. old[k - 1] = pendingErrors[k - t - 1]
      BY <1>10, <3>2
    <3>5. QED
      BY <3>1, <3>3, <3>4
  <2>4. CASE k > t + i
    <3>1. at(k) = k
      BY <1>5, <2>4
    <3>2. k - t - 1 \in 1..(p - 1) /\ ~(k - t - 1 < i) /\ t + 1 + (k - t - 1) = k
          /\ k - t \in 1..p /\ t + (k - t) = k /\ (k - t - 1) + 1 = k - t
      BY <1>5, <2>4
    <3>3. new[k] = pendingErrors[k - t]
      BY <1>8, <1>12, <3>2
    <3>4. old[k] = pendingErrors[k - t]
      BY <1>10, <3>2
    <3>5. QED
      BY <3>1, <3>3, <3>4
  <2>5. QED
    BY <1>5, <2>1, <2>2, <2>3, <2>4
<1>14. \A m \in 1..(t + p) : \E k \in 1..(t + p) : at(k) = m
  <2>1. TAKE m \in 1..(t + p)
  <2>2. CASE m <= t \/ m > t + i
    <3>1. at(m) = m
      BY <1>5, <2>2
    <3>2. QED
      BY <3>1
  <2>3. CASE m = t + i
    <3>1. at(t + 1) = m /\ t + 1 \in 1..(t + p)
      BY <1>5, <2>3
    <3>2. QED
      BY <3>1
  <2>4. CASE m > t /\ m < t + i
    <3>1. at(m + 1) = m /\ m + 1 \in 1..(t + p)
      BY <1>5, <2>4
    <3>2. QED
      BY <3>1
  <2>5. QED
    BY <1>5, <2>2, <2>3, <2>4
<1>15. \A j, k \in 1..(t + p) : j < k /\ ~(at(j) < at(k)) => j = t + 1 /\ k > t + 1 /\ k <= t + i
  BY <1>5
<1> HIDE DEF at
<1>16. Range(new) = Range(old)
  BY <1>10, <1>12, <1>13, <1>14 DEF Range
<1>17. ErrorsInOrder(new)
  <2>1. SUFFICES ASSUME NEW j \in 1..(t + p), NEW k \in 1..(t + p), j < k,
                        new[j].method = new[k].method
                 PROVE  new[j].number < new[k].number
    BY <1>12 DEF ErrorsInOrder
  <2>2. CASE at(j) < at(k)
    <3>1. at(j) \in DOMAIN old /\ at(k) \in DOMAIN old /\ new[j] = old[at(j)] /\ new[k] = old[at(k)]
      BY <1>10, <1>13
    <3>2. ErrorsInOrder(old)
      BY DEF ErrorsKept, old
    <3>3. QED
      BY <2>1, <2>2, <3>1, <3>2 DEF ErrorsInOrder
  <2>3. CASE ~(at(j) < at(k))
    <3>1. j = t + 1 /\ k > t + 1 /\ k <= t + i
      BY <1>15, <2>1, <2>3
    <3>2. k - t - 1 \in 1..(p - 1) /\ k - t - 1 < i /\ t + 1 + (k - t - 1) = k /\ k - t - 1 \in 1..p
      BY <1>5, <3>1
    <3>3. new[k] = pendingErrors[k - t - 1]
      BY <1>8, <1>12, <3>2
    <3>4. new[k].method # method
      BY <1>6, <3>2, <3>3
    <3>5. new[j] = one
      BY <1>5, <1>9, <1>12, <3>1
    <3>6. QED
      BY <1>7, <2>1, <3>4, <3>5
  <2>4. QED
    BY <2>2, <2>3
<1>18. /\ thrown' = more /\ pendingErrors' = rest
  BY <1>4 DEF more, rest, one
<1>19. Len(more) + Len(rest) = t + p
  BY <1>5, <1>8, <1>9
<1>20. thrown' \o pendingErrors' = new
  BY <1>18 DEF new
<1>21. Len(thrown') + Len(pendingErrors') = Len(injected')
  BY <1>18, <1>19 DEF ErrorsKept, t, p
<1>22. Range(thrown' \o pendingErrors') = Range(injected')
  BY <1>16, <1>20 DEF ErrorsKept, old
<1>23. QED
  BY <1>8, <1>9, <1>17, <1>18, <1>20, <1>21, <1>22 DEF ErrorsKept

LEMMA MockInvStep ==
  ASSUME MockIInv, [MockNext]_mockVars
  PROVE  MockIInv'
<1>1. ServerTyped /\ SnapshotTyped /\ SentOnce /\ ErrorsKept
  BY DEF MockIInv
<1>2. UNCHANGED <<mockLedger, heap, transactions>> => ServerTyped'
  BY <1>1 DEF ServerTyped
<1>3. UNCHANGED <<heap, snapshotTaken>> => SnapshotTyped'
  BY <1>1 DEF SnapshotTyped
<1>4. UNCHANGED <<transactions, sentHashes>> => SentOnce'
  BY <1>1 DEF SentOnce
<1>5. UNCHANGED <<pendingErrors, injected, thrown>> => ErrorsKept'
  BY <1>1 DEF ErrorsKept
<1>6. CASE UNCHANGED mockVars
  BY <1>2, <1>3, <1>4, <1>5, <1>6 DEF MockIInv, mockVars
<1>7. CASE \E polls \in SeededPolls : AddTransaction(polls)
  BY <1>7, AddTransactionKeeps
<1>8. CASE \E l \in MockLedgers : SetLedger(l)
  <2>1. PICK l \in MockLedgers : SetLedger(l)
    BY <1>8
  <2>2. /\ mockLedger' = l
        /\ UNCHANGED <<heap, transactions, pendingErrors, snapshotTaken, injected, thrown,
                       sentHashes>>
    BY <2>1 DEF SetLedger
  <2>3. ServerTyped'
    BY <1>1, <2>2 DEF ServerTyped
  <2>4. QED
    BY <1>3, <1>4, <1>5, <2>2, <2>3 DEF MockIInv
<1>9. CASE \E method \in MockMethods : InjectError(method)
  <2>1. PICK method \in MockMethods : InjectError(method)
    BY <1>9
  <2>2. UNCHANGED <<mockLedger, heap, transactions, snapshotTaken, sentHashes>>
    BY <2>1 DEF InjectError
  <2>3. ErrorsKept'
    BY <1>1, <2>1, InjectErrorKeeps
  <2>4. QED
    BY <1>2, <1>3, <1>4, <2>2, <2>3 DEF MockIInv
<1>10. CASE \E method \in MockMethods : MethodThrows(method)
  <2>1. PICK method \in MockMethods : MethodThrows(method)
    BY <1>10
  <2>2. /\ UNCHANGED <<mockLedger, heap, transactions, snapshotTaken, injected, sentHashes>>
        /\ ThrowInjected(method)
    BY <2>1 DEF MethodThrows
  <2>3. ErrorsKept'
    BY <1>1, <2>2, ThrowInjectedKeeps
  <2>4. QED
    BY <1>2, <1>3, <1>4, <2>2, <2>3 DEF MockIInv
<1>11. CASE \E hash \in DOMAIN transactions : PollMock(hash)
  BY <1>11, PollMockKeeps
<1>12. CASE ResetServer
  <2>1. /\ mockLedger' = FirstLedger /\ transactions' = NoTransactions /\ pendingErrors' = <<>>
        /\ injected' = <<>> /\ thrown' = <<>> /\ sentHashes' = <<>>
        /\ UNCHANGED <<heap, snapshotTaken>>
    BY <1>12 DEF ResetServer
  <2>2. MapTyped(NoTransactions, Len(heap))
    <3>1. Len(heap) \in Nat
      BY <1>1 DEF ServerTyped
    <3>2. QED
      BY <3>1, EmptyMap
  <2>3. QED
    BY <2>1, <2>2, FirstLedgerIsOne, SetUpKeeps
<1>13. CASE TakeSnapshot
  BY <1>13, TakeSnapshotKeeps
<1>14. CASE Restore
  <2>1. /\ mockLedger' = snapshotTaken.ledger /\ transactions' = snapshotTaken.transactions
        /\ pendingErrors' = <<>> /\ injected' = <<>> /\ thrown' = <<>> /\ sentHashes' = <<>>
        /\ UNCHANGED <<heap, snapshotTaken>>
    BY <1>14 DEF Restore
  <2>2. /\ MapTyped(snapshotTaken.transactions, Len(heap)) /\ snapshotTaken.ledger \in MockLedgers
    BY <1>1 DEF SnapshotTyped
  <2>3. QED
    BY <2>1, <2>2, SetUpKeeps
<1>15. CASE SendToMock
  BY <1>15, SendToMockKeeps
<1>16. QED
  BY <1>6, <1>7, <1>8, <1>9, <1>10, <1>11, <1>12, <1>13, <1>14, <1>15 DEF MockNext

LEMMA MockInvMeans == MockIInv => MockTypeOK /\ MockPlaysScenario
<1> SUFFICES ASSUME MockIInv PROVE MockTypeOK /\ MockPlaysScenario
  OBVIOUS
<1>1. ServerTyped /\ SnapshotTyped /\ SentOnce /\ ErrorsKept
  BY DEF MockIInv
<1>2. heap \in Seq(Entries) /\ DOMAIN heap = 1..Len(heap) /\ Len(heap) \in Nat
  BY <1>1 DEF ServerTyped
<1>3. ASSUME NEW i \in DOMAIN heap
      PROVE  /\ heap[i].remaining \in 0..heap[i].asked
             /\ heap[i].pollsInVain = heap[i].asked - heap[i].remaining
             /\ heap[i].status # "PENDING" => heap[i].pollsInVain = heap[i].asked
  <2>1. heap[i] \in Entries /\ EntryIsRight(heap[i])
    BY <1>1, <1>2 DEF ServerTyped
  <2>2. heap[i].remaining \in Nat /\ heap[i].asked \in Nat /\ heap[i].pollsInVain \in Nat
    BY <2>1 DEF Entries
  <2>3. QED
    BY <2>1, <2>2 DEF EntryIsRight
<1>4. \A hash \in DOMAIN transactions : transactions[hash] \in DOMAIN heap
  BY <1>1, <1>2 DEF ServerTyped, MapTyped
<1>5. MockTypeOK
  BY <1>1, <1>3, <1>4 DEF MockTypeOK, ServerTyped
<1>6. /\ Len(thrown \o pendingErrors) = Len(injected)
      /\ Range(thrown \o pendingErrors) = Range(injected) /\ ErrorsInOrder(thrown \o pendingErrors)
  BY <1>1, ErrorsJoined DEF ErrorsKept
<1>7. \A i, j \in DOMAIN sentHashes : sentHashes[i] = sentHashes[j] => i = j
  BY <1>1 DEF SentOnce
<1>8. ASSUME NEW i \in DOMAIN snapshotTaken.heap PROVE Progressed(snapshotTaken.heap[i], heap[i])
  <2>1. i \in 1..Len(snapshotTaken.heap)
    BY <1>1 DEF SnapshotTyped
  <2>2. QED
    BY <1>1, <2>1 DEF SnapshotTyped
<1>9. MockPlaysScenario
  BY <1>3, <1>6, <1>7, <1>8 DEF MockPlaysScenario, ErrorsInOrder, Progressed
<1>10. QED
  BY <1>5, <1>9

(* A scenario plays as it was built, whatever errors, transactions, polls,
   snapshots and restores it is made of, but for what a restore does not bring
   back (RestoredAsTaken).
   (src/testing/MockRpcServer.ts:132-171, 230-283) *)
THEOREM ScenarioPlays == MockSpec => []MockPlaysScenario
<1>1. MockInit => MockIInv
  BY MockInvInit
<1>2. MockIInv /\ [MockNext]_mockVars => MockIInv'
  BY MockInvStep
<1>3. MockIInv => MockPlaysScenario
  BY MockInvMeans
<1>4. QED
  BY <1>1, <1>2, <1>3, PTL DEF MockSpec

-----------------------------------------------------------------------------
(* Recorded calls and their replay *)

Phases == {"none", "begun", "effective", "ended"}
ReplayOutcomes == {NoHandler} \cup 0..ContractLimit
Results == [id : RecordedCalls, result : ReplayOutcomes]

\* What the k-th call that takes effect returns, and how many have counted by then
ReturnOf(k) == IF k <= ContractLimit THEN k ELSE Thrown
CountedBy(k) == IF k <= ContractLimit THEN k ELSE ContractLimit

CallsThatCounted == {x \in Range(effects) : recording[x].result # Thrown}

EffectsInOrder ==
  /\ recording \in [RecordedCalls -> [phase : Phases, result : 0..ContractLimit]]
  /\ effects \in Seq(RecordedCalls)
  /\ \A i \in 1..Len(effects) : /\ recording[effects[i]].phase \in {"effective", "ended"}
                                /\ recording[effects[i]].result = ReturnOf(i)
  /\ \A i, j \in 1..Len(effects) : effects[i] = effects[j] => i = j
  /\ IsFiniteSet(CallsThatCounted) /\ Cardinality(CallsThatCounted) = CountedBy(Len(effects))

InteractionsTrue ==
  /\ interactions \in Seq(Results)
  /\ \A i \in 1..Len(interactions) :
       /\ recording[interactions[i].id].phase = "ended"
       /\ recording[interactions[i].id].result = interactions[i].result

\* What is replayed is a part, from the first, of what was recorded; its calls count.
ReplayedInOrder ==
  /\ replayed \in Seq(Results) /\ Len(replayed) <= Len(interactions)
  /\ replayCount \in 0..ContractLimit
  /\ \A i \in 1..Len(replayed) : /\ replayed[i].id = interactions[i].id
                                 /\ ~Failed(replayed[i].result) => replayed[i].result <= replayCount
  /\ \A i, j \in 1..Len(replayed) :
       i < j /\ ~Failed(replayed[i].result) /\ ~Failed(replayed[j].result) =>
         replayed[i].result < replayed[j].result
  /\ (\A i \in 1..Len(replayed) : replayed[i].id \notin Unhandled) =>
       /\ replayCount = CountedBy(Len(replayed))
       /\ \A i \in 1..Len(replayed) : replayed[i].result = ReturnOf(i)

PhasesKept ==
  /\ replayPhase \in {"recording", "replaying", "done"} /\ stopOnFailure \in BOOLEAN
  /\ replayPhase = "recording" => replayed = <<>> /\ replayCount = 0
  /\ replayPhase = "replaying" =>
       /\ Len(replayed) < Len(interactions)
       /\ stopOnFailure => \A i \in 1..Len(replayed) : ~Failed(replayed[i].result)
  /\ replayPhase = "done" =>
       /\ replayed # <<>>
       /\ stopOnFailure => \A i \in 1..(Len(replayed) - 1) : ~Failed(replayed[i].result)
       /\ \/ Len(replayed) = Len(interactions)
          \/ stopOnFailure /\ Failed(replayed[Len(replayed)].result)

ReplayIInv == EffectsInOrder /\ InteractionsTrue /\ ReplayedInOrder /\ PhasesKept

LEMMA LimitIsNumber == ContractLimit \in Nat
BY ReplayAssumption DEF ReplayAssumption

LEMMA ReplayInvInit == ReplayInit => ReplayIInv
<1> SUFFICES ASSUME ReplayInit PROVE ReplayIInv
  OBVIOUS
<1>1. /\ recording = [c \in RecordedCalls |-> [phase |-> "none", result |-> 0]]
      /\ effects = <<>> /\ interactions = <<>> /\ replayed = <<>> /\ replayCount = 0
      /\ replayPhase = "recording" /\ stopOnFailure = FALSE
  BY DEF ReplayInit, Thrown
<1>2. <<>> \in Seq(RecordedCalls) /\ <<>> \in Seq(Results) /\ Len(<<>>) = 0 /\ 0 <= 0
  OBVIOUS
<1>3. 0 \in 0..ContractLimit /\ CountedBy(0) = 0
  BY LimitIsNumber DEF CountedBy
<1>4. CallsThatCounted = {}
  BY <1>1 DEF CallsThatCounted, Range
<1>5. IsFiniteSet({}) /\ Cardinality({}) = 0
  BY FS_EmptySet
<1>6. EffectsInOrder
  BY <1>1, <1>2, <1>3, <1>4, <1>5 DEF EffectsInOrder, Phases
<1>7. InteractionsTrue
  BY <1>1, <1>2 DEF InteractionsTrue
<1>8. ReplayedInOrder
  BY <1>1, <1>2, <1>3 DEF ReplayedInOrder
<1>9. PhasesKept
  BY <1>1 DEF PhasesKept
<1>10. QED
  BY <1>6, <1>7, <1>8, <1>9 DEF ReplayIInv

\* A call that begins or ends has the result it had.
LEMMA PhaseChangeKeeps ==
  ASSUME ReplayIInv, NEW c \in RecordedCalls, NEW from, NEW to \in Phases,
         recording[c].phase = from, from \in {"effective", "ended"} => to = "ended",
         recording' = [recording EXCEPT ![c].phase = to], UNCHANGED effects
  PROVE  /\ EffectsInOrder'
         /\ \A x \in RecordedCalls : recording'[x].result = recording[x].result
         /\ \A x \in RecordedCalls : x # c => recording'[x] = recording[x]
         /\ recording'[c].phase = to
<1>1. EffectsInOrder
  BY DEF ReplayIInv
<1>2. /\ recording \in [RecordedCalls -> [phase : Phases, result : 0..ContractLimit]]
      /\ effects \in Seq(RecordedCalls) /\ DOMAIN effects = 1..Len(effects)
      /\ \A i \in 1..Len(effects) : effects[i] \in RecordedCalls
  BY <1>1 DEF EffectsInOrder
<1>3. /\ recording' \in [RecordedCalls -> [phase : Phases, result : 0..ContractLimit]]
      /\ \A x \in RecordedCalls : recording'[x].result = recording[x].result
      /\ \A x \in RecordedCalls : x # c => recording'[x] = recording[x]
      /\ recording'[c].phase = to
  BY <1>2
<1>4. ASSUME NEW i \in 1..Len(effects)
      PROVE  /\ recording'[effects[i]].phase \in {"effective", "ended"}
             /\ recording'[effects[i]].result = ReturnOf(i)
  <2>1. /\ recording[effects[i]].phase \in {"effective", "ended"}
        /\ recording[effects[i]].result = ReturnOf(i) /\ effects[i] \in RecordedCalls
    BY <1>1, <1>2 DEF EffectsInOrder
  <2>2. CASE effects[i] = c
    BY <1>3, <2>1, <2>2
  <2>3. CASE effects[i] # c
    BY <1>3, <2>1, <2>3
  <2>4. QED
    BY <2>2, <2>3
<1>5. CallsThatCounted' = CallsThatCounted
  <2>1. Range(effects) \subseteq RecordedCalls
    BY <1>2 DEF Range
  <2>2. QED
    BY <1>3, <2>1 DEF CallsThatCounted
<1>6. EffectsInOrder'
  BY <1>1, <1>2, <1>3, <1>4, <1>5 DEF EffectsInOrder
<1>7. QED
  BY <1>3, <1>6

\* What takes effect returns the count, or throws, in the order in which it does.
LEMMA TakeEffectKeeps ==
  ASSUME ReplayIInv, NEW c \in RecordedCalls, TakeEffect(c)
  PROVE  ReplayIInv'
<1> DEFINE m == Len(effects)
           answer == Answer(Cardinality(CallsThatCounted))
<1>1. EffectsInOrder /\ InteractionsTrue /\ ReplayedInOrder /\ PhasesKept
  BY DEF ReplayIInv
<1>2. /\ recording[c].phase = "begun" /\ effects' = Append(effects, c)
      /\ recording' = [recording EXCEPT ![c] = [phase |-> "effective", result |-> answer]]
      /\ UNCHANGED <<interactions, replayed, replayCount, replayPhase, stopOnFailure>>
  BY DEF TakeEffect, CallsThatCounted
<1>3. /\ recording \in [RecordedCalls -> [phase : Phases, result : 0..ContractLimit]]
      /\ effects \in Seq(RecordedCalls) /\ m \in Nat
      /\ DOMAIN effects = 1..m /\ ContractLimit \in Nat
      /\ \A i \in 1..m : effects[i] \in RecordedCalls
  BY <1>1, LimitIsNumber DEF EffectsInOrder
<1>4. Cardinality(CallsThatCounted) = CountedBy(m)
  BY <1>1 DEF EffectsInOrder
<1>5. answer = ReturnOf(m + 1) /\ answer \in 0..ContractLimit
  BY <1>3, <1>4 DEF Answer, CountedBy, ReturnOf, Thrown
<1> HIDE DEF answer, m
<1>6. /\ effects' \in Seq(RecordedCalls) /\ Len(effects') = m + 1
      /\ \A i \in 1..m : effects'[i] = effects[i]
      /\ effects'[m + 1] = c
  BY <1>2, <1>3, AppendProperties DEF m
<1>7. /\ recording' \in [RecordedCalls -> [phase : Phases, result : 0..ContractLimit]]
      /\ recording'[c].phase = "effective" /\ recording'[c].result = answer
      /\ \A x \in RecordedCalls : x # c => recording'[x] = recording[x]
  BY <1>2, <1>3, <1>5 DEF Phases
<1>8. \A i \in 1..m : effects[i] # c
  <2>1. \A i \in 1..m : recording[effects[i]].phase \in {"effective", "ended"}
    BY <1>1 DEF EffectsInOrder, m
  <2>2. QED
    BY <1>2, <2>1
<1>9. \A i \in 1..(m + 1) : i = m + 1 \/ (i \in 1..m /\ i # m + 1)
  BY <1>3
<1>10. ASSUME NEW i \in 1..(m + 1)
       PROVE  /\ recording'[effects'[i]].phase \in {"effective", "ended"}
              /\ recording'[effects'[i]].result = ReturnOf(i)
  <2>1. CASE i = m + 1
    BY <1>5, <1>6, <1>7, <2>1
  <2>2. CASE i \in 1..m
    <3>1. recording'[effects'[i]] = recording[effects[i]]
      BY <1>3, <1>6, <1>7, <1>8, <2>2
    <3>2. QED
      BY <1>1, <2>2, <3>1 DEF EffectsInOrder, m
  <2>3. QED
    BY <1>9, <2>1, <2>2
<1>11. ASSUME NEW i \in 1..(m + 1), NEW j \in 1..(m + 1), effects'[i] = effects'[j]
       PROVE  i = j
  <2>1. \A k, l \in 1..m : effects[k] = effects[l] => k = l
    BY <1>1 DEF EffectsInOrder, m
  <2>2. QED
    BY <1>6, <1>8, <1>9, <1>11, <2>1
<1>12. Range(effects') = Range(effects) \cup {c} /\ c \notin Range(effects)
       /\ Range(effects) \subseteq RecordedCalls
  <2>1. DOMAIN effects' = 1..(m + 1) /\ 1..(m + 1) = (1..m) \cup {m + 1}
    BY <1>3, <1>6
  <2>2. Range(effects) = {effects[i] : i \in 1..m}
    BY <1>3 DEF Range
  <2>3. Range(effects') = {effects'[i] : i \in 1..(m + 1)}
    BY <2>1 DEF Range
  <2>4. {effects'[i] : i \in 1..(m + 1)} = {effects'[i] : i \in 1..m} \cup {effects'[m + 1]}
    BY <2>1
  <2>5. {effects'[i] : i \in 1..m} = {effects[i] : i \in 1..m}
    BY <1>6
  <2>6. QED
    BY <1>3, <1>6, <1>8, <2>2, <2>3, <2>4, <2>5
<1>13. CallsThatCounted' = IF answer # Thrown THEN CallsThatCounted \cup {c} ELSE CallsThatCounted
  BY <1>7, <1>12 DEF CallsThatCounted
<1>14. IsFiniteSet(CallsThatCounted') /\ Cardinality(CallsThatCounted') = CountedBy(m + 1)
  <2>1. /\ IsFiniteSet(CallsThatCounted) /\ c \notin CallsThatCounted
    BY <1>1, <1>12 DEF EffectsInOrder, CallsThatCounted
  <2>2. CASE m + 1 <= ContractLimit
    <3>1. answer # Thrown /\ CountedBy(m + 1) = CountedBy(m) + 1
      BY <1>3, <1>5, <2>2 DEF ReturnOf, Thrown, CountedBy
    <3>2. QED
      BY <1>4, <1>13, <2>1, <3>1, FS_AddElement
  <2>3. CASE ~(m + 1 <= ContractLimit)
    <3>1. answer = Thrown /\ CountedBy(m + 1) = CountedBy(m)
      BY <1>3, <1>5, <2>3 DEF ReturnOf, Thrown, CountedBy
    <3>2. QED
      BY <1>4, <1>13, <2>1, <3>1
  <2>4. QED
    BY <2>2, <2>3
<1>15. EffectsInOrder'
  BY <1>6, <1>7, <1>10, <1>11, <1>14 DEF EffectsInOrder
<1>16. InteractionsTrue'
  <2>1. ASSUME NEW i \in 1..Len(interactions)
        PROVE  recording'[interactions[i].id] = recording[interactions[i].id]
    <3>1. interactions[i] \in Results /\ recording[interactions[i].id].phase = "ended"
      BY <1>1 DEF InteractionsTrue
    <3>2. interactions[i].id \in RecordedCalls /\ interactions[i].id # c
      BY <1>2, <3>1 DEF Results
    <3>3. QED
      BY <1>7, <3>2
  <2>2. QED
    BY <1>1, <1>2, <2>1 DEF InteractionsTrue
<1>17. ReplayedInOrder' /\ PhasesKept'
  BY <1>1, <1>2 DEF ReplayedInOrder, PhasesKept
<1>18. QED
  BY <1>15, <1>16, <1>17 DEF ReplayIInv

LEMMA BeginRecordedKeeps ==
  ASSUME ReplayIInv, NEW c \in RecordedCalls, BeginRecorded(c)
  PROVE  ReplayIInv'
<1>1. InteractionsTrue /\ ReplayedInOrder /\ PhasesKept
  BY DEF ReplayIInv
<1>2. /\ recording[c].phase = "none" /\ recording' = [recording EXCEPT ![c].phase = "begun"]
      /\ UNCHANGED <<effects, interactions, replayed, replayCount, replayPhase, stopOnFailure>>
  BY DEF BeginRecorded
<1>3. /\ EffectsInOrder' /\ \A x \in RecordedCalls : x # c => recording'[x] = recording[x]
  BY <1>2, PhaseChangeKeeps DEF Phases
<1>4. InteractionsTrue'
  <2>1. ASSUME NEW i \in 1..Len(interactions)
        PROVE  recording'[interactions[i].id] = recording[interactions[i].id]
    <3>1. interactions[i] \in Results /\ recording[interactions[i].id].phase = "ended"
      BY <1>1 DEF InteractionsTrue
    <3>2. interactions[i].id \in RecordedCalls /\ interactions[i].id # c
      BY <1>2, <3>1 DEF Results
    <3>3. QED
      BY <1>3, <3>2
  <2>2. QED
    BY <1>1, <1>2, <2>1 DEF InteractionsTrue
<1>5. ReplayedInOrder' /\ PhasesKept'
  BY <1>1, <1>2 DEF ReplayedInOrder, PhasesKept
<1>6. QED
  BY <1>3, <1>4, <1>5 DEF ReplayIInv

\* While calls are recorded nothing is replayed.
LEMMA WhileRecording ==
  ASSUME ReplayIInv, replayPhase = "recording", interactions' \in Seq(Results),
         UNCHANGED <<replayed, replayCount, replayPhase, stopOnFailure>>
  PROVE  ReplayedInOrder' /\ PhasesKept'
<1>1. PhasesKept /\ ReplayedInOrder
  BY DEF ReplayIInv
<1>2. replayed = <<>> /\ replayCount = 0 /\ ContractLimit \in Nat
  BY <1>1, LimitIsNumber DEF PhasesKept
<1>3. Len(<<>>) = 0 /\ <<>> \in Seq(Results) /\ Len(interactions') \in Nat /\ CountedBy(0) = 0
  BY <1>2 DEF CountedBy
<1>4. ReplayedInOrder'
  BY <1>2, <1>3 DEF ReplayedInOrder
<1>5. PhasesKept'
  BY <1>1 DEF PhasesKept
<1>6. QED
  BY <1>4, <1>5

LEMMA EndRecordedKeeps ==
  ASSUME ReplayIInv, NEW c \in RecordedCalls, EndRecorded(c)
  PROVE  ReplayIInv'
<1> DEFINE entry == [id |-> c, result |-> recording[c].result]
           n == Len(interactions)
<1>1. EffectsInOrder /\ InteractionsTrue
  BY DEF ReplayIInv
<1>2. /\ replayPhase = "recording" /\ recording[c].phase = "effective"
      /\ recording' = [recording EXCEPT ![c].phase = "ended"]
      /\ interactions' = Append(interactions, entry)
      /\ UNCHANGED <<effects, replayed, replayCount, replayPhase, stopOnFailure>>
  BY DEF EndRecorded
<1>3. recording[c].result \in 0..ContractLimit
  BY <1>1 DEF EffectsInOrder
<1>4. entry \in Results /\ entry.id = c /\ entry.result = recording[c].result
  BY <1>3 DEF Results, ReplayOutcomes
<1>5. interactions \in Seq(Results) /\ n \in Nat
  BY <1>1 DEF InteractionsTrue
<1> HIDE DEF entry, n
<1>6. /\ EffectsInOrder' /\ recording'[c].phase = "ended"
      /\ \A x \in RecordedCalls : recording'[x].result = recording[x].result
      /\ \A x \in RecordedCalls : x # c => recording'[x] = recording[x]
  BY <1>2, PhaseChangeKeeps DEF Phases
<1>7. /\ interactions' \in Seq(Results) /\ Len(interactions') = n + 1
      /\ \A i \in 1..n : interactions'[i] = interactions[i]
      /\ interactions'[n + 1] = entry
  BY <1>2, <1>4, <1>5, AppendProperties DEF n
<1>8. ASSUME NEW i \in 1..(n + 1)
      PROVE  /\ recording'[interactions'[i].id].phase = "ended"
             /\ recording'[interactions'[i].id].result = interactions'[i].result
  <2>1. CASE i = n + 1
    BY <1>4, <1>6, <1>7, <2>1
  <2>2. CASE i # n + 1
    <3>1. i \in 1..n
      BY <1>5, <2>2
    <3>2. PICK e \in Results : e = interactions[i] /\ interactions'[i] = e
      BY <1>5, <1>7, <3>1 DEF n
    <3>3. recording[e.id].phase = "ended" /\ recording[e.id].result = e.result
      BY <1>1, <3>1, <3>2 DEF InteractionsTrue, n
    <3>4. e.id \in RecordedCalls /\ e.id # c
      BY <1>2, <3>3 DEF Results
    <3>5. QED
      BY <1>6, <3>2, <3>3, <3>4
  <2>3. QED
    BY <2>1, <2>2
<1>9. InteractionsTrue'
  BY <1>7, <1>8 DEF InteractionsTrue
<1>10. ReplayedInOrder' /\ PhasesKept'
  BY <1>2, <1>7, WhileRecording
<1>11. QED
  BY <1>6, <1>9, <1>10 DEF ReplayIInv

LEMMA RecordingImportKeeps ==
  ASSUME ReplayIInv, ImportSession
  PROVE  ReplayIInv'
<1> DEFINE n == Len(interactions)
<1>1. EffectsInOrder /\ InteractionsTrue
  BY DEF ReplayIInv
<1>2. /\ replayPhase = "recording" /\ interactions' = interactions \o interactions
      /\ UNCHANGED <<recording, effects, replayed, replayCount, replayPhase, stopOnFailure>>
  BY DEF ImportSession, recordingVars
<1>3. interactions \in Seq(Results) /\ n \in Nat
  BY <1>1 DEF InteractionsTrue
<1>4. /\ interactions' \in Seq(Results) /\ Len(interactions') = n + n
      /\ \A i \in 1..(n + n) :
           interactions'[i] = IF i <= n THEN interactions[i] ELSE interactions[i - n]
  BY <1>2, <1>3, ConcatProperties
<1> HIDE DEF n
<1>5. ASSUME NEW i \in 1..(n + n) PROVE \E k \in 1..n : interactions'[i] = interactions[k]
  <2>1. CASE i <= n
    <3>1. i \in 1..n /\ interactions'[i] = interactions[i]
      BY <1>3, <1>4, <2>1
    <3>2. QED
      BY <3>1
  <2>2. CASE i > n
    <3>1. i - n \in 1..n /\ ~(i <= n)
      BY <1>3, <2>2
    <3>2. interactions'[i] = interactions[i - n]
      BY <1>4, <3>1
    <3>3. QED
      BY <3>1, <3>2
  <2>3. QED
    BY <1>3, <2>1, <2>2
<1>6. \A k \in 1..n : /\ recording[interactions[k].id].phase = "ended"
                      /\ recording[interactions[k].id].result = interactions[k].result
  BY <1>1 DEF InteractionsTrue, n
<1>7. InteractionsTrue'
  <2>1. ASSUME NEW i \in 1..(n + n)
        PROVE  /\ recording'[interactions'[i].id].phase = "ended"
               /\ recording'[interactions'[i].id].result = interactions'[i].result
    <3>1. PICK k \in 1..n : interactions'[i] = interactions[k]
      BY <1>5
    <3>2. QED
      BY <1>2, <1>6, <3>1
  <2>2. QED
    BY <1>4, <2>1 DEF InteractionsTrue
<1>8. EffectsInOrder'
  BY <1>1, <1>2 DEF EffectsInOrder, CallsThatCounted
<1>9. ReplayedInOrder' /\ PhasesKept'
  BY <1>2, <1>4, WhileRecording
<1>10. QED
  BY <1>7, <1>8, <1>9 DEF ReplayIInv

LEMMA ClearRecordingKeeps ==
  ASSUME ReplayIInv, ClearRecording
  PROVE  ReplayIInv'
<1>1. EffectsInOrder
  BY DEF ReplayIInv
<1>2. /\ replayPhase = "recording" /\ interactions' = <<>>
      /\ UNCHANGED <<recording, effects, replayed, replayCount, replayPhase, stopOnFailure>>
  BY DEF ClearRecording, recordingVars
<1>3. <<>> \in Seq(Results) /\ Len(<<>>) = 0
  OBVIOUS
<1>4. InteractionsTrue'
  BY <1>2, <1>3 DEF InteractionsTrue
<1>5. EffectsInOrder'
  BY <1>1, <1>2 DEF EffectsInOrder, CallsThatCounted
<1>6. ReplayedInOrder' /\ PhasesKept'
  BY <1>2, <1>3, WhileRecording
<1>7. QED
  BY <1>4, <1>5, <1>6 DEF ReplayIInv

LEMMA StartReplayKeeps ==
  ASSUME ReplayIInv, NEW stop \in BOOLEAN, StartReplay(stop)
  PROVE  ReplayIInv'
<1>1. EffectsInOrder /\ InteractionsTrue /\ ReplayedInOrder /\ PhasesKept
  BY DEF ReplayIInv
<1>2. /\ replayPhase = "recording" /\ interactions # <<>>
      /\ replayPhase' = "replaying" /\ stopOnFailure' = stop
      /\ UNCHANGED <<recording, effects, interactions, replayed, replayCount>>
  BY DEF StartReplay, recordingVars
<1>3. EffectsInOrder' /\ InteractionsTrue' /\ ReplayedInOrder'
  BY <1>1, <1>2 DEF EffectsInOrder, InteractionsTrue, ReplayedInOrder, CallsThatCounted
<1>4. replayed = <<>> /\ Len(<<>>) = 0 /\ interactions \in Seq(Results)
  BY <1>1, <1>2 DEF PhasesKept, InteractionsTrue
<1>5. Len(interactions) > 0
  BY <1>2, <1>4
<1>6. PhasesKept'
  BY <1>2, <1>4, <1>5 DEF PhasesKept
<1>7. QED
  BY <1>3, <1>6 DEF ReplayIInv

LEMMA ReplayOneKeeps ==
  ASSUME ReplayIInv, ReplayOne
  PROVE  ReplayIInv'
<1> DEFINE n == Len(replayed)
<1>1. EffectsInOrder /\ InteractionsTrue /\ ReplayedInOrder /\ PhasesKept
  BY DEF ReplayIInv
<1>2. PICK id, result :
        /\ id = interactions[n + 1].id
        /\ result = IF id \in Unhandled THEN NoHandler ELSE Answer(replayCount)
        /\ replayed' = Append(replayed, [id |-> id, result |-> result])
        /\ replayCount' = IF Failed(result) THEN replayCount ELSE result
        /\ replayPhase' = IF Stops(result) \/ n + 1 = Len(interactions) THEN "done" ELSE "replaying"
  BY DEF ReplayOne
<1>3. /\ replayPhase = "replaying"
      /\ UNCHANGED <<recording, effects, interactions, stopOnFailure>>
  BY DEF ReplayOne, recordingVars
<1>4. /\ n \in Nat /\ n < Len(interactions) /\ Len(interactions) \in Nat
      /\ replayed \in Seq(Results) /\ interactions \in Seq(Results)
      /\ ContractLimit \in Nat /\ replayCount \in 0..ContractLimit /\ stopOnFailure \in BOOLEAN
      /\ stopOnFailure => \A i \in 1..n : ~Failed(replayed[i].result)
  BY <1>1, <1>3, LimitIsNumber DEF PhasesKept, ReplayedInOrder, InteractionsTrue
<1>5. id \in RecordedCalls
  <2>1. n + 1 \in 1..Len(interactions)
    BY <1>4
  <2>2. interactions[n + 1] \in Results
    BY <1>4, <2>1
  <2>3. QED
    BY <1>2, <2>2 DEF Results
<1>6. result \in ReplayOutcomes
  BY <1>2, <1>4 DEF Answer, ReplayOutcomes, Thrown
<1>7. /\ ~Failed(result) => id \notin Unhandled /\ result = replayCount + 1 /\ result <= ContractLimit
      /\ replayCount' \in 0..ContractLimit /\ replayCount' >= replayCount
      /\ ~Failed(result) => replayCount' = result
  BY <1>2, <1>4 DEF Answer, Failed, NoHandler, Thrown
<1> DEFINE entry == [id |-> id, result |-> result]
<1>8. entry \in Results /\ entry.id = id /\ entry.result = result
  BY <1>5, <1>6 DEF Results
<1>9. replayed' = Append(replayed, entry)
  BY <1>2
<1> HIDE DEF entry, n
<1>10. /\ replayed' \in Seq(Results) /\ Len(replayed') = n + 1
       /\ \A i \in 1..n : replayed'[i] = replayed[i]
       /\ replayed'[n + 1] = entry
  BY <1>4, <1>8, <1>9, AppendProperties DEF n
<1>11. \A i \in 1..(n + 1) : i = n + 1 \/ (i \in 1..n /\ i # n + 1)
  BY <1>4
<1>12. ASSUME NEW i \in 1..n
       PROVE  /\ replayed[i] \in Results /\ replayed[i].id = interactions[i].id
              /\ ~Failed(replayed[i].result) =>
                   replayed[i].result <= replayCount /\ replayed[i].result \in 0..ContractLimit
  <2>1. replayed[i] \in Results
    BY <1>4 DEF n
  <2>2. /\ replayed[i].id = interactions[i].id
        /\ ~Failed(replayed[i].result) => replayed[i].result <= replayCount
    BY <1>1 DEF ReplayedInOrder, n
  <2>3. replayed[i].result \in ReplayOutcomes
    BY <2>1 DEF Results
  <2>4. QED
    BY <2>1, <2>2, <2>3 DEF ReplayOutcomes, Failed
<1>13. ASSUME NEW i \in 1..(n + 1)
       PROVE  /\ replayed'[i].id = interactions[i].id
              /\ ~Failed(replayed'[i].result) => replayed'[i].result <= replayCount'
  <2>1. CASE i = n + 1
    <3>1. result \in Nat => result <= result
      OBVIOUS
    <3>2. ~Failed(result) => result <= replayCount'
      BY <1>4, <1>7
    <3>3. QED
      BY <1>2, <1>8, <1>10, <2>1, <3>2 DEF n
  <2>2. CASE i \in 1..n
    <3>1. ~Failed(replayed[i].result) => replayed[i].result <= replayCount'
      BY <1>4, <1>7, <1>12, <2>2
    <3>2. QED
      BY <1>10, <1>12, <2>2, <3>1
  <2>3. QED
    BY <1>11, <2>1, <2>2
<1>14. ASSUME NEW i \in 1..(n + 1), NEW j \in 1..(n + 1), i < j,
              ~Failed(replayed'[i].result), ~Failed(replayed'[j].result)
       PROVE  replayed'[i].result < replayed'[j].result
  <2>1. i \in 1..n /\ replayed'[i] = replayed[i]
    BY <1>4, <1>10, <1>14
  <2>2. CASE j = n + 1
    <3>1. replayed'[j].result = result /\ ~Failed(result)
      BY <1>8, <1>10, <1>14, <2>2
    <3>2. replayed[i].result <= replayCount /\ replayed[i].result \in 0..ContractLimit
      BY <1>12, <1>14, <2>1
    <3>3. QED
      BY <1>4, <1>7, <2>1, <3>1, <3>2
  <2>3. CASE j \in 1..n
    <3>1. replayed'[j] = replayed[j]
      BY <1>10, <2>3
    <3>2. QED
      BY <1>1, <1>14, <2>1, <2>3, <3>1 DEF ReplayedInOrder, n
  <2>4. QED
    BY <1>11, <2>2, <2>3
<1>15. ASSUME \A i \in 1..(n + 1) : replayed'[i].id \notin Unhandled
       PROVE  /\ replayCount' = CountedBy(n + 1)
              /\ \A i \in 1..(n + 1) : replayed'[i].result = ReturnOf(i)
  <2>1. \A i \in 1..n : i \in 1..(n + 1) /\ replayed'[i] = replayed[i]
    BY <1>4, <1>10
  <2>2. \A i \in 1..n : replayed[i].id \notin Unhandled
    BY <1>15, <2>1
  <2>3. replayCount = CountedBy(n) /\ \A i \in 1..n : replayed[i].result = ReturnOf(i)
    BY <1>1, <2>2 DEF ReplayedInOrder, n
  <2>4. id \notin Unhandled
    <3>1. n + 1 \in 1..(n + 1)
      BY <1>4
    <3>2. QED
      BY <1>8, <1>10, <1>15, <3>1
  <2>5. result = Answer(CountedBy(n))
    BY <1>2, <2>3, <2>4
  <2>6. result = ReturnOf(n + 1)
    BY <1>4, <2>5 DEF Answer, CountedBy, ReturnOf, Thrown
  <2>7. replayCount' = CountedBy(n + 1)
    <3>1. CASE n + 1 <= ContractLimit
      <4>1. result = n + 1 /\ ~Failed(result) /\ CountedBy(n + 1) = n + 1
        BY <1>4, <2>6, <3>1 DEF ReturnOf, Failed, Thrown, NoHandler, CountedBy
      <4>2. QED
        BY <1>7, <4>1
    <3>2. CASE ~(n + 1 <= ContractLimit)
      <4>1. Failed(result) /\ CountedBy(n + 1) = ContractLimit /\ CountedBy(n) = ContractLimit
        BY <1>4, <2>6, <3>2 DEF ReturnOf, Failed, CountedBy
      <4>2. QED
        BY <1>2, <2>3, <4>1
    <3>3. QED
      BY <3>1, <3>2
  <2>8. \A i \in 1..(n + 1) : replayed'[i].result = ReturnOf(i)
    BY <1>8, <1>10, <1>11, <2>3, <2>6
  <2>9. QED
    BY <2>7, <2>8
<1>16. ReplayedInOrder'
  <2>1. n + 1 <= Len(interactions)
    BY <1>4
  <2>2. QED
    BY <1>3, <1>7, <1>10, <1>13, <1>14, <1>15, <2>1 DEF ReplayedInOrder
<1>17. PhasesKept'
  <2>1. ASSUME stopOnFailure, NEW i \in 1..n PROVE ~Failed(replayed'[i].result)
    BY <1>4, <1>10, <2>1 DEF n
  <2>2. replayed' # <<>> /\ Len(replayed') - 1 = n /\ replayed'[Len(replayed')].result = result
    <3>1. Len(replayed') # 0 /\ Len(<<>>) = 0
      BY <1>4, <1>10
    <3>2. QED
      BY <1>4, <1>8, <1>10, <3>1
  <2>3. CASE Stops(result) \/ n + 1 = Len(interactions)
    <3>1. replayPhase' = "done"
      BY <1>2, <2>3 DEF n
    <3>2. Stops(result) => stopOnFailure /\ Failed(result)
      BY DEF Stops
    <3>3. QED
      BY <1>3, <1>4, <1>10, <2>1, <2>2, <2>3, <3>1, <3>2 DEF PhasesKept
  <2>4. CASE ~(Stops(result) \/ n + 1 = Len(interactions))
    <3>1. replayPhase' = "replaying" /\ n + 1 < Len(interactions)
      BY <1>2, <1>4, <2>4 DEF n
    <3>2. stopOnFailure => ~Failed(result)
      BY <2>4 DEF Stops
    <3>3. ASSUME stopOnFailure, NEW i \in 1..(n + 1) PROVE ~Failed(replayed'[i].result)
      BY <1>8, <1>10, <1>11, <2>1, <3>2, <3>3
    <3>4. QED
      BY <1>3, <1>4, <1>10, <3>1, <3>3 DEF PhasesKept
  <2>5. QED
    BY <2>3, <2>4
<1>18. EffectsInOrder' /\ InteractionsTrue'
  BY <1>1, <1>3 DEF EffectsInOrder, InteractionsTrue, CallsThatCounted
<1>19. QED
  BY <1>16, <1>17, <1>18 DEF ReplayIInv

LEMMA ReplayInvStep ==
  ASSUME ReplayIInv, [ReplayNext]_replayVars
  PROVE  ReplayIInv'
<1>1. CASE UNCHANGED replayVars
  BY <1>1 DEF ReplayIInv, EffectsInOrder, InteractionsTrue, ReplayedInOrder, PhasesKept,
              CallsThatCounted, replayVars, recordingVars
<1>2. CASE \E c \in RecordedCalls : BeginRecorded(c) \/ TakeEffect(c) \/ EndRecorded(c)
  BY <1>2, BeginRecordedKeeps, TakeEffectKeeps, EndRecordedKeeps
<1>3. CASE \E stop \in BOOLEAN : StartReplay(stop)
  BY <1>3, StartReplayKeeps
<1>4. CASE ImportSession \/ ClearRecording \/ ReplayOne
  BY <1>4, RecordingImportKeeps, ClearRecordingKeeps, ReplayOneKeeps
<1>5. QED
  BY <1>1, <1>2, <1>3, <1>4 DEF ReplayNext

\* An interaction whose id no other has is compared with its own replay.
LEMMA OwnResult ==
  ASSUME ReplayIInv, NEW i \in 1..Len(replayed),
         \A j \in 1..Len(interactions) : interactions[j].id = interactions[i].id => j = i
  PROVE  /\ ResultOf(interactions[i].id) = replayed[i].result
         /\ \A j \in DOMAIN replayed : replayed[j].id = interactions[i].id => j = i
<1>1. /\ replayed \in Seq(Results) /\ interactions \in Seq(Results)
      /\ Len(replayed) <= Len(interactions) /\ DOMAIN replayed = 1..Len(replayed)
      /\ Len(replayed) \in Nat /\ Len(interactions) \in Nat
      /\ \A j \in 1..Len(replayed) : replayed[j].id = interactions[j].id
  BY DEF ReplayIInv, ReplayedInOrder, InteractionsTrue
<1>2. ASSUME NEW j \in DOMAIN replayed, replayed[j].id = interactions[i].id PROVE j = i
  <2>1. j \in 1..Len(interactions) /\ j \in 1..Len(replayed)
    BY <1>1
  <2>2. QED
    BY <1>1, <1>2, <2>1
<1>3. i \in DOMAIN replayed /\ replayed[i].id = interactions[i].id /\ i <= i
  BY <1>1
<1>4. (CHOOSE k \in DOMAIN replayed :
         /\ replayed[k].id = interactions[i].id
         /\ \A j \in DOMAIN replayed : replayed[j].id = interactions[i].id => j <= k) = i
  BY <1>2, <1>3
<1>5. QED
  BY <1>2, <1>4 DEF ResultOf

LEMMA ReplayInvMeans == ReplayIInv => ReplayTypeOK /\ ReplayReproduces
<1> SUFFICES ASSUME ReplayIInv PROVE ReplayTypeOK /\ ReplayReproduces
  OBVIOUS
<1> DEFINE n == Len(interactions)
           m == Len(replayed)
<1>1. EffectsInOrder /\ InteractionsTrue /\ ReplayedInOrder /\ PhasesKept
  BY DEF ReplayIInv
<1>2. ReplayTypeOK
  BY <1>1 DEF ReplayTypeOK, ReplayedInOrder, PhasesKept
<1>3. /\ interactions \in Seq(Results) /\ n \in Nat /\ DOMAIN interactions = 1..n
      /\ replayed \in Seq(Results) /\ m \in Nat /\ DOMAIN replayed = 1..m /\ m <= n
      /\ \A i \in 1..m : replayed[i].id = interactions[i].id
  BY <1>1 DEF InteractionsTrue, ReplayedInOrder
<1>4. SUFFICES ASSUME replayPhase = "done" PROVE ReplayReproduces
  BY <1>2 DEF ReplayReproduces
<1> DEFINE all == \A i \in DOMAIN interactions : PassesValidation(interactions[i])
           wellRecorded == Ids = effects /\ \A i \in DOMAIN interactions : Ids[i] \notin Unhandled
           stopped == stopOnFailure /\ \E i \in DOMAIN interactions : Failed(interactions[i].result)
<1>5. DOMAIN Ids = 1..n /\ \A i \in 1..n : Ids[i] = interactions[i].id
  BY <1>3 DEF Ids
<1>6. /\ m >= 1 /\ m \in 1..m
      /\ stopOnFailure => \A i \in 1..(m - 1) : ~Failed(replayed[i].result)
      /\ m = n \/ (stopOnFailure /\ Failed(replayed[m].result))
  <2>1. replayed # <<>>
    BY <1>1, <1>4 DEF PhasesKept
  <2>2. m # 0
    BY <1>3, <2>1
  <2>3. m >= 1 /\ m \in 1..m
    BY <1>3, <2>2
  <2>4. /\ stopOnFailure => \A i \in 1..(m - 1) : ~Failed(replayed[i].result)
        /\ m = n \/ (stopOnFailure /\ Failed(replayed[m].result))
    BY <1>1, <1>4 DEF PhasesKept
  <2>5. QED
    BY <2>3, <2>4
<1>7. ASSUME wellRecorded, ~stopped PROVE all
  <2>1. Ids = effects /\ \A i \in 1..n : interactions[i].id \notin Unhandled
    BY <1>3, <1>5, <1>7
  <2>2. effects \in Seq(RecordedCalls) /\ Len(effects) = n
    <3>1. effects \in Seq(RecordedCalls) /\ DOMAIN effects = 1..n
      BY <1>1, <1>5, <2>1 DEF EffectsInOrder
    <3>2. 1..Len(effects) = 1..n /\ Len(effects) \in Nat
      BY <3>1
    <3>3. QED
      BY <1>3, <3>1, <3>2
  <2>3. \A i \in 1..n : effects[i] = interactions[i].id
    BY <1>5, <2>1
  <2>4. \A i, j \in 1..n : interactions[i].id = interactions[j].id => i = j
    BY <1>1, <2>2, <2>3 DEF EffectsInOrder
  <2>5. \A i \in 1..n : interactions[i].result = ReturnOf(i)
    <3>1. \A i \in 1..n : recording[effects[i]].result = ReturnOf(i)
      BY <1>1, <2>2 DEF EffectsInOrder
    <3>2. \A i \in 1..n : recording[interactions[i].id].result = interactions[i].result
      BY <1>1 DEF InteractionsTrue
    <3>3. QED
      BY <2>3, <3>1, <3>2
  <2>6. \A i \in 1..m : i \in 1..n
    BY <1>3
  <2>7. \A i \in 1..m : replayed[i].result = ReturnOf(i)
    <3>1. \A i \in 1..m : replayed[i].id \notin Unhandled
      BY <1>3, <2>1, <2>6
    <3>2. QED
      BY <1>1, <3>1 DEF ReplayedInOrder
  <2>8. m = n
    <3>1. SUFFICES ASSUME stopOnFailure, Failed(replayed[m].result) PROVE FALSE
      BY <1>6
    <3>2. Failed(interactions[m].result) /\ m \in DOMAIN interactions
      BY <1>3, <1>6, <2>5, <2>6, <2>7, <3>1
    <3>3. QED
      BY <1>7, <3>1, <3>2
  <2>9. ASSUME NEW i \in DOMAIN interactions PROVE PassesValidation(interactions[i])
    <3>1. i \in 1..m /\ i \in 1..n /\ i \in DOMAIN replayed
      BY <1>3, <2>8
    <3>2. ResultOf(interactions[i].id) = replayed[i].result
      BY <2>4, <3>1, OwnResult
    <3>3. replayed[i].id = interactions[i].id /\ replayed[i].result = interactions[i].result
      BY <1>3, <2>5, <2>7, <3>1
    <3>4. QED
      BY <3>1, <3>2, <3>3 DEF PassesValidation
  <2>10. QED
    BY <2>9
<1>8. ASSUME all, IsInjective(Ids), NEW i \in DOMAIN interactions, NEW j \in DOMAIN interactions,
             i < j, ~Failed(interactions[i].result), ~Failed(interactions[j].result)
      PROVE  interactions[i].result < interactions[j].result
  <2>1. \A k, l \in 1..n : interactions[k].id = interactions[l].id => k = l
    BY <1>5, <1>8 DEF IsInjective
  <2>2. ASSUME NEW k \in 1..n PROVE k \in 1..m /\ replayed[k].result = interactions[k].result
    <3>1. PassesValidation(interactions[k])
      BY <1>3, <1>8
    <3>2. PICK l \in DOMAIN replayed : replayed[l].id = interactions[k].id
      BY <3>1 DEF PassesValidation
    <3>3. l \in 1..m /\ l \in 1..n /\ interactions[l].id = interactions[k].id
      BY <1>3, <3>2
    <3>4. k = l
      BY <2>1, <3>3
    <3>5. ResultOf(interactions[k].id) = replayed[k].result
      BY <2>1, <3>3, <3>4, OwnResult
    <3>6. QED
      BY <3>1, <3>3, <3>4, <3>5 DEF PassesValidation
  <2>3. i \in 1..n /\ j \in 1..n
    BY <1>3
  <2>4. i \in 1..m /\ j \in 1..m /\ replayed[i].result = interactions[i].result
        /\ replayed[j].result = interactions[j].result
    BY <2>2, <2>3
  <2>5. replayed[i].result < replayed[j].result
    BY <1>1, <1>8, <2>4 DEF ReplayedInOrder
  <2>6. QED
    BY <2>4, <2>5
<1>9. ReplayReproduces
  BY <1>4, <1>6, <1>7, <1>8 DEF ReplayReproduces
<1>10. QED
  BY <1>9

(* A replay reproduces what was recorded in the order in which it took effect,
   whatever the contract's limit; and where a recorded call ended after one that
   took effect after it, the replay shows it.
   (src/replay/recorder.ts:30-59, engine.ts:29-83, validator.ts:20-83) *)
THEOREM RecordedIsReplayed == ReplaySpec => []ReplayReproduces
<1>1. ReplayInit => ReplayIInv
  BY ReplayInvInit
<1>2. ReplayIInv /\ [ReplayNext]_replayVars => ReplayIInv'
  BY ReplayInvStep
<1>3. ReplayIInv => ReplayReproduces
  BY ReplayInvMeans
<1>4. QED
  BY <1>1, <1>2, <1>3, PTL DEF ReplaySpec

-----------------------------------------------------------------------------
(* Functions defined by recursion *)

\* What begins somewhere and goes on from each number to the next exists.
IsIteration(f, start, step) == f[0] = start /\ \A n \in Nat : f[n + 1] = step[n][f[n]]
LEMMA IterationExists ==
  \A S : \A start \in S, step \in [Nat -> [S -> S]] : \E f \in [Nat -> S] : IsIteration(f, start, step)
<1> SUFFICES ASSUME NEW S, NEW start \in S, NEW step \in [Nat -> [S -> S]]
             PROVE  \E f \in [Nat -> S] : f[0] = start /\ \A n \in Nat : f[n + 1] = step[n][f[n]]
  BY DEF IsIteration
<1> DEFINE Is(g, n) == /\ g \in [0..n -> S] /\ g[0] = start
                       /\ \A i \in 0..(n - 1) : g[i + 1] = step[i][g[i]]
           T == {n \in Nat : \E g : Is(g, n)}
<1>1. 0 \in T
  <2>1. [i \in 0..0 |-> start][0] = start /\ [i \in 0..0 |-> start] \in [0..0 -> S]
    OBVIOUS
  <2>2. 0..(0 - 1) = {}
    OBVIOUS
  <2>3. Is([i \in 0..0 |-> start], 0)
    BY <2>1, <2>2
  <2>4. QED
    BY <2>3
<1>2. ASSUME NEW n \in Nat, n \in T PROVE n + 1 \in T
  <2>1. PICK g : Is(g, n)
    BY <1>2
  <2> DEFINE h == [i \in 0..(n + 1) |-> IF i = n + 1 THEN step[n][g[n]] ELSE g[i]]
  <2>2. step[n][g[n]] \in S
    BY <2>1
  <2>3. h \in [0..(n + 1) -> S] /\ h[n + 1] = step[n][g[n]] /\ \A i \in 0..n : h[i] = g[i]
    BY <2>1, <2>2
  <2> HIDE DEF h
  <2>4. ASSUME NEW i \in 0..((n + 1) - 1) PROVE h[i + 1] = step[i][h[i]]
    <3>1. CASE i = n
      BY <2>3, <3>1
    <3>2. CASE i # n
      <4>1. i \in 0..(n - 1) /\ i \in 0..n /\ i + 1 \in 0..n
        BY <3>2
      <4>2. QED
        BY <2>1, <2>3, <4>1
    <3>3. QED
      BY <3>1, <3>2
  <2>5. h[0] = start
    BY <2>1, <2>3
  <2>6. Is(h, n + 1)
    BY <2>3, <2>4, <2>5
  <2> HIDE DEF Is
  <2>7. QED
    BY <2>6
<1>3. \A n \in Nat : \E g : Is(g, n)
  <2> HIDE DEF T
  <2>1. Nat \subseteq T
    BY <1>1, <1>2, UpFromZero
  <2>2. QED
    BY <2>1 DEF T
<1>4. ASSUME NEW n \in Nat, NEW g, NEW h, Is(g, n), Is(h, n + 1) PROVE g[n] = h[n]
  <2> DEFINE U == {i \in Nat : i <= n => g[i] = h[i]}
  <2>1. 0 \in U
    BY <1>4
  <2>2. ASSUME NEW i \in Nat, i \in U PROVE i + 1 \in U
    <3> SUFFICES ASSUME i + 1 <= n PROVE g[i + 1] = h[i + 1]
      OBVIOUS
    <3>1. i \in 0..(n - 1) /\ i \in 0..((n + 1) - 1) /\ i <= n
      OBVIOUS
    <3>2. QED
      BY <1>4, <2>2, <3>1
  <2> HIDE DEF Is
  <2>3. n \in U
    <3> HIDE DEF U
    <3>1. QED
      BY <2>1, <2>2, UpFromZero
  <2>4. QED
    BY <2>3
<1> DEFINE G(n) == CHOOSE g : Is(g, n)
           f == [n \in Nat |-> G(n)[n]]
<1>5. ASSUME NEW n \in Nat PROVE Is(G(n), n)
  <2> HIDE DEF Is
  <2>1. QED
    BY <1>3
<1> HIDE DEF G
<1>6. f \in [Nat -> S] /\ f[0] = start
  <2>1. \A n \in Nat : G(n)[n] \in S
    BY <1>5
  <2>2. G(0)[0] = start
    BY <1>5
  <2>3. QED
    BY <2>1, <2>2
<1>7. ASSUME NEW n \in Nat PROVE f[n + 1] = step[n][f[n]]
  <2>1. Is(G(n), n) /\ Is(G(n + 1), n + 1)
    BY <1>5
  <2>2. G(n)[n] = G(n + 1)[n]
    <3> HIDE DEF Is
    <3>1. QED
      BY <1>4, <2>1
  <2>3. G(n + 1)[n + 1] = step[n][G(n + 1)[n]]
    BY <2>1
  <2>4. QED
    BY <2>2, <2>3
<1>8. QED
  BY <1>6, <1>7

\* The same, over the numbers up to one
IsIterationTo(N, f, start, step) == f[0] = start /\ \A n \in 1..N : f[n] = step[n][f[n - 1]]
LEMMA IterationTo ==
  \A S : \A N \in Nat : \A start \in S, step \in [1..N -> [S -> S]] :
    \E f \in [0..N -> S] : IsIterationTo(N, f, start, step)
<1> SUFFICES ASSUME NEW S, NEW N \in Nat, NEW start \in S, NEW step \in [1..N -> [S -> S]]
             PROVE  \E f \in [0..N -> S] : f[0] = start /\ \A n \in 1..N : f[n] = step[n][f[n - 1]]
  BY DEF IsIterationTo
<1> DEFINE on == [n \in Nat |-> IF n + 1 <= N THEN step[n + 1] ELSE [x \in S |-> x]]
<1>1. on \in [Nat -> [S -> S]]
  OBVIOUS
<1>2. \A n \in Nat, x \in S : n + 1 <= N => on[n][x] = step[n + 1][x]
  OBVIOUS
<1> HIDE DEF on
<1>3. start \in S
  OBVIOUS
<1>7. \E f \in [Nat -> S] : IsIteration(f, start, on)
  BY <1>1, <1>3, IterationExists
<1>8. PICK f \in [Nat -> S] : f[0] = start /\ \A n \in Nat : f[n + 1] = on[n][f[n]]
  BY <1>7 DEF IsIteration
<1> DEFINE g == [i \in 0..N |-> f[i]]
<1>4. g \in [0..N -> S] /\ g[0] = start
  <2>1. 0 \in 0..N /\ \A i \in 0..N : f[i] \in S
    BY <1>8
  <2>2. QED
    BY <1>8, <2>1
<1>5. ASSUME NEW n \in 1..N PROVE g[n] = step[n][g[n - 1]]
  <2>1. n - 1 \in Nat /\ n - 1 \in 0..N /\ (n - 1) + 1 = n /\ n \in 0..N
    OBVIOUS
  <2>2. f[n] = on[n - 1][f[n - 1]] /\ f[n - 1] \in S
    BY <1>8, <2>1
  <2>3. f[n] = step[n][f[n - 1]]
    BY <1>2, <2>1, <2>2
  <2>4. QED
    BY <2>1, <2>3
<1>6. QED
  BY <1>4, <1>5

-----------------------------------------------------------------------------
(* Integers *)

LEMMA ConversionConstants ==
  /\ LimbSize \in Nat \ {0} /\ GroupSize \in Nat /\ GroupSize > 1 /\ EntryLengths \subseteq Nat
  /\ SpecName \in Nat /\ OtherName \in Nat /\ SpecName # OtherName
BY ConversionAssumption DEF ConversionAssumption

\* Division with a remainder
LEMMA DivideAndJoin ==
  \A a \in Int, d \in Nat \ {0} :
    /\ a \div d \in Int /\ a % d \in 0..(d - 1) /\ (a \div d) * d + (a % d) = a
    /\ a >= 0 => a \div d >= 0
OBVIOUS

LEMMA QuotientStep ==
  ASSUME NEW number \in Int, NEW divisor \in Nat \ {0}
  PROVE  /\ Quotient(number, divisor, 0) = number
         /\ \A k \in Nat : /\ Quotient(number, divisor, k) \in Int
                           /\ Quotient(number, divisor, k + 1) = Quotient(number, divisor, k) \div divisor
<1> DEFINE Is(g) == g = [k \in Nat |-> IF k = 0 THEN number ELSE g[k - 1] \div divisor]
           step == [k \in Nat |-> [x \in Int |-> x \div divisor]]
<1>1. step \in [Nat -> [Int -> Int]] /\ \A k \in Nat, x \in Int : step[k][x] = x \div divisor
  BY DivideAndJoin
<1> HIDE DEF step
<1>2. PICK f \in [Nat -> Int] : IsIteration(f, number, step)
  BY <1>1, IterationExists
<1>3. \A k \in Nat : f[k] = IF k = 0 THEN number ELSE f[k - 1] \div divisor
  <2> TAKE k \in Nat
  <2>1. CASE k = 0
    BY <1>2, <2>1 DEF IsIteration
  <2>2. CASE k # 0
    <3>1. k - 1 \in Nat /\ (k - 1) + 1 = k
      BY <2>2
    <3>2. f[(k - 1) + 1] = step[k - 1][f[k - 1]] /\ f[k - 1] \in Int
      BY <1>2, <3>1 DEF IsIteration
    <3>3. QED
      BY <1>1, <2>2, <3>1, <3>2
  <2>3. QED
    BY <2>1, <2>2
<1>4. f = [k \in Nat |-> IF k = 0 THEN number ELSE f[k - 1] \div divisor]
  BY <1>2, <1>3
<1> DEFINE q == CHOOSE g_1 : Is(g_1)
<1>5. Is(q)
  BY <1>4
<1>6. \A k \in Nat : Quotient(number, divisor, k) = q[k]
  BY DEF Quotient
<1>7. \A k \in Nat : q[k] = IF k = 0 THEN number ELSE q[k - 1] \div divisor
  BY <1>5
<1> HIDE DEF q
<1>8. q[0] = number /\ \A k \in Nat : q[k + 1] = q[k] \div divisor
  <2>1. \A k \in Nat : k + 1 \in Nat /\ k + 1 # 0 /\ (k + 1) - 1 = k
    OBVIOUS
  <2>2. QED
    BY <1>7, <2>1
<1> DEFINE T == {k \in Nat : q[k] \in Int}
<1>9. Nat \subseteq T
  <2>1. 0 \in T
    BY <1>8
  <2>2. ASSUME NEW k \in Nat, k \in T PROVE k + 1 \in T
    <3>1. q[k] \in Int /\ k + 1 \in Nat /\ q[k + 1] = q[k] \div divisor
      BY <1>8, <2>2
    <3>2. q[k] \div divisor \in Int
      BY <3>1, DivideAndJoin
    <3>3. QED
      BY <3>1, <3>2
  <2> HIDE DEF T
  <2>3. QED
    BY <2>1, <2>2, UpFromZero
<1>10. QED
  BY <1>6, <1>8, <1>9

\* What the limbs of a value join to is the value.
LEMMA LimbsJoin ==
  ASSUME NEW type \in IntegerTypes, NEW value \in Int
  PROVE  Join(LimbsOf(value, type)) = value
<1> DEFINE n == type.limbs
           limbs == LimbsOf(value, type)
           Q(k) == Quotient(value, LimbSize, k)
<1>1. n \in {2, 4} /\ n \in Nat
  BY DEF IntegerTypes
<1>2. LimbSize \in Nat \ {0}
  BY ConversionConstants
<1>3. /\ Q(0) = value
      /\ \A k \in Nat : Q(k) \in Int /\ Q(k + 1) = Q(k) \div LimbSize
  BY <1>2, QuotientStep
<1>4. \A k \in Nat : Q(k + 1) * LimbSize + (Q(k) % LimbSize) = Q(k) /\ Q(k) % LimbSize \in Int
  <2> TAKE k \in Nat
  <2>1. Q(k) \in Int /\ Q(k + 1) = Q(k) \div LimbSize
    BY <1>3
  <2> HIDE DEF Q
  <2>2. Q(k) % LimbSize \in 0..(LimbSize - 1) /\ (Q(k) \div LimbSize) * LimbSize + (Q(k) % LimbSize) = Q(k)
    BY <1>2, <2>1, DivideAndJoin
  <2>3. QED
    BY <1>2, <2>1, <2>2
<1>5. limbs = [i \in 1..n |-> IF i = 1 THEN Q(n - i) ELSE Q(n - i) % LimbSize]
  BY DEF LimbsOf
<1> HIDE DEF limbs, Q, n
<1>6. /\ limbs \in Seq(Int) /\ Len(limbs) = n
      /\ \A i \in 1..n : limbs[i] = IF i = 1 THEN Q(n - i) ELSE Q(n - i) % LimbSize
  <2>1. \A i \in 1..n : n - i \in Nat
    BY <1>1
  <2>2. limbs \in [1..n -> Int]
    BY <1>3, <1>4, <1>5, <2>1
  <2>3. QED
    BY <1>1, <1>5, <2>2
<1> DEFINE Is(g) == g = [i \in 0..Len(limbs) |-> IF i = 0 THEN 0 ELSE g[i - 1] * LimbSize + limbs[i]]
           step == [i \in 1..n |-> [x \in Int |-> x * LimbSize + limbs[i]]]
<1>7. step \in [1..n -> [Int -> Int]] /\ \A i \in 1..n, x \in Int : step[i][x] = x * LimbSize + limbs[i]
  <2>1. \A i \in 1..n : limbs[i] \in Int
    BY <1>1, <1>6
  <2>2. \A i \in 1..n, x \in Int : x * LimbSize + limbs[i] \in Int
    BY <1>2, <2>1
  <2>3. QED
    BY <2>2
<1> HIDE DEF step
<1>8. PICK f \in [0..n -> Int] : IsIterationTo(n, f, 0, step)
  <2>1. n \in Nat /\ 0 \in Int
    BY <1>1
  <2>2. \E f \in [0..n -> Int] : IsIterationTo(n, f, 0, step)
    BY <1>7, <2>1, IterationTo
  <2>3. QED
    BY <2>2
<1>9. \A i \in 0..n : f[i] = IF i = 0 THEN 0 ELSE f[i - 1] * LimbSize + limbs[i]
  <2> TAKE i \in 0..n
  <2>1. CASE i = 0
    BY <1>8, <2>1 DEF IsIterationTo
  <2>2. CASE i # 0
    <3>1. i \in 1..n /\ i - 1 \in 0..n
      BY <1>1, <2>2
    <3>2. f[i] = step[i][f[i - 1]] /\ f[i - 1] \in Int
      BY <1>8, <3>1 DEF IsIterationTo
    <3>3. QED
      BY <1>7, <2>2, <3>1, <3>2
  <2>3. QED
    BY <2>1, <2>2
<1>10. Is(f)
  BY <1>6, <1>8, <1>9
<1> DEFINE sum == CHOOSE g_1 : Is(g_1)
<1>11. Is(sum)
  BY <1>10
<1>12. Join(limbs) = sum[n]
  BY <1>6 DEF Join
<1>13. \A i \in 0..n : sum[i] = IF i = 0 THEN 0 ELSE sum[i - 1] * LimbSize + limbs[i]
  <2>1. Len(limbs) = n
    BY <1>6
  <2>2. sum = [i \in 0..n |-> IF i = 0 THEN 0 ELSE sum[i - 1] * LimbSize + limbs[i]]
    BY <1>11, <2>1
  <2> HIDE DEF sum
  <2>3. QED
    BY <2>2
<1> HIDE DEF sum
<1>14. sum[1] = Q(n - 1)
  <2>1. 1 \in 1..n /\ 1 \in 0..n /\ 0 \in 0..n /\ n - 1 \in Nat
    BY <1>1
  <2>2. sum[1] = sum[0] * LimbSize + limbs[1] /\ sum[0] = 0 /\ limbs[1] = Q(n - 1)
    BY <1>6, <1>13, <2>1
  <2>3. Q(n - 1) \in Int /\ 0 * LimbSize = 0
    BY <1>2, <1>3, <2>1
  <2>4. QED
    BY <2>2, <2>3
<1>15. ASSUME NEW i \in 1..(n - 1), sum[i] = Q(n - i) PROVE sum[i + 1] = Q(n - (i + 1))
  <2>1. /\ i + 1 \in 0..n /\ i + 1 \in 1..n /\ i + 1 # 1 /\ i + 1 # 0 /\ (i + 1) - 1 = i
        /\ n - (i + 1) \in Nat /\ (n - (i + 1)) + 1 = n - i
    BY <1>1
  <2>2. sum[i + 1] = sum[i] * LimbSize + limbs[i + 1]
    BY <1>13, <2>1
  <2>3. limbs[i + 1] = Q(n - (i + 1)) % LimbSize
    BY <1>6, <2>1
  <2>4. Q(n - i) * LimbSize + (Q(n - (i + 1)) % LimbSize) = Q(n - (i + 1))
    BY <1>4, <2>1
  <2>5. QED
    BY <1>15, <2>2, <2>3, <2>4
<1>16. sum[n] = Q(0)
  <2>1. CASE n = 2
    BY <1>14, <1>15, <2>1
  <2>2. CASE n = 4
    <3>1. sum[2] = Q(2)
      BY <1>14, <1>15, <2>2
    <3>2. sum[3] = Q(1)
      BY <1>15, <2>2, <3>1
    <3>3. QED
      BY <1>15, <2>2, <3>2
  <2>3. QED
    BY <1>1, <2>1, <2>2
<1>17. Join(limbs) = value
  BY <1>3, <1>12, <1>16
<1>18. QED
  BY <1>17 DEF limbs

\* Integers come out of their limbs.
LEMMA IntegersDecoded ==
  ASSUME NEW type \in IntegerTypes, NEW value \in Values(type)
  PROVE  DecodeInteger(LimbsOf(value, type), type) = value
<1>1. LimbSize \in Nat \ {0}
  BY ConversionConstants
<1>2. SizeOf(type) \in Nat
  <2>1. LimbSize * LimbSize \in Nat
    BY <1>1
  <2>2. LimbSize * LimbSize * LimbSize \in Nat
    BY <1>1, <2>1
  <2>3. LimbSize * LimbSize * LimbSize * LimbSize \in Nat
    BY <1>1, <2>2
  <2>4. QED
    BY <2>1, <2>3 DEF SizeOf
<1>3. HalfOf(type) \in Int
  BY <1>2 DEF HalfOf
<1>4. value \in Int /\ (type.signed => value <= HalfOf(type) - 1)
  <2>1. CASE type.signed
    BY <1>3, <2>1 DEF Values
  <2>2. CASE ~type.signed
    BY <1>2, <2>2 DEF Values
  <2>3. QED
    BY <2>1, <2>2
<1>5. Join(LimbsOf(value, type)) = value
  BY <1>4, LimbsJoin
<1>6. ~(type.signed /\ value > HalfOf(type) - 1)
  BY <1>3, <1>4
<1>7. QED
  BY <1>5, <1>6 DEF DecodeInteger

-----------------------------------------------------------------------------
(* Numbers in groups *)

\* Dividing leaves less, until nothing is left.
LEMMA QuotientsEnd ==
  ASSUME NEW number \in Nat, NEW k \in Nat
  PROVE  /\ Quotient(number, GroupSize, k) \in Nat
         /\ Quotient(number, GroupSize, k) = 0 \/ Quotient(number, GroupSize, k) + k <= number
<1> DEFINE Q(i) == Quotient(number, GroupSize, i)
           T == {i \in Nat : Q(i) \in Nat /\ (Q(i) = 0 \/ Q(i) + i <= number)}
<1>1. GroupSize \in Nat \ {0} /\ GroupSize >= 2 /\ number \in Int
  BY ConversionConstants
<1>2. Q(0) = number /\ \A i \in Nat : Q(i) \in Int /\ Q(i + 1) = Q(i) \div GroupSize
  BY <1>1, QuotientStep
<1> HIDE DEF Q
<1>3. 0 \in T
  BY <1>2
<1>4. ASSUME NEW i \in Nat, i \in T PROVE i + 1 \in T
  <2>1. Q(i) \in Nat /\ (Q(i) = 0 \/ Q(i) + i <= number) /\ Q(i + 1) = Q(i) \div GroupSize
    BY <1>2, <1>4
  <2>2. PICK a \in Nat : a = Q(i)
    BY <2>1
  <2>3. PICK b \in Int, r \in 0..(GroupSize - 1) :
          b = Q(i + 1) /\ b * GroupSize + r = a /\ b >= 0
    <3>1. /\ a \div GroupSize \in Int /\ a % GroupSize \in 0..(GroupSize - 1)
          /\ (a \div GroupSize) * GroupSize + (a % GroupSize) = a /\ a \div GroupSize >= 0
      <4>1. a \in Int /\ a >= 0
        BY <2>2
      <4>2. QED
        BY <1>1, <4>1, DivideAndJoin
    <3>2. a \div GroupSize = Q(i + 1)
      BY <2>1, <2>2
    <3>3. QED
      BY <3>1, <3>2
  <2>4. b + b <= a
    <3>1. b * GroupSize >= b * 2
      BY <1>1, <2>3
    <3>2. b * GroupSize \in Int
      BY <1>1, <2>3
    <3>3. QED
      BY <1>1, <2>2, <2>3, <3>1, <3>2
  <2>5. b \in Nat /\ (b = 0 \/ b + (i + 1) <= number)
    BY <2>1, <2>2, <2>3, <2>4
  <2>6. QED
    BY <2>3, <2>5
<1>5. k \in T
  <2> HIDE DEF T
  <2>1. QED
    BY <1>3, <1>4, UpFromZero
<1>6. QED
  BY <1>5 DEF Q

\* How a number is encoded
LEMMA EncodedAs ==
  ASSUME NEW number \in Nat
  PROVE  \E size \in Nat \ {0} :
           /\ Encoded(number) \in Seq(Nat) /\ Len(Encoded(number)) = size
           /\ \A i \in 1..(size - 1) : /\ Encoded(number)[i] >= GroupSize
                                       /\ Encoded(number)[i] % GroupSize
                                            = Quotient(number, GroupSize, i - 1) % GroupSize
           /\ Encoded(number)[size] = Quotient(number, GroupSize, size - 1)
           /\ Encoded(number)[size] < GroupSize
           /\ Quotient(number, GroupSize, size) = 0
<1> DEFINE Q(i) == Quotient(number, GroupSize, i)
           IsLast(k) == Q(k) = 0 /\ \A j \in 1..(k - 1) : Q(j) # 0
           size == CHOOSE k \in 1..(number + 1) : IsLast(k)
           bytes == Encoded(number)
<1>1. GroupSize \in Nat \ {0} /\ GroupSize >= 2 /\ number \in Int
  BY ConversionConstants
<1>2. \A i \in Nat : /\ Q(i) \in Nat /\ (Q(i) = 0 \/ Q(i) + i <= number)
                     /\ Q(i + 1) = Q(i) \div GroupSize
  BY <1>1, QuotientStep, QuotientsEnd
<1>3. bytes = [i \in 1..size |-> IF i < size THEN GroupSize + (Q(i - 1) % GroupSize) ELSE Q(i - 1)]
  BY DEF Encoded
<1> HIDE DEF Q
<1>4. \E k \in 1..(number + 1) : IsLast(k)
  <2> DEFINE Z == {k \in Nat : k >= 1 /\ Q(k) = 0}
  <2>1. number + 1 \in Z
    <3>1. number + 1 \in Nat /\ number + 1 >= 1
      OBVIOUS
    <3>2. ~(Q(number + 1) + (number + 1) <= number)
      BY <1>2, <3>1
    <3>3. QED
      BY <1>2, <3>1, <3>2
  <2>2. PICK k \in Z : \A j \in Z : k <= j
    <3>1. Z \in SUBSET Nat /\ Z # {}
      BY <2>1
    <3> HIDE DEF Z
    <3>2. QED
      BY <3>1, LeastOf
  <2>3. k \in 1..(number + 1)
    BY <2>1, <2>2
  <2>4. \A j \in 1..(k - 1) : Q(j) # 0
    BY <2>2, <2>3
  <2>5. QED
    BY <2>2, <2>3, <2>4
<1>5. size \in 1..(number + 1) /\ IsLast(size)
  <2> HIDE DEF IsLast
  <2>1. QED
    BY <1>4
<1> HIDE DEF size, bytes
<1>6. size \in Nat \ {0} /\ size - 1 \in Nat /\ (size - 1) + 1 = size
  BY <1>5
<1>7. \A i \in 1..size : i - 1 \in Nat
  BY <1>6
<1>8. Q(size - 1) \in Nat /\ Q(size - 1) < GroupSize
  <2>1. PICK a \in Nat : a = Q(size - 1)
    BY <1>2, <1>6
  <2>2. a \div GroupSize = 0
    BY <1>2, <1>5, <1>6, <2>1
  <2>3. PICK r \in 0..(GroupSize - 1) : 0 * GroupSize + r = a
    BY <1>1, <2>2, DivideAndJoin
  <2>4. a < GroupSize
    BY <1>1, <2>3
  <2>5. QED
    BY <2>1, <2>4
<1>9. ASSUME NEW i \in 1..size, i < size
      PROVE  /\ GroupSize + (Q(i - 1) % GroupSize) \in Nat
             /\ GroupSize + (Q(i - 1) % GroupSize) >= GroupSize
             /\ (GroupSize + (Q(i - 1) % GroupSize)) % GroupSize = Q(i - 1) % GroupSize
  <2>1. PICK r \in 0..(GroupSize - 1) : r = Q(i - 1) % GroupSize
    <3>1. Q(i - 1) \in Int
      BY <1>2, <1>7
    <3>2. Q(i - 1) % GroupSize \in 0..(GroupSize - 1)
      BY <1>1, <3>1, DivideAndJoin
    <3>3. QED
      BY <3>2
  <2>2. (GroupSize + r) % GroupSize = r
    BY <1>1, <2>1
  <2>3. QED
    BY <1>1, <2>1, <2>2
<1>10. bytes \in [1..size -> Nat]
  BY <1>2, <1>3, <1>7, <1>9
<1>11. bytes \in Seq(Nat) /\ Len(bytes) = size
  BY <1>6, <1>10
<1>12. \A i \in 1..(size - 1) : bytes[i] >= GroupSize /\ bytes[i] % GroupSize = Q(i - 1) % GroupSize
  <2> TAKE i \in 1..(size - 1)
  <2>1. i \in 1..size /\ i < size
    BY <1>6
  <2>2. bytes[i] = GroupSize + (Q(i - 1) % GroupSize)
    BY <1>3, <2>1
  <2>3. QED
    BY <1>9, <2>1, <2>2
<1>13. bytes[size] = Q(size - 1)
  BY <1>3, <1>6
<1>14. bytes[size] < GroupSize /\ Q(size) = 0
  BY <1>5, <1>8, <1>13
<1>15. QED
  BY <1>6, <1>11, <1>12, <1>13, <1>14 DEF bytes, Q

LEMMA BytesAreNumbers ==
  ASSUME NEW wasm \in Seq(Nat), NEW i \in Int
  PROVE  ByteAt(wasm, i) \in Nat /\ (i > Len(wasm) => ByteAt(wasm, i) = 0)
BY DEF ByteAt

\* How a number is read
ByteOf(wasm, offset, k) == ByteAt(wasm, offset + k - 1)
EndsAt(wasm, offset, k) ==
  /\ ByteOf(wasm, offset, k) < GroupSize
  /\ \A j \in 1..(k - 1) : ByteOf(wasm, offset, j) >= GroupSize

LEMMA ReadAs ==
  ASSUME NEW wasm \in Seq(Nat), NEW offset \in Nat \ {0}
  PROVE  \E bytesRead \in 1..(Len(wasm) + 1), value \in [Nat -> Nat] :
           /\ EndsAt(wasm, offset, bytesRead)
           /\ value[0] = 0
           /\ \A k \in Nat : value[k + 1]
                = (ByteOf(wasm, offset, bytesRead - k) % GroupSize) + GroupSize * value[k]
           /\ ReadLEB128(wasm, offset) = <<value[bytesRead], bytesRead>>
<1> DEFINE byte(k) == ByteAt(wasm, offset + k - 1)
           size == CHOOSE k \in 1..(Len(wasm) + 1) :
                     byte(k) < GroupSize /\ \A j \in 1..(k - 1) : byte(j) >= GroupSize
           Is(g) == g = [k \in Nat |-> IF k = 0 THEN 0
                           ELSE (byte(size - k + 1) % GroupSize) + GroupSize * g[k - 1]]
           value == CHOOSE g_1 : Is(g_1)
<1>1. GroupSize \in Nat \ {0} /\ Len(wasm) \in Nat
  BY ConversionConstants
<1>2. ReadLEB128(wasm, offset) = <<value[size], size>>
  BY DEF ReadLEB128
<1>3. \A k \in Int : byte(k) \in Nat /\ (offset + k - 1 > Len(wasm) => byte(k) = 0)
  BY BytesAreNumbers
<1>4. \A k : byte(k) = ByteOf(wasm, offset, k)
  BY DEF ByteOf
<1> HIDE DEF byte
<1>5. \E k \in 1..(Len(wasm) + 1) :
        byte(k) < GroupSize /\ \A j \in 1..(k - 1) : byte(j) >= GroupSize
  <2> DEFINE Z == {k \in Nat : k >= 1 /\ byte(k) < GroupSize}
  <2>1. Len(wasm) + 1 \in Z
    <3>1. offset + (Len(wasm) + 1) - 1 > Len(wasm) /\ Len(wasm) + 1 \in Nat
      BY <1>1
    <3>2. byte(Len(wasm) + 1) = 0
      BY <1>3, <3>1
    <3>3. QED
      BY <1>1, <3>1, <3>2
  <2>2. PICK k \in Z : \A j \in Z : k <= j
    <3>1. Z \in SUBSET Nat /\ Z # {}
      BY <2>1
    <3> HIDE DEF Z
    <3>2. QED
      BY <3>1, LeastOf
  <2>3. k \in 1..(Len(wasm) + 1)
    BY <1>1, <2>1, <2>2
  <2>4. ASSUME NEW j \in 1..(k - 1) PROVE byte(j) >= GroupSize
    <3>1. j \in Nat /\ j >= 1 /\ ~(k <= j)
      BY <2>2, <2>3
    <3>2. j \notin Z
      BY <2>2, <3>1
    <3>3. byte(j) \in Nat
      BY <1>3, <3>1
    <3>4. QED
      BY <1>1, <3>1, <3>2, <3>3
  <2>5. QED
    BY <2>2, <2>3, <2>4
<1>6. /\ size \in 1..(Len(wasm) + 1) /\ byte(size) < GroupSize
      /\ \A j \in 1..(size - 1) : byte(j) >= GroupSize
  BY <1>5
<1> HIDE DEF size
<1> DEFINE step == [k \in Nat |-> [x \in Nat |-> (byte(size - k) % GroupSize) + GroupSize * x]]
<1>7. /\ step \in [Nat -> [Nat -> Nat]]
      /\ \A k \in Nat, x \in Nat : step[k][x] = (byte(size - k) % GroupSize) + GroupSize * x
  <2>1. ASSUME NEW k \in Nat, NEW x \in Nat
        PROVE  (byte(size - k) % GroupSize) + GroupSize * x \in Nat
    <3>1. byte(size - k) \in Int
      BY <1>3, <1>6
    <3>2. byte(size - k) % GroupSize \in 0..(GroupSize - 1)
      BY <1>1, <3>1, DivideAndJoin
    <3>3. GroupSize * x \in Nat
      BY <1>1
    <3>4. QED
      BY <1>1, <3>2, <3>3
  <2>2. QED
    BY <2>1
<1> HIDE DEF step
<1>8. PICK f \in [Nat -> Nat] : IsIteration(f, 0, step)
  BY <1>7, IterationExists
<1>9. \A k \in Nat : f[k] = IF k = 0 THEN 0
                            ELSE (byte(size - k + 1) % GroupSize) + GroupSize * f[k - 1]
  <2> TAKE k \in Nat
  <2>1. CASE k = 0
    BY <1>8, <2>1 DEF IsIteration
  <2>2. CASE k # 0
    <3>1. k - 1 \in Nat /\ (k - 1) + 1 = k /\ size - (k - 1) = size - k + 1
      BY <1>6, <2>2
    <3>2. f[(k - 1) + 1] = step[k - 1][f[k - 1]] /\ f[k - 1] \in Nat
      BY <1>8, <3>1 DEF IsIteration
    <3>3. step[k - 1][f[k - 1]] = (byte(size - (k - 1)) % GroupSize) + GroupSize * f[k - 1]
      BY <1>7, <3>1, <3>2
    <3>4. QED
      BY <2>2, <3>1, <3>2, <3>3
  <2>3. QED
    BY <2>1, <2>2
<1>10. Is(f)
  BY <1>8, <1>9
<1>11. Is(value)
  BY <1>10
<1>12. \A k \in Nat : value[k] = IF k = 0 THEN 0
                                 ELSE (byte(size - k + 1) % GroupSize) + GroupSize * value[k - 1]
  BY <1>11
<1>13. value = [k \in Nat |-> value[k]]
  BY <1>11
<1> HIDE DEF value
<1>14. /\ value[0] = 0
       /\ \A k \in Nat : value[k + 1] = (byte(size - k) % GroupSize) + GroupSize * value[k]
  <2>1. value[0] = 0
    BY <1>12
  <2>2. ASSUME NEW k \in Nat
        PROVE  value[k + 1] = (byte(size - k) % GroupSize) + GroupSize * value[k]
    <3>1. k + 1 \in Nat /\ k + 1 # 0 /\ (k + 1) - 1 = k /\ size - (k + 1) + 1 = size - k
      BY <1>6
    <3>2. value[k + 1] = (byte(size - (k + 1) + 1) % GroupSize) + GroupSize * value[(k + 1) - 1]
      BY <1>12, <3>1
    <3>3. QED
      BY <3>1, <3>2
  <2>3. QED
    BY <2>1, <2>2
<1> DEFINE T == {k \in Nat : value[k] \in Nat}
<1>15. Nat \subseteq T
  <2>1. 0 \in T
    BY <1>14
  <2>2. ASSUME NEW k \in Nat, k \in T PROVE k + 1 \in T
    <3>1. value[k] \in Nat /\ k + 1 \in Nat
      BY <2>2
    <3>2. step[k] \in [Nat -> Nat]
      BY <1>7
    <3>5. step[k][value[k]] \in Nat
      BY <3>1, <3>2
    <3>3. value[k + 1] = step[k][value[k]]
      BY <1>7, <1>14, <3>1
    <3>4. QED
      BY <3>1, <3>3, <3>5
  <2> HIDE DEF T
  <2>3. QED
    BY <2>1, <2>2, UpFromZero
<1>16. value \in [Nat -> Nat]
  BY <1>13, <1>15
<1>17. EndsAt(wasm, offset, size)
  BY <1>4, <1>6 DEF EndsAt
<1>18. \A k \in Nat : value[k + 1]
         = (ByteOf(wasm, offset, size - k) % GroupSize) + GroupSize * value[k]
  BY <1>4, <1>14
<1>19. QED
  BY <1>2, <1>6, <1>14, <1>16, <1>17, <1>18

\* Whatever is read is a number, in at least one byte.
LEMMA ReadIsNumber ==
  ASSUME NEW wasm \in Seq(Nat), NEW offset \in Nat \ {0}
  PROVE  /\ ReadLEB128(wasm, offset)[1] \in Nat /\ ReadLEB128(wasm, offset)[2] \in Nat
         /\ ReadLEB128(wasm, offset)[2] >= 1
<1>1. PICK bytesRead \in 1..(Len(wasm) + 1), value \in [Nat -> Nat] :
        /\ EndsAt(wasm, offset, bytesRead)
        /\ value[0] = 0
        /\ \A k \in Nat : value[k + 1]
             = (ByteOf(wasm, offset, bytesRead - k) % GroupSize) + GroupSize * value[k]
        /\ ReadLEB128(wasm, offset) = <<value[bytesRead], bytesRead>>
  BY ReadAs
<1>2. Len(wasm) \in Nat
  OBVIOUS
<1>3. bytesRead \in Nat /\ bytesRead >= 1 /\ value[bytesRead] \in Nat
  BY <1>1, <1>2
<1>4. QED
  BY <1>1, <1>3

\* An encoded number is read as the number.
LEMMA ReadsEncoded ==
  ASSUME NEW wasm \in Seq(Nat), NEW offset \in Nat \ {0}, NEW number \in Nat,
         \A i \in 1..Len(Encoded(number)) :
           offset + i - 1 <= Len(wasm) /\ wasm[offset + i - 1] = Encoded(number)[i]
  PROVE  ReadLEB128(wasm, offset) = <<number, Len(Encoded(number))>>
<1> DEFINE Q(i) == Quotient(number, GroupSize, i)
           bytes == Encoded(number)
           byte(k) == ByteOf(wasm, offset, k)
<1>1. GroupSize \in Nat \ {0} /\ Len(wasm) \in Nat /\ number \in Int
  BY ConversionConstants
<1>2. PICK size \in Nat \ {0} :
        /\ bytes \in Seq(Nat) /\ Len(bytes) = size
        /\ \A i \in 1..(size - 1) : /\ bytes[i] >= GroupSize
                                    /\ bytes[i] % GroupSize = Q(i - 1) % GroupSize
        /\ bytes[size] = Q(size - 1) /\ bytes[size] < GroupSize /\ Q(size) = 0
  BY EncodedAs
<1>3. \A i \in Nat : Q(i) \in Nat /\ Q(i + 1) = Q(i) \div GroupSize
  <2> TAKE i \in Nat
  <2>1. Q(i) \in Nat
    BY QuotientsEnd
  <2>2. QED
    BY <1>1, <2>1, QuotientStep
<1>4. Q(0) = number
  BY <1>1, QuotientStep
<1>5. \A i \in 1..size : byte(i) = bytes[i]
  <2> TAKE i \in 1..size
  <2>1. offset + i - 1 <= Len(wasm) /\ wasm[offset + i - 1] = bytes[i]
    BY <1>2
  <2>2. offset + i - 1 \in DOMAIN wasm
    BY <1>1, <2>1
  <2>3. QED
    BY <2>1, <2>2 DEF ByteOf, ByteAt
<1> HIDE DEF Q, bytes, byte
<1>6. PICK bytesRead \in 1..(Len(wasm) + 1), value \in [Nat -> Nat] :
        /\ EndsAt(wasm, offset, bytesRead)
        /\ value[0] = 0
        /\ \A k \in Nat : value[k + 1]
             = (ByteOf(wasm, offset, bytesRead - k) % GroupSize) + GroupSize * value[k]
        /\ ReadLEB128(wasm, offset) = <<value[bytesRead], bytesRead>>
  BY ReadAs
<1>7. byte(bytesRead) < GroupSize /\ \A j \in 1..(bytesRead - 1) : byte(j) >= GroupSize
  BY <1>6 DEF EndsAt, byte
<1>8. bytesRead = size
  <2>1. bytesRead \in Nat /\ bytesRead >= 1 /\ size \in Nat /\ size >= 1
    BY <1>1, <1>2
  <2>2. \A i \in 1..size : bytes[i] \in Nat
    BY <1>2, ElementOfSeq
  <2>3. ~(bytesRead < size)
    <3> SUFFICES ASSUME bytesRead < size PROVE FALSE
      OBVIOUS
    <3>1. bytesRead \in 1..size /\ bytesRead \in 1..(size - 1)
      <4>1. \A b, n \in Nat : b >= 1 /\ b < n => b \in 1..n /\ b \in 1..(n - 1)
        OBVIOUS
      <4>2. QED
        BY <2>1, <4>1
    <3>2. bytes[bytesRead] >= GroupSize /\ bytes[bytesRead] < GroupSize /\ bytes[bytesRead] \in Nat
      BY <1>2, <1>5, <1>7, <2>2, <3>1
    <3>3. \A x, g \in Nat : ~(x >= g /\ x < g)
      OBVIOUS
    <3>4. GroupSize \in Nat
      BY <1>1
    <3>5. QED
      BY <3>2, <3>3, <3>4, Zenon
  <2>4. ~(size < bytesRead)
    <3> SUFFICES ASSUME size < bytesRead PROVE FALSE
      OBVIOUS
    <3>1. size \in 1..size /\ size \in 1..(bytesRead - 1)
      <4>1. \A b, n \in Nat : b >= 1 /\ b < n => b \in 1..(n - 1)
        OBVIOUS
      <4>2. size \in 1..size
        BY <2>1
      <4>3. QED
        BY <2>1, <4>1, <4>2
    <3>2. bytes[size] >= GroupSize /\ bytes[size] < GroupSize /\ bytes[size] \in Nat
      BY <1>2, <1>5, <1>7, <2>2, <3>1
    <3>3. \A x, g \in Nat : ~(x >= g /\ x < g)
      OBVIOUS
    <3>4. GroupSize \in Nat
      BY <1>1
    <3>5. QED
      BY <3>2, <3>3, <3>4, Zenon
  <2>5. QED
    BY <2>1, <2>3, <2>4
<1>9. \A k \in Nat : value[k + 1] = (byte(size - k) % GroupSize) + GroupSize * value[k]
  BY <1>6, <1>8 DEF byte
<1>10. \A i \in 1..size : byte(i) % GroupSize = Q(i - 1) % GroupSize
  <2> TAKE i \in 1..size
  <2>1. CASE i = size
    BY <1>2, <1>5, <2>1
  <2>2. CASE i # size
    <3>1. i \in 1..(size - 1)
      BY <1>2, <2>2
    <3>2. QED
      BY <1>2, <1>5, <3>1
  <2>3. QED
    BY <2>1, <2>2
<1> DEFINE T == {k \in Nat : k <= size => value[k] = Q(size - k)}
<1>11. 0 \in T
  <2>1. size - 0 = size
    BY <1>2
  <2>2. QED
    BY <1>2, <1>6, <2>1
<1>12. ASSUME NEW k \in Nat, k \in T PROVE k + 1 \in T
  <2> SUFFICES ASSUME k + 1 <= size PROVE value[k + 1] = Q(size - (k + 1))
    OBVIOUS
  <2>1. PICK m \in Nat : m = size - (k + 1)
    BY <1>2
  <2>2. /\ k <= size /\ size - k = m + 1 /\ size - k \in 1..size /\ (size - k) - 1 = m
        /\ size - (k + 1) = m
    BY <1>2, <2>1
  <2>3. value[k] = Q(m + 1)
    BY <1>12, <2>2
  <2>4. value[k + 1] = (Q(m) % GroupSize) + GroupSize * Q(m + 1)
    BY <1>9, <1>10, <2>2, <2>3
  <2>5. PICK a \in Nat : a = Q(m)
    BY <1>3
  <2>6. (a % GroupSize) + GroupSize * (a \div GroupSize) = a
    <3>1. /\ a \div GroupSize \in Int /\ a % GroupSize \in 0..(GroupSize - 1)
          /\ (a \div GroupSize) * GroupSize + (a % GroupSize) = a
      <4>1. a \in Int
        BY <2>5
      <4>2. QED
        BY <1>1, <4>1, DivideAndJoin
    <3>2. PICK b \in Int : b = a \div GroupSize
      BY <3>1
    <3>3. GroupSize * b = b * GroupSize /\ b * GroupSize \in Int
      BY <1>1, <3>2
    <3>4. PICK p \in Int, r \in Int : p = b * GroupSize /\ r = a % GroupSize
      BY <1>1, <3>1, <3>3
    <3>5. p + r = a
      BY <3>1, <3>2, <3>4
    <3>6. r + p = a
      BY <3>5
    <3>7. QED
      BY <3>2, <3>3, <3>4, <3>6
  <2>7. Q(m + 1) = a \div GroupSize
    BY <1>3, <2>5
  <2>8. QED
    BY <2>2, <2>4, <2>5, <2>6, <2>7
<1>13. value[size] = number
  <2>1. size \in T
    <3> HIDE DEF T
    <3>1. QED
      BY <1>2, <1>11, <1>12, UpFromZero
  <2>2. size - size = 0
    BY <1>2
  <2>3. QED
    BY <1>2, <1>4, <2>1, <2>2
<1>14. QED
  BY <1>2, <1>6, <1>8, <1>13 DEF bytes

-----------------------------------------------------------------------------
(* Sequences joined from their parts *)

JoinsTo(N, f, start, parts) == f[0] = start /\ \A i \in 1..N : f[i] = f[i - 1] \o parts[i]

LEMMA PartsJoined ==
  \A S : \A N \in Nat : \A start \in Seq(S), parts \in [1..N -> Seq(S)] :
    \E f \in [0..N -> Seq(S)] : JoinsTo(N, f, start, parts)
<1> SUFFICES ASSUME NEW S, NEW N \in Nat, NEW start \in Seq(S), NEW parts \in [1..N -> Seq(S)]
             PROVE  \E f \in [0..N -> Seq(S)] : JoinsTo(N, f, start, parts)
  OBVIOUS
<1> DEFINE step == [i \in 1..N |-> [x \in Seq(S) |-> x \o parts[i]]]
<1>1. /\ step \in [1..N -> [Seq(S) -> Seq(S)]]
      /\ \A i \in 1..N, x \in Seq(S) : step[i][x] = x \o parts[i]
  <2>1. \A i \in 1..N, x \in Seq(S) : x \o parts[i] \in Seq(S)
    BY ConcatProperties
  <2>2. QED
    BY <2>1
<1> HIDE DEF step
<1>2. \E f \in [0..N -> Seq(S)] : IsIterationTo(N, f, start, step)
  <2>1. start \in Seq(S) /\ N \in Nat
    OBVIOUS
  <2>2. QED
    BY <1>1, <2>1, IterationTo
<1>3. PICK f \in [0..N -> Seq(S)] : f[0] = start /\ \A n \in 1..N : f[n] = step[n][f[n - 1]]
  BY <1>2 DEF IsIterationTo
<1>4. ASSUME NEW i \in 1..N PROVE f[i] = f[i - 1] \o parts[i]
  <2>1. i - 1 \in 0..N
    OBVIOUS
  <2>2. f[i - 1] \in Seq(S)
    BY <1>3, <2>1
  <2>3. QED
    BY <1>1, <1>3, <2>2
<1>5. QED
  BY <1>3, <1>4 DEF JoinsTo

\* What joins sequences consists of sequences.
LEMMA JoinedTyped ==
  \A S : \A N \in Nat : \A start \in Seq(S), parts \in [1..N -> Seq(S)] : \A f :
    JoinsTo(N, f, start, parts) /\ f = [i \in 0..N |-> f[i]] => f \in [0..N -> Seq(S)]
<1> SUFFICES ASSUME NEW S, NEW N \in Nat, NEW start \in Seq(S), NEW parts \in [1..N -> Seq(S)],
                    NEW f, JoinsTo(N, f, start, parts), f = [i \in 0..N |-> f[i]]
             PROVE  f \in [0..N -> Seq(S)]
  OBVIOUS
<1> DEFINE T == {i \in Nat : i <= N => f[i] \in Seq(S)}
<1>1. 0 \in T
  BY DEF JoinsTo
<1>2. ASSUME NEW i \in Nat, i \in T PROVE i + 1 \in T
  <2> SUFFICES ASSUME i + 1 <= N PROVE f[i + 1] \in Seq(S)
    OBVIOUS
  <2>1. i + 1 \in 1..N /\ (i + 1) - 1 = i /\ i <= N
    OBVIOUS
  <2>2. f[i + 1] = f[i] \o parts[i + 1]
    BY <2>1 DEF JoinsTo
  <2>3. f[i] \in Seq(S) /\ parts[i + 1] \in Seq(S)
    BY <1>2, <2>1
  <2>4. QED
    BY <2>2, <2>3, ConcatProperties
<1>3. \A i \in 0..N : f[i] \in Seq(S)
  <2> HIDE DEF T
  <2>1. Nat \subseteq T
    BY <1>1, <1>2, UpFromZero
  <2>2. QED
    BY <2>1 DEF T
<1>4. QED
  BY <1>3

\* Where the parts are in what they join to
PartsIn(N, f, parts) ==
  /\ \A i \in 0..N : Len(f[i]) <= Len(f[N])
  /\ \A i \in 1..N : /\ Len(f[i]) = Len(f[i - 1]) + Len(parts[i])
                     /\ \A x \in 1..Len(parts[i]) : f[N][Len(f[i - 1]) + x] = parts[i][x]
  /\ (\A i \in 1..N : Len(parts[i]) >= 1) => N <= Len(f[N])

LEMMA PlacesOfParts ==
  \A S : \A N \in Nat : \A start \in Seq(S), parts \in [1..N -> Seq(S)], f \in [0..N -> Seq(S)] :
    JoinsTo(N, f, start, parts) => PartsIn(N, f, parts)
<1> SUFFICES ASSUME NEW S, NEW N \in Nat, NEW start \in Seq(S), NEW parts \in [1..N -> Seq(S)],
                    NEW f \in [0..N -> Seq(S)], JoinsTo(N, f, start, parts)
             PROVE  PartsIn(N, f, parts)
  OBVIOUS
<1>1. ASSUME NEW i \in 1..N
      PROVE  /\ f[i] \in Seq(S) /\ f[i - 1] \in Seq(S) /\ parts[i] \in Seq(S)
             /\ Len(f[i]) \in Nat /\ Len(f[i - 1]) \in Nat /\ Len(parts[i]) \in Nat
             /\ Len(f[i]) = Len(f[i - 1]) + Len(parts[i])
             /\ \A x \in 1..Len(f[i - 1]) : f[i][x] = f[i - 1][x]
             /\ \A x \in 1..Len(parts[i]) : f[i][Len(f[i - 1]) + x] = parts[i][x]
  <2>1. i - 1 \in 0..N /\ i \in 0..N
    OBVIOUS
  <2>2. f[i] \in Seq(S) /\ f[i - 1] \in Seq(S) /\ parts[i] \in Seq(S) /\ f[i] = f[i - 1] \o parts[i]
    BY <2>1 DEF JoinsTo
  <2>3. PICK a \in Seq(S), b \in Seq(S) : a = f[i - 1] /\ b = parts[i]
    BY <2>2
  <2>4. /\ Len(a \o b) = Len(a) + Len(b)
        /\ \A x \in 1..(Len(a) + Len(b)) : (a \o b)[x] = IF x <= Len(a) THEN a[x] ELSE b[x - Len(a)]
    BY ConcatProperties
  <2>5. Len(a) \in Nat /\ Len(b) \in Nat
    BY LenProperties
  <2>6. \A x \in 1..Len(a) : (a \o b)[x] = a[x]
    BY <2>4, <2>5
  <2>7. ASSUME NEW x \in 1..Len(b) PROVE (a \o b)[Len(a) + x] = b[x]
    <3>1. Len(a) + x \in 1..(Len(a) + Len(b)) /\ ~(Len(a) + x <= Len(a)) /\ (Len(a) + x) - Len(a) = x
      BY <2>5
    <3>2. QED
      BY <2>4, <3>1
  <2>8. QED
    BY <2>2, <2>3, <2>4, <2>5, <2>6, <2>7
<1> DEFINE Holds(j) ==
      /\ \A i \in 0..j : Len(f[i]) <= Len(f[j])
      /\ \A i \in 1..j : \A x \in 1..Len(parts[i]) : f[j][Len(f[i - 1]) + x] = parts[i][x]
      /\ (\A i \in 1..N : Len(parts[i]) >= 1) => j <= Len(f[j])
           T == {j \in Nat : j <= N => Holds(j)}
<1>2. 0 \in T
  <2>1. f[0] \in Seq(S)
    OBVIOUS
  <2>2. Len(f[0]) \in Nat
    BY <2>1, LenProperties
  <2>3. \A i \in 0..0 : i = 0
    OBVIOUS
  <2>4. 1..0 = {}
    OBVIOUS
  <2>5. QED
    BY <2>2, <2>3, <2>4
<1>3. ASSUME NEW j \in Nat, j + 1 <= N, Holds(j) PROVE Holds(j + 1)
  <2>1. j + 1 \in 1..N /\ (j + 1) - 1 = j /\ j <= N
    BY j + 1 <= N
  <2>2. Holds(j)
    BY <1>3
  <2>3. /\ Len(f[j + 1]) \in Nat /\ Len(f[j]) \in Nat /\ Len(parts[j + 1]) \in Nat
        /\ Len(f[j + 1]) = Len(f[j]) + Len(parts[j + 1])
        /\ \A x \in 1..Len(f[j]) : f[j + 1][x] = f[j][x]
        /\ \A x \in 1..Len(parts[j + 1]) : f[j + 1][Len(f[j]) + x] = parts[j + 1][x]
    BY <1>1, <2>1
  <2>8. PICK a \in Nat, b \in Nat, c \in Nat :
          a = Len(f[j]) /\ b = Len(f[j + 1]) /\ c = Len(parts[j + 1]) /\ b = a + c
    BY <2>3
  <2>4. \A i \in 0..(j + 1) : Len(f[i]) <= Len(f[j + 1])
    <3> TAKE i \in 0..(j + 1)
    <3>1. i \in 0..N
      BY <2>1
    <3>2. f[i] \in Seq(S)
      BY <3>1
    <3>3. Len(f[i]) \in Nat
      BY <3>2, LenProperties
    <3>4. CASE i = j + 1
      BY <3>3, <3>4
    <3>5. CASE i # j + 1
      <4>1. i \in 0..j
        BY <3>5
      <4>2. Len(f[i]) <= Len(f[j])
        BY <2>2, <4>1
      <4>3. QED
        <5>1. \A p, q, r, s \in Nat : p <= q /\ r = q + s => p <= r
          OBVIOUS
        <5>2. QED
          BY <2>3, <3>3, <4>2, <5>1
    <3>6. QED
      BY <3>4, <3>5
  <2>5. ASSUME NEW i \in 1..(j + 1), NEW x \in 1..Len(parts[i])
        PROVE  f[j + 1][Len(f[i - 1]) + x] = parts[i][x]
    <3>1. CASE i = j + 1
      BY <2>1, <2>3, <3>1
    <3>2. CASE i # j + 1
      <4>1. i \in 1..j /\ i \in 0..j /\ i \in 1..N
        BY <2>1, <3>2
      <4>2. f[j][Len(f[i - 1]) + x] = parts[i][x] /\ Len(f[i]) <= Len(f[j])
        BY <2>2, <4>1
      <4>3. Len(f[i - 1]) \in Nat /\ Len(parts[i]) \in Nat /\ Len(f[i]) = Len(f[i - 1]) + Len(parts[i])
        BY <1>1, <4>1
      <4>4. Len(f[i - 1]) + x \in 1..Len(f[j])
        <5>1. \A u, v, w, p \in Nat : \A y \in 1..v : w = u + v /\ w <= p => u + y \in 1..p
          OBVIOUS
        <5>2. Len(f[j]) \in Nat /\ Len(f[i]) \in Nat
          BY <1>1, <2>3, <4>1
        <5>3. QED
          BY <4>2, <4>3, <5>1, <5>2
      <4>5. QED
        BY <2>3, <4>2, <4>4
    <3>3. QED
      BY <3>1, <3>2
  <2>6. (\A i \in 1..N : Len(parts[i]) >= 1) => j + 1 <= Len(f[j + 1])
    BY <2>1, <2>2, <2>3
  <2>7. QED
    BY <2>4, <2>5, <2>6
<1>6. ASSUME NEW j \in Nat, j \in T PROVE j + 1 \in T
  <2> HIDE DEF Holds
  <2>1. QED
    BY <1>3, <1>6
<1>4. Holds(N)
  <2> HIDE DEF Holds
  <2>1. N \in T
    <3> HIDE DEF T
    <3>1. QED
      BY <1>2, <1>6, UpFromZero
  <2>2. QED
    BY <2>1
<1>5. QED
  BY <1>1, <1>4 DEF PartsIn
-----------------------------------------------------------------------------
(* Entries of a payload *)

\* What is framed joins the frames of the entries.
LEMMA FramedAs ==
  ASSUME NEW lengths \in Seq(Nat)
  PROVE  \E f \in [0..Len(lengths) -> Seq(Nat)], parts \in [1..Len(lengths) -> Seq(Nat)] :
           /\ JoinsTo(Len(lengths), f, <<>>, parts)
           /\ Framed(lengths) = f[Len(lengths)]
           /\ \A i \in 1..Len(lengths) : Len(parts[i]) = 1 + lengths[i] /\ parts[i][1] = lengths[i]
<1> DEFINE N == Len(lengths)
           Part(i) == <<lengths[i]>> \o Zeros(lengths[i])
           parts == [i \in 1..N |-> Part(i)]
           Is(g) == g = [i \in 0..N |-> IF i = 0 THEN <<>>
                                        ELSE g[i - 1] \o (<<lengths[i]>> \o Zeros(lengths[i]))]
           framed == CHOOSE g_1 : Is(g_1)
<1>1. N \in Nat /\ \A i \in 1..N : lengths[i] \in Nat
  BY LenProperties, ElementOfSeq
<1>2. Framed(lengths) = framed[N]
  BY DEF Framed
<1>3. ASSUME NEW i \in 1..N
      PROVE  Part(i) \in Seq(Nat) /\ Len(Part(i)) = 1 + lengths[i] /\ Part(i)[1] = lengths[i]
  <2>1. PICK n \in Nat : n = lengths[i]
    BY <1>1
  <2>2. Zeros(n) \in Seq(Nat) /\ Len(Zeros(n)) = n
    <3>1. Zeros(n) \in [1..n -> Nat]
      BY DEF Zeros
    <3>2. QED
      BY <3>1
  <2>3. <<n>> \in Seq(Nat) /\ Len(<<n>>) = 1 /\ <<n>>[1] = n
    OBVIOUS
  <2>4. PICK z \in Seq(Nat), s \in Seq(Nat) :
          z = Zeros(n) /\ s = <<n>> /\ Len(z) = n /\ Len(s) = 1 /\ s[1] = n
    BY <2>2, <2>3
  <2>5. /\ s \o z \in Seq(Nat) /\ Len(s \o z) = 1 + n
        /\ \A j \in 1..(1 + n) : (s \o z)[j] = IF j <= 1 THEN s[j] ELSE z[j - 1]
    BY <2>4, ConcatProperties
  <2>6. (s \o z)[1] = n
    BY <2>4, <2>5
  <2>7. QED
    BY <2>1, <2>4, <2>5, <2>6
<1> HIDE DEF Part
<1>4. parts \in [1..N -> Seq(Nat)] /\ \A i \in 1..N : parts[i] = Part(i)
  BY <1>3
<1>5. <<>> \in Seq(Nat)
  OBVIOUS
<1> HIDE DEF parts
<1>6. PICK f \in [0..N -> Seq(Nat)] : JoinsTo(N, f, <<>>, parts)
  BY <1>1, <1>4, <1>5, PartsJoined
<1>7. Is(f)
  <2>1. \A i \in 0..N : f[i] = IF i = 0 THEN <<>> ELSE f[i - 1] \o Part(i)
    <3> TAKE i \in 0..N
    <3>1. CASE i = 0
      BY <1>6, <3>1 DEF JoinsTo
    <3>2. CASE i # 0
      <4>1. i \in 1..N
        BY <3>2
      <4>2. QED
        BY <1>4, <1>6, <3>2, <4>1 DEF JoinsTo
    <3>3. QED
      BY <3>1, <3>2
  <2>2. f = [i \in 0..N |-> f[i]]
    BY <1>6
  <2>3. QED
    BY <2>1, <2>2 DEF Part
<1>8. Is(framed)
  <2> HIDE DEF Is
  <2>1. QED
    BY <1>7
<1> HIDE DEF framed
<1>9. JoinsTo(N, framed, <<>>, parts) /\ framed = [i \in 0..N |-> framed[i]]
  <2>1. framed[0] = <<>>
    BY <1>1, <1>8
  <2>2. ASSUME NEW i \in 1..N PROVE framed[i] = framed[i - 1] \o parts[i]
    <3>1. i \in 0..N /\ i # 0
      OBVIOUS
    <3>2. framed[i] = framed[i - 1] \o Part(i)
      BY <1>8, <3>1 DEF Part
    <3>3. QED
      BY <1>4, <3>2
  <2>3. QED
    BY <1>8, <2>1, <2>2 DEF JoinsTo
<1>10. framed \in [0..N -> Seq(Nat)]
  BY <1>1, <1>4, <1>5, <1>9, JoinedTyped
<1>11. \A i \in 1..N : Len(parts[i]) = 1 + lengths[i] /\ parts[i][1] = lengths[i]
  BY <1>3, <1>4
<1>12. QED
  BY <1>2, <1>4, <1>9, <1>10, <1>11

\* A sequence begins with its elements in their order.
LEMMA NextPrefix ==
  ASSUME NEW q \in Seq(Nat), NEW k \in Nat, k + 1 <= Len(q)
  PROVE  SubSeq(q, 1, k + 1) = Append(SubSeq(q, 1, k), q[k + 1])
<1>1. 1..(k + 1) \subseteq 1..Len(q) /\ 1..k \subseteq 1..Len(q) /\ k + 1 \in 1..Len(q)
  OBVIOUS
<1>2. \A i \in 1..Len(q) : q[i] \in Nat
  BY ElementOfSeq
<1>3. /\ SubSeq(q, 1, k) \in Seq(Nat) /\ Len(SubSeq(q, 1, k)) = k
      /\ \A i \in 1..k : SubSeq(q, 1, k)[i] = q[i]
  <2>1. SubSeq(q, 1, k) \in Seq(Nat)
    BY <1>1, <1>2, SubSeqProperties
  <2>2. Len(SubSeq(q, 1, k)) = k
    OBVIOUS
  <2>3. \A i \in 1..k : SubSeq(q, 1, k)[i] = q[i]
    OBVIOUS
  <2>4. QED
    BY <2>1, <2>2, <2>3
<1>4. /\ SubSeq(q, 1, k + 1) \in Seq(Nat) /\ Len(SubSeq(q, 1, k + 1)) = k + 1
      /\ \A i \in 1..(k + 1) : SubSeq(q, 1, k + 1)[i] = q[i]
  <2>1. SubSeq(q, 1, k + 1) \in Seq(Nat)
    BY <1>1, <1>2, SubSeqProperties
  <2>2. Len(SubSeq(q, 1, k + 1)) = k + 1
    OBVIOUS
  <2>3. \A i \in 1..(k + 1) : SubSeq(q, 1, k + 1)[i] = q[i]
    OBVIOUS
  <2>4. QED
    BY <2>1, <2>2, <2>3
<1> DEFINE s == SubSeq(q, 1, k)
           t == SubSeq(q, 1, k + 1)
           a == Append(s, q[k + 1])
<1> HIDE DEF s, t
<1>5. /\ a \in Seq(Nat) /\ Len(a) = k + 1 /\ a[k + 1] = q[k + 1] /\ \A i \in 1..k : a[i] = q[i]
  <2>1. s \in Seq(Nat) /\ Len(s) = k /\ q[k + 1] \in Nat
    BY <1>1, <1>2, <1>3 DEF s
  <2>2. a \in Seq(Nat) /\ Len(a) = k + 1 /\ a[k + 1] = q[k + 1]
    BY <2>1
  <2>3. \A i \in 1..k : a[i] = s[i]
    BY <2>1
  <2>4. QED
    BY <1>3, <2>2, <2>3 DEF s
<1> HIDE DEF a
<1>6. \A i \in 1..(k + 1) : a[i] = t[i]
  <2>1. \A i \in 1..(k + 1) : i \in 1..k \/ i = k + 1
    OBVIOUS
  <2>2. QED
    BY <1>4, <1>5, <2>1 DEF t
<1>7. t \in Seq(Nat) /\ Len(t) = k + 1
  BY <1>4 DEF t
<1>8. a = t
  BY <1>5, <1>6, <1>7, SeqEqual
<1>9. QED
  BY <1>8 DEF a, s, t

\* The entries are found where they are.
LEMMA EntriesRead ==
  ASSUME NEW wasm \in Seq(Nat), NEW entries \in Seq(Nat), NEW first \in Nat \ {0},
         Len(Framed(entries)) \in Nat, first + Len(Framed(entries)) - 1 <= Len(wasm),
         \A x \in 1..Len(Framed(entries)) : wasm[first + x - 1] = Framed(entries)[x]
  PROVE  EntriesFrom(wasm, first, first + Len(Framed(entries))) = entries
<1> DEFINE N == Len(entries)
           size == Len(Framed(entries))
           end == first + size
<1>1. N \in Nat /\ Len(wasm) \in Nat /\ size \in Nat /\ \A i \in 1..N : entries[i] \in Nat
  BY LenProperties, ElementOfSeq
<1>2. PICK f \in [0..N -> Seq(Nat)], parts \in [1..N -> Seq(Nat)] :
        /\ JoinsTo(N, f, <<>>, parts)
        /\ Framed(entries) = f[N]
        /\ \A i \in 1..N : Len(parts[i]) = 1 + entries[i] /\ parts[i][1] = entries[i]
  BY FramedAs
<1>3. PartsIn(N, f, parts)
  <2>1. <<>> \in Seq(Nat) /\ N \in Nat
    BY <1>1
  <2>2. QED
    BY <1>2, <2>1, PlacesOfParts
<1>4. \A i \in 0..N : Len(f[i]) \in Nat /\ Len(f[i]) <= size
  <2> TAKE i \in 0..N
  <2>1. f[i] \in Seq(Nat)
    BY <1>2
  <2>2. QED
    BY <1>2, <1>3, <2>1, LenProperties DEF PartsIn
<1>5. Len(f[0]) = 0
  BY <1>2 DEF JoinsTo
<1>6. ASSUME NEW i \in 1..N
      PROVE  Len(f[i]) = Len(f[i - 1]) + 1 + entries[i] /\ Framed(entries)[Len(f[i - 1]) + 1] = entries[i]
  <2>1. /\ Len(f[i]) = Len(f[i - 1]) + Len(parts[i])
        /\ \A x \in 1..Len(parts[i]) : f[N][Len(f[i - 1]) + x] = parts[i][x]
    BY <1>3 DEF PartsIn
  <2>2. Len(parts[i]) = 1 + entries[i] /\ parts[i][1] = entries[i] /\ entries[i] \in Nat
    BY <1>1, <1>2
  <2>3. 1 \in 1..Len(parts[i])
    BY <2>2
  <2>4. f[N][Len(f[i - 1]) + 1] = entries[i]
    BY <2>1, <2>2, <2>3
  <2>5. i - 1 \in 0..N
    BY <1>1
  <2>6. Len(f[i - 1]) \in Nat
    BY <1>4, <2>5
  <2>7. \A a, e \in Nat : a + (1 + e) = a + 1 + e
    OBVIOUS
  <2>8. Len(f[i]) = Len(f[i - 1]) + (1 + entries[i])
    BY <2>1, <2>2
  <2>9. Len(f[i]) = Len(f[i - 1]) + 1 + entries[i]
    BY <2>2, <2>6, <2>7, <2>8
  <2>10. QED
    BY <1>2, <2>4, <2>9
<1>7. N <= size
  <2>1. \A i \in 1..N : Len(parts[i]) >= 1
    <3> TAKE i \in 1..N
    <3>1. entries[i] \in Nat /\ Len(parts[i]) = 1 + entries[i]
      BY <1>1, <1>2
    <3>2. \A e \in Nat : 1 + e >= 1
      OBVIOUS
    <3>3. QED
      BY <3>1, <3>2
  <2>2. QED
    BY <1>2, <1>3, <2>1 DEF PartsIn
<1> DEFINE Step(t) == IF t.pos < end /\ t.pos <= Len(wasm)
                      THEN [pos |-> t.pos + 1 + wasm[t.pos], entries |-> Append(t.entries, wasm[t.pos])]
                      ELSE t
           At(k) == IF k <= N THEN [pos |-> first + Len(f[k]), entries |-> SubSeq(entries, 1, k)]
                    ELSE [pos |-> end, entries |-> entries]
           Is(g) == g = [k \in Nat |->
                      IF k = 0 THEN [pos |-> first, entries |-> <<>>]
                      ELSE LET t == g[k - 1]
                           IN  IF t.pos < end /\ t.pos <= Len(wasm)
                               THEN [pos |-> t.pos + 1 + wasm[t.pos],
                                     entries |-> Append(t.entries, wasm[t.pos])]
                               ELSE t]
           turn == CHOOSE g_1 : Is(g_1)
<1>8. At(0) = [pos |-> first, entries |-> <<>>]
  <2>1. 0 <= N /\ first + Len(f[0]) = first /\ SubSeq(entries, 1, 0) = <<>>
    BY <1>1, <1>5, SubSeqEmpty
  <2>2. QED
    BY <2>1
<1>9. SubSeq(entries, 1, N) = entries /\ first + Len(f[N]) = end
  BY <1>1, <1>2
<1>10. ASSUME NEW k \in Nat PROVE At(k + 1) = Step(At(k))
  <2>1. CASE k + 1 <= N
    <3>1. k + 1 \in 1..N /\ (k + 1) - 1 = k /\ k \in 0..N /\ k + 1 \in 0..N /\ k <= N
      BY <1>1, <2>1
    <3>2. PICK p \in Nat : p = Len(f[k])
      BY <1>4, <3>1
    <3>3. PICK e \in Nat : e = entries[k + 1]
      BY <1>1, <3>1
    <3>4. Len(f[k + 1]) = p + 1 + e /\ Framed(entries)[p + 1] = e
      BY <1>6, <3>1, <3>2, <3>3
    <3>5. p + 1 + e <= size
      BY <1>4, <3>1, <3>4
    <3>6. first + p < end /\ first + p <= Len(wasm) /\ p + 1 \in 1..size /\ first + (p + 1) - 1 = first + p
      BY <1>1, <3>5
    <3>7. wasm[first + p] = e
      BY <3>4, <3>6
    <3>8. At(k) = [pos |-> first + p, entries |-> SubSeq(entries, 1, k)]
      BY <3>1, <3>2
    <3>9. At(k + 1) = [pos |-> first + (p + 1 + e), entries |-> SubSeq(entries, 1, k + 1)]
      BY <2>1, <3>4
    <3>10. SubSeq(entries, 1, k + 1) = Append(SubSeq(entries, 1, k), e)
      BY <2>1, <3>3, NextPrefix
    <3>11. Step(At(k)) = [pos |-> first + p + 1 + e, entries |-> Append(SubSeq(entries, 1, k), e)]
      BY <3>6, <3>7, <3>8
    <3>12. first + (p + 1 + e) = first + p + 1 + e
      OBVIOUS
    <3>13. QED
      BY <3>9, <3>10, <3>11, <3>12
  <2>2. CASE ~(k + 1 <= N)
    <3>1. At(k) = [pos |-> end, entries |-> entries]
      <4>1. CASE k <= N
        <5>1. k = N
          BY <1>1, <2>2, <4>1
        <5>2. QED
          BY <1>9, <4>1, <5>1
      <4>2. CASE ~(k <= N)
        BY <4>2
      <4>3. QED
        BY <4>1, <4>2
    <3>2. At(k + 1) = [pos |-> end, entries |-> entries]
      BY <2>2
    <3>3. ~(end < end)
      BY <1>1
    <3> HIDE DEF At, end
    <3>4. Step(At(k)) = At(k)
      BY <3>1, <3>3
    <3>5. QED
      BY <3>1, <3>2, <3>4
  <2>3. QED
    BY <2>1, <2>2
<1> DEFINE F == [k \in Nat |-> At(k)]
<1>11. Is(F)
  <2> HIDE DEF At
  <2>1. \A k \in Nat : At(k) = IF k = 0 THEN [pos |-> first, entries |-> <<>>] ELSE Step(At(k - 1))
    <3> TAKE k \in Nat
    <3>1. CASE k = 0
      BY <1>8, <3>1
    <3>2. CASE k # 0
      <4>1. k - 1 \in Nat /\ (k - 1) + 1 = k
        BY <3>2
      <4> HIDE DEF Step
      <4>2. QED
        BY <1>10, <3>2, <4>1
    <3>3. QED
      BY <3>1, <3>2
  <2>2. \A k \in Nat : k # 0 => F[k - 1] = At(k - 1)
    OBVIOUS
  <2>3. QED
    BY <2>1, <2>2
<1>12. Is(turn)
  <2> HIDE DEF Is
  <2>1. QED
    BY <1>11
<1>13. EntriesFrom(wasm, first, end) = turn[Len(wasm)].entries
  BY DEF EntriesFrom
<1> HIDE DEF turn
<1>14. turn[0] = [pos |-> first, entries |-> <<>>] /\ \A k \in Nat : turn[k + 1] = Step(turn[k])
  <2>1. turn[0] = [pos |-> first, entries |-> <<>>]
    BY <1>12
  <2>2. ASSUME NEW k \in Nat PROVE turn[k + 1] = Step(turn[k])
    <3>1. k + 1 \in Nat /\ k + 1 # 0 /\ (k + 1) - 1 = k
      OBVIOUS
    <3>2. turn[k + 1] = Step(turn[(k + 1) - 1])
      BY <1>12, <3>1
    <3> HIDE DEF Step
    <3>3. QED
      BY <3>1, <3>2
  <2>3. QED
    BY <2>1, <2>2
<1> HIDE DEF At, Step, Is
<1> DEFINE T == {k \in Nat : turn[k] = At(k)}
<1>15. Nat \subseteq T
  <2>1. 0 \in T
    BY <1>8, <1>14
  <2>2. ASSUME NEW k \in Nat, k \in T PROVE k + 1 \in T
    <3>1. turn[k] = At(k) /\ k + 1 \in Nat
      BY <2>2
    <3>2. At(k + 1) = Step(At(k))
      BY <1>10
    <3>3. turn[k + 1] = Step(turn[k])
      BY <1>14
    <3>4. turn[k + 1] = At(k + 1)
      BY <3>1, <3>2, <3>3
    <3>5. QED
      BY <3>1, <3>4
  <2> HIDE DEF T
  <2>3. QED
    BY <2>1, <2>2, UpFromZero
<1>16. At(Len(wasm)).entries = entries
  <2>1. CASE Len(wasm) <= N
    <3>1. Len(wasm) = N
      BY <1>1, <1>7, <2>1
    <3>2. QED
      BY <1>9, <2>1, <3>1 DEF At
  <2>2. CASE ~(Len(wasm) <= N)
    BY <2>2 DEF At
  <2>3. QED
    BY <2>1, <2>2
<1>17. QED
  BY <1>1, <1>13, <1>15, <1>16
-----------------------------------------------------------------------------
(* Sections of a file *)

\* Where two sequences are in what they join to
LEMMA TwoJoined ==
  \A a, b \in Seq(Nat) :
    /\ a \o b \in Seq(Nat) /\ Len(a) \in Nat /\ Len(b) \in Nat /\ Len(a \o b) = Len(a) + Len(b)
    /\ \A x \in 1..Len(a) : (a \o b)[x] = a[x]
    /\ \A x \in 1..Len(b) : (a \o b)[Len(a) + x] = b[x]
<1> SUFFICES ASSUME NEW a \in Seq(Nat), NEW b \in Seq(Nat)
             PROVE  /\ a \o b \in Seq(Nat) /\ Len(a) \in Nat /\ Len(b) \in Nat
                    /\ Len(a \o b) = Len(a) + Len(b)
                    /\ \A x \in 1..Len(a) : (a \o b)[x] = a[x]
                    /\ \A x \in 1..Len(b) : (a \o b)[Len(a) + x] = b[x]
  OBVIOUS
<1>1. /\ a \o b \in Seq(Nat) /\ Len(a \o b) = Len(a) + Len(b)
      /\ \A x \in 1..(Len(a) + Len(b)) : (a \o b)[x] = IF x <= Len(a) THEN a[x] ELSE b[x - Len(a)]
  BY ConcatProperties
<1>2. Len(a) \in Nat /\ Len(b) \in Nat
  BY LenProperties
<1>3. \A x \in 1..Len(a) : (a \o b)[x] = a[x]
  BY <1>1, <1>2
<1>4. ASSUME NEW x \in 1..Len(b) PROVE (a \o b)[Len(a) + x] = b[x]
  <2>1. Len(a) + x \in 1..(Len(a) + Len(b)) /\ ~(Len(a) + x <= Len(a)) /\ (Len(a) + x) - Len(a) = x
    BY <1>2
  <2>2. QED
    BY <1>1, <2>1
<1>5. QED
  BY <1>1, <1>2, <1>3, <1>4

LEMMA SeqOfSequences ==
  ASSUME NEW S, NEW n \in Nat, NEW s \in SeqOf(S, n)
  PROVE  s \in Seq(S)
<1>1. PICK m \in 0..n : s \in [1..m -> S]
  BY DEF SeqOf
<1>2. m \in Nat
  OBVIOUS
<1>3. QED
  BY <1>1, <1>2

LEMMA SectionTypes ==
  ASSUME NEW section \in Sections
  PROVE  /\ section.id \in {0, 1} /\ section.name \in Nat
         /\ section.entries \in Seq(Nat) /\ Framed(section.entries) \in Seq(Nat)
<1>1. section.id \in {0, 1} /\ section.name \in {SpecName, OtherName}
  BY DEF Sections
<1>2. section.entries \in SeqOf(EntryLengths, 2)
  BY DEF Sections
<1>3. section.entries \in Seq(EntryLengths)
  <2>1. 2 \in Nat
    OBVIOUS
  <2>2. QED
    BY <1>2, <2>1, SeqOfSequences
<1>4. section.entries \in Seq(Nat)
  <2>1. EntryLengths \subseteq Nat
    BY ConversionConstants
  <2>2. QED
    BY <1>3, <2>1, SeqMonotonic
<1>5. PICK e \in Seq(Nat) : e = section.entries
  BY <1>4
<1>6. PICK f \in [0..Len(e) -> Seq(Nat)] : Framed(e) = f[Len(e)]
  BY FramedAs
<1>7. Len(e) \in 0..Len(e)
  <2>1. Len(e) \in Nat
    BY LenProperties
  <2>2. QED
    BY <2>1
<1>8. Framed(e) \in Seq(Nat)
  BY <1>6, <1>7
<1>9. QED
  BY <1>1, <1>4, <1>5, <1>8, ConversionConstants

LEMMA EncodedTyped ==
  \A number \in Nat : Encoded(number) \in Seq(Nat) /\ Len(Encoded(number)) \in Nat \ {0}
<1> TAKE number \in Nat
<1>1. QED
  BY EncodedAs

BodyOf(section) == NameBytes(section) \o Framed(section.entries)

\* Where the parts of a section are in its bytes
LEMMA SectionAs ==
  ASSUME NEW section \in Sections
  PROVE  LET body == BodyOf(section)
             size == Encoded(Len(body))
             bytes == SectionBytes(section)
         IN  /\ body \in Seq(Nat) /\ Len(body) \in Nat
             /\ bytes \in Seq(Nat) /\ Len(bytes) = 1 + Len(size) + Len(body)
             /\ bytes[1] = section.id
             /\ \A x \in 1..Len(size) : bytes[1 + x] = size[x]
             /\ \A x \in 1..Len(body) : bytes[1 + Len(size) + x] = body[x]
<1> DEFINE body == BodyOf(section)
           size == Encoded(Len(body))
           bytes == SectionBytes(section)
<1>1. /\ section.id \in Nat /\ section.name \in Nat
      /\ section.entries \in Seq(Nat) /\ Framed(section.entries) \in Seq(Nat)
  BY SectionTypes
<1>2. NameBytes(section) \in Seq(Nat)
  <2>1. <<section.name>> \in Seq(Nat) /\ <<>> \in Seq(Nat)
    BY <1>1
  <2>2. Encoded(1) \in Seq(Nat)
    BY EncodedTyped
  <2>3. Encoded(1) \o <<section.name>> \in Seq(Nat)
    BY <2>1, <2>2, ConcatProperties
  <2>4. QED
    BY <2>1, <2>3 DEF NameBytes
<1>3. body \in Seq(Nat) /\ Len(body) \in Nat
  <2>1. body \in Seq(Nat)
    BY <1>1, <1>2, ConcatProperties DEF BodyOf
  <2>2. QED
    BY <2>1, LenProperties
<1>4. size \in Seq(Nat) /\ Len(size) \in Nat
  BY <1>3, EncodedTyped
<1>5. bytes = <<section.id>> \o (size \o body)
  BY DEF SectionBytes, BodyOf
<1> HIDE DEF body, size, bytes
<1> DEFINE tail == size \o body
           id == <<section.id>>
<1>6. id \in Seq(Nat) /\ Len(id) = 1 /\ id[1] = section.id
  BY <1>1
<1>7. /\ tail \in Seq(Nat) /\ Len(tail) = Len(size) + Len(body)
      /\ \A x \in 1..Len(size) : tail[x] = size[x]
      /\ \A x \in 1..Len(body) : tail[Len(size) + x] = body[x]
  BY <1>3, <1>4, TwoJoined
<1> HIDE DEF tail, id
<1>8. bytes = id \o tail
  BY <1>5 DEF tail, id
<1>9. /\ bytes \in Seq(Nat) /\ Len(bytes) = Len(id) + Len(tail)
      /\ \A x \in 1..Len(id) : bytes[x] = id[x]
      /\ \A x \in 1..Len(tail) : bytes[Len(id) + x] = tail[x]
  BY <1>6, <1>7, <1>8, TwoJoined
<1>10. Len(bytes) = 1 + Len(size) + Len(body) /\ bytes[1] = section.id
  <2>1. \A a, b \in Nat : 1 + (a + b) = 1 + a + b
    OBVIOUS
  <2>2. Len(bytes) = 1 + (Len(size) + Len(body))
    BY <1>6, <1>7, <1>9
  <2>3. bytes[1] = id[1]
    <3>1. 1 \in 1..Len(id)
      BY <1>6
    <3>2. QED
      BY <1>9, <3>1
  <2>4. QED
    BY <1>3, <1>4, <1>6, <2>1, <2>2, <2>3
<1>11. ASSUME NEW x \in 1..Len(size) PROVE bytes[1 + x] = size[x]
  <2>1. \A a, b \in Nat : \A y \in 1..a : y \in 1..(a + b)
    OBVIOUS
  <2>2. x \in 1..Len(tail)
    BY <1>3, <1>4, <1>7, <2>1
  <2>3. QED
    BY <1>6, <1>7, <1>9, <2>2
<1>12. ASSUME NEW x \in 1..Len(body) PROVE bytes[1 + Len(size) + x] = body[x]
  <2>1. \A a, b \in Nat : \A y \in 1..b : a + y \in 1..(a + b) /\ 1 + (a + y) = 1 + a + y
    OBVIOUS
  <2>2. Len(size) + x \in 1..Len(tail) /\ 1 + (Len(size) + x) = 1 + Len(size) + x
    BY <1>3, <1>4, <1>7, <2>1
  <2>3. bytes[1 + (Len(size) + x)] = tail[Len(size) + x]
    BY <1>6, <1>9, <2>2
  <2>4. QED
    BY <1>7, <2>2, <2>3
<1>13. QED
  BY <1>3, <1>9, <1>10, <1>11, <1>12 DEF body, size, bytes

\* Where the parts of a custom section are in its body
LEMMA BodyAs ==
  ASSUME NEW section \in Sections, section.id = 0
  PROVE  LET body == BodyOf(section)
             length == Encoded(1)
             payload == Framed(section.entries)
         IN  /\ Len(body) = Len(length) + 1 + Len(payload)
             /\ \A x \in 1..Len(length) : body[x] = length[x]
             /\ body[Len(length) + 1] = section.name
             /\ \A x \in 1..Len(payload) : body[Len(length) + 1 + x] = payload[x]
<1> DEFINE length == Encoded(1)
           payload == Framed(section.entries)
           name == <<section.name>>
           head == length \o name
           body == BodyOf(section)
<1>1. section.name \in Nat /\ payload \in Seq(Nat) /\ Len(payload) \in Nat
  BY SectionTypes, LenProperties
<1>2. length \in Seq(Nat) /\ Len(length) \in Nat
  BY EncodedTyped
<1>3. name \in Seq(Nat) /\ Len(name) = 1 /\ name[1] = section.name
  BY <1>1
<1>4. body = head \o payload
  BY section.id = 0 DEF BodyOf, NameBytes
<1> HIDE DEF length, payload, name, body
<1>5. /\ head \in Seq(Nat) /\ Len(head) = Len(length) + Len(name)
      /\ \A x \in 1..Len(length) : head[x] = length[x]
      /\ \A x \in 1..Len(name) : head[Len(length) + x] = name[x]
  BY <1>2, <1>3, TwoJoined
<1> HIDE DEF head
<1>6. /\ Len(body) = Len(head) + Len(payload)
      /\ \A x \in 1..Len(head) : body[x] = head[x]
      /\ \A x \in 1..Len(payload) : body[Len(head) + x] = payload[x]
  BY <1>1, <1>4, <1>5, TwoJoined
<1>7. Len(head) = Len(length) + 1
  BY <1>3, <1>5
<1>8. Len(body) = Len(length) + 1 + Len(payload)
  BY <1>6, <1>7
<1>9. ASSUME NEW x \in 1..Len(length) PROVE body[x] = length[x]
  <2>1. \A a \in Nat : \A y \in 1..a : y \in 1..(a + 1)
    OBVIOUS
  <2>2. x \in 1..Len(head)
    BY <1>2, <1>7, <2>1
  <2>3. QED
    BY <1>5, <1>6, <2>2
<1>10. body[Len(length) + 1] = section.name
  <2>1. \A a \in Nat : a + 1 \in 1..(a + 1)
    OBVIOUS
  <2>2. Len(length) + 1 \in 1..Len(head)
    BY <1>2, <1>7, <2>1
  <2>3. 1 \in 1..Len(name)
    BY <1>3
  <2>4. head[Len(length) + 1] = name[1]
    BY <1>5, <2>3
  <2>5. QED
    BY <1>3, <1>6, <2>2, <2>4
<1>11. \A x \in 1..Len(payload) : body[Len(length) + 1 + x] = payload[x]
  BY <1>6, <1>7
<1>12. QED
  BY <1>8, <1>9, <1>10, <1>11 DEF length, payload, body
\* A section is read as it was written.
LEMMA SectionRead ==
  ASSUME NEW wasm \in Seq(Nat), NEW section \in Sections, NEW o \in Nat \ {0},
         o + Len(SectionBytes(section)) - 1 <= Len(wasm),
         \A x \in 1..Len(SectionBytes(section)) : wasm[o + x - 1] = SectionBytes(section)[x]
  PROVE  /\ SectionEnd(o + 1, ReadLEB128(wasm, o + 1)) = o + Len(SectionBytes(section))
         /\ SpecEntriesAt(wasm, o, ReadLEB128(wasm, o + 1))
              = IF IsSpec(section) THEN section.entries ELSE <<>>
<1> DEFINE body == BodyOf(section)
           size == Encoded(Len(body))
           bytes == SectionBytes(section)
           length == Encoded(1)
           payload == Framed(section.entries)
<1>1. /\ body \in Seq(Nat) /\ Len(body) \in Nat
      /\ bytes \in Seq(Nat) /\ Len(bytes) = 1 + Len(size) + Len(body)
      /\ bytes[1] = section.id
      /\ \A x \in 1..Len(size) : bytes[1 + x] = size[x]
      /\ \A x \in 1..Len(body) : bytes[1 + Len(size) + x] = body[x]
  BY SectionAs
<1>2. /\ section.id \in {0, 1} /\ section.name \in Nat
      /\ section.entries \in Seq(Nat) /\ payload \in Seq(Nat) /\ Len(payload) \in Nat
  BY SectionTypes, LenProperties
<1>3. size \in Seq(Nat) /\ Len(size) \in Nat /\ length \in Seq(Nat) /\ Len(length) \in Nat
  BY <1>1, EncodedTyped
<1>4. o + Len(bytes) - 1 <= Len(wasm) /\ \A x \in 1..Len(bytes) : wasm[o + x - 1] = bytes[x]
  OBVIOUS
<1>5. PICK e \in Nat, b \in Nat, l \in Nat, p \in Nat, w \in Nat :
        e = Len(size) /\ b = Len(body) /\ l = Len(length) /\ p = Len(payload) /\ w = Len(wasm)
  BY <1>1, <1>2, <1>3, LenProperties
<1>6. ReadLEB128(wasm, o + 1) = <<b, e>>
  <2>1. ASSUME NEW i \in 1..Len(Encoded(b))
        PROVE  (o + 1) + i - 1 <= Len(wasm) /\ wasm[(o + 1) + i - 1] = Encoded(b)[i]
    <3> HIDE DEF bytes, size, body
    <3>1. /\ 1 + i \in 1..(1 + e + b) /\ (o + 1) + i - 1 = o + (1 + i) - 1
          /\ (o + (1 + e + b) - 1 <= w => (o + 1) + i - 1 <= w)
      <4>1. i \in 1..e
        BY <1>5 DEF size
      <4>2. (o + 1) + i - 1 = o + (1 + i) - 1
        OBVIOUS
      <4>3. 1 + i \in 1..(1 + e + b)
        BY <4>1
      <4>4. o + (1 + i) - 1 <= o + (1 + e + b) - 1
        BY <4>1
      <4>5. \A u, v \in Int : u <= v /\ v <= w => u <= w
        OBVIOUS
      <4>6. o + (1 + i) - 1 \in Int /\ o + (1 + e + b) - 1 \in Int
        BY <4>1
      <4>7. o + (1 + e + b) - 1 <= w => o + (1 + i) - 1 <= w
        BY <4>4, <4>5, <4>6
      <4>8. QED
        BY <4>2, <4>3, <4>7
    <3>2. 1 + i \in 1..Len(bytes) /\ o + (1 + e + b) - 1 <= w
      BY <1>1, <1>4, <1>5, <3>1
    <3>3. wasm[o + (1 + i) - 1] = bytes[1 + i] /\ bytes[1 + i] = size[i]
      BY <1>1, <1>4, <1>5, <3>2 DEF size
    <3>4. QED
      BY <1>5, <3>1, <3>2, <3>3 DEF size
  <2>2. o + 1 \in Nat \ {0}
    OBVIOUS
  <2>3. ReadLEB128(wasm, o + 1) = <<b, Len(Encoded(b))>>
    BY <2>1, <2>2, ReadsEncoded
  <2>4. QED
    BY <1>5, <2>3
<1> HIDE DEF bytes, size, body
<1>7. SectionEnd(o + 1, <<b, e>>) = o + Len(bytes)
  <2>1. (o + 1) + e + b = o + (1 + e + b)
    OBVIOUS
  <2>2. SectionEnd(o + 1, <<b, e>>) = (o + 1) + e + b
    BY DEF SectionEnd
  <2>3. Len(bytes) = 1 + e + b
    BY <1>1, <1>5
  <2>4. QED
    BY <2>1, <2>2, <2>3
<1>8. wasm[o] = section.id
  <2>1. 1 \in 1..(1 + e + b) /\ o + 1 - 1 = o
    OBVIOUS
  <2>2. 1 \in 1..Len(bytes)
    BY <1>1, <1>5, <2>1
  <2>3. QED
    BY <1>1, <1>4, <2>1, <2>2
<1>9. CASE section.id # 0
  <2>1. ~IsSpec(section)
    BY <1>9 DEF IsSpec
  <2>2. SpecEntriesAt(wasm, o, ReadLEB128(wasm, o + 1)) = <<>>
    BY <1>8, <1>9 DEF SpecEntriesAt
  <2>3. QED
    BY <1>6, <1>7, <2>1, <2>2 DEF bytes
<1>10. CASE section.id = 0
  <2>1. /\ Len(body) = Len(length) + 1 + Len(payload)
        /\ \A x \in 1..Len(length) : body[x] = length[x]
        /\ body[Len(length) + 1] = section.name
        /\ \A x \in 1..Len(payload) : body[Len(length) + 1 + x] = payload[x]
    BY <1>10, BodyAs DEF body
  <2> DEFINE start == o + 1 + e
             name == o + 1 + e + l
  <2>2. b = l + 1 + p
    BY <1>5, <2>1
  <2> HIDE DEF length, payload
  <2>3. ASSUME NEW x \in 1..b PROVE start + x - 1 <= w /\ wasm[start + x - 1] = body[x] /\ start + x - 1 >= 1
    <3>1. /\ 1 + e + x \in 1..(1 + e + b) /\ o + (1 + e + x) - 1 = start + x - 1
          /\ start + x - 1 <= o + (1 + e + b) - 1 /\ start + x - 1 >= 1
      OBVIOUS
    <3>2. Len(bytes) = 1 + e + b /\ o + (1 + e + b) - 1 <= w
      BY <1>1, <1>4, <1>5
    <3>3. start + x - 1 <= w
      BY <3>1, <3>2
    <3>4. wasm[o + (1 + e + x) - 1] = bytes[1 + e + x]
      BY <1>4, <3>1, <3>2
    <3>5. bytes[1 + e + x] = body[x]
      BY <1>1, <1>5
    <3>6. QED
      BY <3>1, <3>3, <3>4, <3>5
  <2>4. ReadLEB128(wasm, start) = <<1, l>>
    <3>1. ASSUME NEW i \in 1..Len(Encoded(1))
          PROVE  start + i - 1 <= Len(wasm) /\ wasm[start + i - 1] = Encoded(1)[i]
      <4>1. i \in 1..b /\ i \in 1..l
        BY <1>5, <2>2 DEF length
      <4>2. start + i - 1 <= w /\ wasm[start + i - 1] = body[i]
        BY <2>3, <4>1
      <4>3. body[i] = length[i]
        BY <1>5, <2>1, <4>1
      <4>4. QED
        BY <1>5, <4>2, <4>3 DEF length
    <3>2. start \in Nat \ {0} /\ 1 \in Nat
      OBVIOUS
    <3>3. ReadLEB128(wasm, start) = <<1, Len(Encoded(1))>>
      BY <3>1, <3>2, ReadsEncoded
    <3>4. QED
      BY <1>5, <3>3 DEF length
  <2>5. ByteAt(wasm, name) = section.name
    <3>1. l + 1 \in 1..b /\ start + (l + 1) - 1 = name
      BY <2>2
    <3>2. name <= w /\ wasm[name] = body[l + 1] /\ name >= 1 /\ name \in Nat
      BY <2>3, <3>1
    <3>3. name \in DOMAIN wasm
      BY <1>5, <3>2
    <3>4. QED
      BY <1>5, <2>1, <3>2, <3>3 DEF ByteAt
  <2>6. EntriesFrom(wasm, name + 1, o + Len(bytes)) = section.entries
    <3>1. name + 1 \in Nat \ {0}
      OBVIOUS
    <3>2. o + Len(bytes) = (name + 1) + p
      <4>1. Len(bytes) = 1 + e + b
        BY <1>1, <1>5
      <4>2. o + (1 + e + b) = (name + 1) + p
        BY <2>2
      <4>3. QED
        BY <4>1, <4>2
    <3>3. (name + 1) + p - 1 <= w
      <4>1. o + Len(bytes) - 1 <= w
        BY <1>4, <1>5
      <4>2. QED
        BY <3>2, <4>1
    <3>4. ASSUME NEW x \in 1..p PROVE wasm[(name + 1) + x - 1] = payload[x]
      <4>1. l + 1 + x \in 1..b /\ start + (l + 1 + x) - 1 = (name + 1) + x - 1
        BY <2>2
      <4>2. wasm[start + (l + 1 + x) - 1] = body[l + 1 + x]
        BY <2>3, <4>1
      <4>3. body[l + 1 + x] = payload[x]
        BY <1>5, <2>1
      <4>4. QED
        BY <4>1, <4>2, <4>3
    <3>5. EntriesFrom(wasm, name + 1, (name + 1) + Len(Framed(section.entries))) = section.entries
      <4>1. /\ Len(Framed(section.entries)) \in Nat
            /\ (name + 1) + Len(Framed(section.entries)) - 1 <= Len(wasm)
            /\ \A x \in 1..Len(Framed(section.entries)) :
                 wasm[(name + 1) + x - 1] = Framed(section.entries)[x]
        BY <1>5, <3>3, <3>4 DEF payload
      <4> HIDE DEF name
      <4>2. QED
        BY <1>2, <3>1, <4>1, EntriesRead
    <3>6. QED
      BY <1>5, <3>2, <3>5 DEF payload
  <2> HIDE DEF start, name
  <2>7. SpecEntriesAt(wasm, o, <<b, e>>)
          = IF section.name = SpecName THEN EntriesFrom(wasm, name + 1, o + Len(bytes)) ELSE <<>>
    <3>1. o + 1 + <<b, e>>[2] = start /\ start + <<1, l>>[2] = name /\ name + <<1, l>>[1] = name + 1
      BY DEF start, name
    <3>2. wasm[o] = 0
      BY <1>8, <1>10
    <3>3. SpecEntriesAt(wasm, o, <<b, e>>)
            = IF wasm[o] = 0 /\ ByteAt(wasm, start + ReadLEB128(wasm, start)[2]) = SpecName
              THEN EntriesFrom(wasm, start + ReadLEB128(wasm, start)[2] + ReadLEB128(wasm, start)[1],
                               SectionEnd(o + 1, <<b, e>>))
              ELSE <<>>
      BY <3>1 DEF SpecEntriesAt
    <3>4. SpecEntriesAt(wasm, o, <<b, e>>)
            = IF section.name = SpecName
              THEN EntriesFrom(wasm, name + 1, SectionEnd(o + 1, <<b, e>>)) ELSE <<>>
      BY <2>4, <2>5, <3>1, <3>2, <3>3
    <3>5. QED
      BY <1>7, <3>4
  <2>8. IsSpec(section) <=> section.name = SpecName
    BY <1>10 DEF IsSpec
  <2>9. QED
    BY <1>6, <1>7, <2>6, <2>7, <2>8 DEF bytes
<1>11. QED
  BY <1>9, <1>10
\* A file joins its header and the bytes of its sections.
LEMMA FileAs ==
  ASSUME NEW sections \in Seq(Sections)
  PROVE  \E f \in [0..Len(sections) -> Seq(Nat)], parts \in [1..Len(sections) -> Seq(Nat)] :
           /\ JoinsTo(Len(sections), f, <<0>>, parts)
           /\ FileOf(sections) = f[Len(sections)]
           /\ \A i \in 1..Len(sections) : parts[i] = SectionBytes(sections[i])
<1> DEFINE N == Len(sections)
           parts == [i \in 1..N |-> SectionBytes(sections[i])]
           Is(g) == g = [i \in 0..N |-> IF i = 0 THEN <<0>> ELSE g[i - 1] \o SectionBytes(sections[i])]
           file == CHOOSE g_1 : Is(g_1)
<1>1. N \in Nat /\ \A i \in 1..N : sections[i] \in Sections
  BY LenProperties, ElementOfSeq
<1>2. FileOf(sections) = file[N]
  BY DEF FileOf
<1>3. \A i \in 1..N : SectionBytes(sections[i]) \in Seq(Nat)
  <2> TAKE i \in 1..N
  <2>1. sections[i] \in Sections
    BY <1>1
  <2>2. QED
    BY <2>1, SectionAs
<1>4. parts \in [1..N -> Seq(Nat)] /\ \A i \in 1..N : parts[i] = SectionBytes(sections[i])
  BY <1>3
<1>5. <<0>> \in Seq(Nat)
  OBVIOUS
<1> HIDE DEF parts
<1>6. PICK f \in [0..N -> Seq(Nat)] : JoinsTo(N, f, <<0>>, parts)
  BY <1>1, <1>4, <1>5, PartsJoined
<1>7. Is(f)
  <2>1. \A i \in 0..N : f[i] = IF i = 0 THEN <<0>> ELSE f[i - 1] \o SectionBytes(sections[i])
    <3> TAKE i \in 0..N
    <3>1. CASE i = 0
      BY <1>6, <3>1 DEF JoinsTo
    <3>2. CASE i # 0
      <4>1. i \in 1..N
        BY <3>2
      <4>2. QED
        BY <1>4, <1>6, <3>2, <4>1 DEF JoinsTo
    <3>3. QED
      BY <3>1, <3>2
  <2>2. f = [i \in 0..N |-> f[i]]
    BY <1>6
  <2>3. QED
    BY <2>1, <2>2
<1>8. Is(file)
  <2> HIDE DEF Is
  <2>1. QED
    BY <1>7
<1> HIDE DEF file
<1>9. JoinsTo(N, file, <<0>>, parts) /\ file = [i \in 0..N |-> file[i]]
  <2>1. file[0] = <<0>>
    BY <1>1, <1>8
  <2>2. ASSUME NEW i \in 1..N PROVE file[i] = file[i - 1] \o parts[i]
    <3>1. i \in 0..N /\ i # 0
      OBVIOUS
    <3>2. file[i] = file[i - 1] \o SectionBytes(sections[i])
      BY <1>8, <3>1
    <3>3. QED
      BY <1>4, <3>2
  <2>3. QED
    BY <1>8, <2>1, <2>2 DEF JoinsTo
<1>10. file \in [0..N -> Seq(Nat)]
  BY <1>1, <1>4, <1>5, <1>9, JoinedTyped
<1>11. QED
  BY <1>2, <1>4, <1>9, <1>10

\* The entries of the sections named for them
LEMMA SpecEntriesAs ==
  ASSUME NEW sections \in Seq(Sections)
  PROVE  \E spec \in [0..Len(sections) -> Seq(Nat)] :
           /\ SpecEntries(sections) = spec[Len(sections)] /\ spec[0] = <<>>
           /\ \A i \in 1..Len(sections) : spec[i] = spec[i - 1] \o
                (IF IsSpec(sections[i]) THEN sections[i].entries ELSE <<>>)
<1> DEFINE N == Len(sections)
           Part(i) == IF IsSpec(sections[i]) THEN sections[i].entries ELSE <<>>
           parts == [i \in 1..N |-> Part(i)]
           Is(g) == g = [i \in 0..N |-> IF i = 0 THEN <<>>
                           ELSE g[i - 1] \o (IF IsSpec(sections[i]) THEN sections[i].entries ELSE <<>>)]
           spec == CHOOSE g_1 : Is(g_1)
<1>1. N \in Nat /\ \A i \in 1..N : sections[i] \in Sections
  BY LenProperties, ElementOfSeq
<1>2. SpecEntries(sections) = spec[N]
  BY DEF SpecEntries
<1>3. \A i \in 1..N : Part(i) \in Seq(Nat)
  <2> TAKE i \in 1..N
  <2>1. sections[i] \in Sections
    BY <1>1
  <2>2. sections[i].entries \in Seq(Nat) /\ <<>> \in Seq(Nat)
    BY <2>1, SectionTypes
  <2>3. QED
    BY <2>2
<1> HIDE DEF Part
<1>4. parts \in [1..N -> Seq(Nat)] /\ \A i \in 1..N : parts[i] = Part(i)
  BY <1>3
<1>5. <<>> \in Seq(Nat)
  OBVIOUS
<1> HIDE DEF parts
<1>6. PICK f \in [0..N -> Seq(Nat)] : JoinsTo(N, f, <<>>, parts)
  BY <1>1, <1>4, <1>5, PartsJoined
<1>7. Is(f)
  <2>1. \A i \in 0..N : f[i] = IF i = 0 THEN <<>> ELSE f[i - 1] \o Part(i)
    <3> TAKE i \in 0..N
    <3>1. CASE i = 0
      BY <1>6, <3>1 DEF JoinsTo
    <3>2. CASE i # 0
      <4>1. i \in 1..N
        BY <3>2
      <4>2. QED
        BY <1>4, <1>6, <3>2, <4>1 DEF JoinsTo
    <3>3. QED
      BY <3>1, <3>2
  <2>2. f = [i \in 0..N |-> f[i]]
    BY <1>6
  <2>3. QED
    BY <2>1, <2>2 DEF Part
<1>8. Is(spec)
  <2> HIDE DEF Is
  <2>1. QED
    BY <1>7
<1> HIDE DEF spec
<1>9. spec[0] = <<>>
  BY <1>1, <1>8
<1>10. ASSUME NEW i \in 1..N PROVE spec[i] = spec[i - 1] \o Part(i)
  <2>1. i \in 0..N /\ i # 0
    OBVIOUS
  <2>2. QED
    BY <1>8, <2>1 DEF Part
<1>11. JoinsTo(N, spec, <<>>, parts) /\ spec = [i \in 0..N |-> spec[i]]
  <2>1. \A i \in 1..N : spec[i] = spec[i - 1] \o parts[i]
    BY <1>4, <1>10
  <2>2. QED
    BY <1>8, <1>9, <2>1 DEF JoinsTo
<1>12. spec \in [0..N -> Seq(Nat)]
  BY <1>1, <1>4, <1>5, <1>11, JoinedTyped
<1>13. QED
  BY <1>2, <1>9, <1>10, <1>12 DEF Part

\* What is read from a file is what its sections that are named for it hold.
LEMMA SpecRead ==
  ASSUME NEW sections \in Seq(Sections)
  PROVE  ReadSpecSection(FileOf(sections)) = SpecEntries(sections)
<1> DEFINE N == Len(sections)
           wasm == FileOf(sections)
<1>1. N \in Nat /\ \A i \in 1..N : sections[i] \in Sections
  BY LenProperties, ElementOfSeq
<1>2. PICK f \in [0..N -> Seq(Nat)], parts \in [1..N -> Seq(Nat)] :
        /\ JoinsTo(N, f, <<0>>, parts)
        /\ wasm = f[N]
        /\ \A i \in 1..N : parts[i] = SectionBytes(sections[i])
  BY FileAs
<1>3. PICK spec \in [0..N -> Seq(Nat)] :
        /\ SpecEntries(sections) = spec[N] /\ spec[0] = <<>>
        /\ \A i \in 1..N : spec[i] = spec[i - 1] \o
             (IF IsSpec(sections[i]) THEN sections[i].entries ELSE <<>>)
  BY SpecEntriesAs
<1>4. PartsIn(N, f, parts)
  <2>1. <<0>> \in Seq(Nat) /\ N \in Nat
    BY <1>1
  <2>2. QED
    BY <1>2, <2>1, PlacesOfParts
<1> HIDE DEF wasm
<1>5. wasm \in Seq(Nat) /\ Len(wasm) \in Nat
  <2>1. N \in 0..N
    BY <1>1
  <2>2. wasm \in Seq(Nat)
    BY <1>2, <2>1
  <2>3. QED
    BY <2>2, LenProperties
<1>6. \A i \in 0..N : Len(f[i]) \in Nat /\ Len(f[i]) <= Len(wasm)
  <2> TAKE i \in 0..N
  <2>1. f[i] \in Seq(Nat)
    BY <1>2
  <2>2. QED
    BY <1>2, <1>4, <2>1, LenProperties DEF PartsIn
<1>7. Len(f[0]) = 1
  <2>1. f[0] = <<0>>
    BY <1>2 DEF JoinsTo
  <2>2. QED
    BY <2>1
<1>8. ASSUME NEW i \in 1..N
      PROVE  /\ Len(parts[i]) \in Nat /\ Len(parts[i]) >= 1
             /\ Len(f[i]) = Len(f[i - 1]) + Len(parts[i])
             /\ \A x \in 1..Len(parts[i]) : wasm[Len(f[i - 1]) + x] = parts[i][x]
  <2>1. Len(parts[i]) \in Nat /\ Len(parts[i]) >= 1
    <3>1. sections[i] \in Sections /\ parts[i] = SectionBytes(sections[i])
      BY <1>1, <1>2
    <3>2. PICK e \in Nat, b \in Nat : Len(parts[i]) = 1 + e + b
      <4>1. PICK section \in Sections : section = sections[i]
        BY <3>1
      <4>2. Len(BodyOf(section)) \in Nat
        BY SectionAs
      <4>3. Len(SectionBytes(section)) = 1 + Len(Encoded(Len(BodyOf(section)))) + Len(BodyOf(section))
        BY SectionAs
      <4>4. Len(Encoded(Len(BodyOf(section)))) \in Nat
        BY <4>2, EncodedTyped
      <4>5. QED
        BY <3>1, <4>1, <4>2, <4>3, <4>4
    <3>3. QED
      BY <3>2
  <2>2. /\ Len(f[i]) = Len(f[i - 1]) + Len(parts[i])
        /\ \A x \in 1..Len(parts[i]) : f[N][Len(f[i - 1]) + x] = parts[i][x]
    BY <1>4 DEF PartsIn
  <2>3. QED
    BY <1>2, <2>1, <2>2
<1>9. N <= Len(wasm)
  <2>1. \A i \in 1..N : Len(parts[i]) >= 1
    BY <1>8
  <2>2. QED
    BY <1>2, <1>4, <2>1 DEF PartsIn
<1>10. Len(f[N]) = Len(wasm) /\ N \in 0..N
  BY <1>1, <1>2
<1> DEFINE Step(t) == LET size == ReadLEB128(wasm, t.offset + 1)
                      IN  IF t.offset <= Len(wasm)
                          THEN [offset |-> SectionEnd(t.offset + 1, size),
                                entries |-> t.entries \o SpecEntriesAt(wasm, t.offset, size)]
                          ELSE t
           At(k) == IF k <= N THEN [offset |-> Len(f[k]) + 1, entries |-> spec[k]]
                    ELSE [offset |-> Len(wasm) + 1, entries |-> spec[N]]
           Is(g) == g = [k \in Nat |->
                      IF k = 0 THEN [offset |-> 2, entries |-> <<>>]
                      ELSE LET t == g[k - 1]
                               size == ReadLEB128(wasm, t.offset + 1)
                           IN  IF t.offset <= Len(wasm)
                               THEN [offset |-> SectionEnd(t.offset + 1, size),
                                     entries |-> t.entries \o SpecEntriesAt(wasm, t.offset, size)]
                               ELSE t]
           turn == CHOOSE g_1 : Is(g_1)
<1>11. At(0) = [offset |-> 2, entries |-> <<>>]
  <2>1. 0 <= N /\ Len(f[0]) + 1 = 2
    BY <1>1, <1>7
  <2>2. QED
    BY <1>3, <2>1
<1>12. ASSUME NEW k \in Nat PROVE At(k + 1) = Step(At(k))
  <2>1. CASE k + 1 <= N
    <3>1. k + 1 \in 1..N /\ (k + 1) - 1 = k /\ k \in 0..N /\ k + 1 \in 0..N /\ k <= N
      BY <1>1, <2>1
    <3>2. PICK p \in Nat : p = Len(f[k])
      BY <1>6, <3>1
    <3>3. PICK section \in Sections : section = sections[k + 1] /\ parts[k + 1] = SectionBytes(section)
      BY <1>1, <1>2, <3>1
    <3>4. PICK q \in Nat : q = Len(SectionBytes(section)) /\ q >= 1
      BY <1>8, <3>1, <3>3
    <3>5. Len(f[k + 1]) = p + q /\ \A x \in 1..q : wasm[p + x] = SectionBytes(section)[x]
      <4>1. /\ Len(f[k + 1]) = Len(f[(k + 1) - 1]) + Len(parts[k + 1])
            /\ \A x \in 1..Len(parts[k + 1]) : wasm[Len(f[(k + 1) - 1]) + x] = parts[k + 1][x]
        BY <1>8, <3>1
      <4>2. QED
        BY <3>1, <3>2, <3>3, <3>4, <4>1
    <3>6. p + q <= Len(wasm)
      BY <1>6, <3>1, <3>5
    <3>7. (p + 1) + q - 1 <= Len(wasm) /\ p + 1 <= Len(wasm)
      BY <1>5, <3>4, <3>6
    <3>8. \A x \in 1..q : wasm[(p + 1) + x - 1] = SectionBytes(section)[x]
      <4> TAKE x \in 1..q
      <4>1. (p + 1) + x - 1 = p + x
        OBVIOUS
      <4>2. QED
        BY <3>5, <4>1
    <3>9. /\ SectionEnd((p + 1) + 1, ReadLEB128(wasm, (p + 1) + 1)) = (p + 1) + q
          /\ SpecEntriesAt(wasm, p + 1, ReadLEB128(wasm, (p + 1) + 1))
               = IF IsSpec(section) THEN section.entries ELSE <<>>
      <4>1. p + 1 \in Nat \ {0}
        OBVIOUS
      <4>2. QED
        BY <1>5, <3>4, <3>7, <3>8, <4>1, SectionRead
    <3>10. At(k) = [offset |-> p + 1, entries |-> spec[k]]
      BY <3>1, <3>2
    <3>11. At(k + 1) = [offset |-> (p + q) + 1, entries |-> spec[k + 1]]
      BY <2>1, <3>5
    <3>12. spec[k + 1] = spec[k] \o (IF IsSpec(section) THEN section.entries ELSE <<>>)
      BY <1>3, <3>1, <3>3
    <3> HIDE DEF At
    <3>13. Step(At(k)) = [offset |-> SectionEnd((p + 1) + 1, ReadLEB128(wasm, (p + 1) + 1)),
                          entries |-> spec[k] \o SpecEntriesAt(wasm, p + 1, ReadLEB128(wasm, (p + 1) + 1))]
      BY <3>7, <3>10
    <3>14. (p + 1) + q = (p + q) + 1
      OBVIOUS
    <3> HIDE DEF Step
    <3>15. QED
      BY <3>9, <3>11, <3>12, <3>13, <3>14
  <2>2. CASE ~(k + 1 <= N)
    <3>1. At(k) = [offset |-> Len(wasm) + 1, entries |-> spec[N]]
      <4>1. CASE k <= N
        <5>1. k = N
          BY <1>1, <2>2, <4>1
        <5>2. QED
          BY <1>10, <4>1, <5>1
      <4>2. CASE ~(k <= N)
        BY <4>2
      <4>3. QED
        BY <4>1, <4>2
    <3>2. At(k + 1) = [offset |-> Len(wasm) + 1, entries |-> spec[N]]
      BY <2>2
    <3>3. ~(Len(wasm) + 1 <= Len(wasm))
      BY <1>5
    <3> HIDE DEF At
    <3>4. Step(At(k)) = At(k)
      BY <3>1, <3>3
    <3>5. QED
      BY <3>1, <3>2, <3>4
  <2>3. QED
    BY <2>1, <2>2
<1> DEFINE F == [k \in Nat |-> At(k)]
<1>13. Is(F)
  <2> HIDE DEF At
  <2>1. \A k \in Nat : At(k) = IF k = 0 THEN [offset |-> 2, entries |-> <<>>] ELSE Step(At(k - 1))
    <3> TAKE k \in Nat
    <3>1. CASE k = 0
      BY <1>11, <3>1
    <3>2. CASE k # 0
      <4>1. k - 1 \in Nat /\ (k - 1) + 1 = k
        BY <3>2
      <4> HIDE DEF Step
      <4>2. QED
        BY <1>12, <3>2, <4>1
    <3>3. QED
      BY <3>1, <3>2
  <2>2. \A k \in Nat : k # 0 => F[k - 1] = At(k - 1)
    OBVIOUS
  <2>3. QED
    BY <2>1, <2>2
<1>14. Is(turn)
  <2> HIDE DEF Is
  <2>1. QED
    BY <1>13
<1>15. ReadSpecSection(wasm) = turn[Len(wasm)].entries
  BY DEF ReadSpecSection
<1> HIDE DEF turn
<1>16. turn[0] = [offset |-> 2, entries |-> <<>>] /\ \A k \in Nat : turn[k + 1] = Step(turn[k])
  <2>1. turn[0] = [offset |-> 2, entries |-> <<>>]
    BY <1>14
  <2>2. ASSUME NEW k \in Nat PROVE turn[k + 1] = Step(turn[k])
    <3>1. k + 1 \in Nat /\ k + 1 # 0 /\ (k + 1) - 1 = k
      OBVIOUS
    <3>2. turn[k + 1] = Step(turn[(k + 1) - 1])
      BY <1>14, <3>1
    <3> HIDE DEF Step
    <3>3. QED
      BY <3>1, <3>2
  <2>3. QED
    BY <2>1, <2>2
<1> HIDE DEF At, Step, Is
<1> DEFINE T == {k \in Nat : turn[k] = At(k)}
<1>17. Nat \subseteq T
  <2>1. 0 \in T
    BY <1>11, <1>16
  <2>2. ASSUME NEW k \in Nat, k \in T PROVE k + 1 \in T
    <3>1. turn[k] = At(k) /\ k + 1 \in Nat
      BY <2>2
    <3>2. At(k + 1) = Step(At(k))
      BY <1>12
    <3>3. turn[k + 1] = Step(turn[k])
      BY <1>16
    <3>4. turn[k + 1] = At(k + 1)
      BY <3>1, <3>2, <3>3
    <3>5. QED
      BY <3>1, <3>4
  <2> HIDE DEF T
  <2>3. QED
    BY <2>1, <2>2, UpFromZero
<1>18. At(Len(wasm)).entries = spec[N]
  <2>1. CASE Len(wasm) <= N
    <3>1. Len(wasm) = N
      BY <1>1, <1>5, <1>9, <2>1
    <3>2. QED
      BY <2>1, <3>1 DEF At
  <2>2. CASE ~(Len(wasm) <= N)
    BY <2>2 DEF At
  <2>3. QED
    BY <2>1, <2>2
<1>19. ReadSpecSection(wasm) = SpecEntries(sections)
  BY <1>3, <1>5, <1>15, <1>17, <1>18
<1>20. QED
  BY <1>19 DEF wasm
-----------------------------------------------------------------------------
(* Signers of a simulation *)

\* What is appended once does not repeat.
LEMMA AppendedOnce ==
  \A S : \A s \in Seq(S), e \in S :
    /\ Append(s, e) \in Seq(S) /\ Range(Append(s, e)) = Range(s) \cup {e}
    /\ IsInjective(s) /\ e \notin Range(s) => IsInjective(Append(s, e))
<1> SUFFICES ASSUME NEW S, NEW s \in Seq(S), NEW e \in S
             PROVE  /\ Append(s, e) \in Seq(S) /\ Range(Append(s, e)) = Range(s) \cup {e}
                    /\ IsInjective(s) /\ e \notin Range(s) => IsInjective(Append(s, e))
  OBVIOUS
<1> DEFINE t == Append(s, e)
           n == Len(s)
<1>1. n \in Nat /\ DOMAIN s = 1..n
  BY LenProperties
<1>2. t \in Seq(S) /\ DOMAIN t = 1..(n + 1) /\ t[n + 1] = e /\ \A i \in 1..n : t[i] = s[i]
  OBVIOUS
<1> HIDE DEF t, n
<1>3. \A i \in 1..(n + 1) : i \in 1..n \/ i = n + 1
  BY <1>1
<1>4. n + 1 \in 1..(n + 1) /\ \A i \in 1..n : i \in 1..(n + 1)
  BY <1>1
<1>5. Range(t) = Range(s) \cup {e}
  <2>1. \A x \in Range(t) : x \in Range(s) \cup {e}
    BY <1>1, <1>2, <1>3 DEF Range
  <2>2. \A x \in Range(s) \cup {e} : x \in Range(t)
    BY <1>1, <1>2, <1>4 DEF Range
  <2>3. QED
    BY <2>1, <2>2
<1>6. ASSUME IsInjective(s), e \notin Range(s) PROVE IsInjective(t)
  <2>1. \A i \in 1..n : s[i] # e
    BY <1>1, <1>6 DEF Range
  <2>2. \A i, j \in 1..n : s[i] = s[j] => i = j
    BY <1>1, <1>6 DEF IsInjective
  <2>3. \A i, j \in 1..(n + 1) : t[i] = t[j] => i = j
    BY <1>2, <1>3, <2>1, <2>2
  <2>4. QED
    BY <1>2, <2>3 DEF IsInjective
<1>7. QED
  BY <1>2, <1>5, <1>6 DEF t

\* The signers are the accounts some entry names, each once.
LEMMA SignersFound ==
  ASSUME NEW simulation \in Authorizations
  PROVE  /\ IsInjective(RequiredSigners(simulation))
         /\ Range(RequiredSigners(simulation)) = {item.signer : item \in
              {item \in Range(simulation.auth) \cup Range(simulation.results) : Account(item)}}
<1> DEFINE items == AllItems(simulation)
           N == Len(items)
           Next(i, x) == IF Account(items[i]) /\ items[i].signer \notin Range(x)
                         THEN Append(x, items[i].signer) ELSE x
           Is(g) == g = [i \in 0..N |->
                      IF i = 0 THEN <<>>
                      ELSE IF Account(items[i]) /\ items[i].signer \notin Range(g[i - 1])
                           THEN Append(g[i - 1], items[i].signer) ELSE g[i - 1]]
           signers == CHOOSE g_1 : Is(g_1)
           step == [i \in 1..N |-> [x \in Seq(Signers) |-> Next(i, x)]]
<1>1. simulation.auth \in Seq(AuthItems) /\ simulation.results \in Seq(AuthItems)
  <2>1. \A n \in Nat : \A s \in SeqOf(AuthItems, n) : s \in Seq(AuthItems)
    <3> TAKE n \in Nat
    <3> TAKE s \in SeqOf(AuthItems, n)
    <3>1. QED
      BY SeqOfSequences
  <2>2. 1 \in Nat /\ 2 \in Nat /\ <<>> \in Seq(AuthItems)
    OBVIOUS
  <2>3. CASE simulation \in [auth : SeqOf(AuthItems, 1), results : SeqOf(AuthItems, 1)]
    <3>1. simulation.auth \in SeqOf(AuthItems, 1) /\ simulation.results \in SeqOf(AuthItems, 1)
      BY <2>3
    <3>2. QED
      BY <2>1, <2>2, <3>1
  <2>4. CASE simulation \in [auth : {<<>>}, results : SeqOf(AuthItems, 2)]
    <3>1. simulation.auth = <<>> /\ simulation.results \in SeqOf(AuthItems, 2)
      BY <2>4
    <3>2. QED
      BY <2>1, <2>2, <3>1
  <2>5. QED
    BY <2>3, <2>4 DEF Authorizations
<1>16. PICK auth \in Seq(AuthItems), results \in Seq(AuthItems) :
         auth = simulation.auth /\ results = simulation.results
  BY <1>1
<1>17. items = auth \o results
  BY <1>16 DEF AllItems
<1> HIDE DEF items
<1>18. /\ auth \o results \in Seq(AuthItems) /\ Len(auth \o results) = Len(auth) + Len(results)
       /\ \A i \in 1..(Len(auth) + Len(results)) :
            (auth \o results)[i] = IF i <= Len(auth) THEN auth[i] ELSE results[i - Len(auth)]
  BY ConcatProperties
<1>2. items \in Seq(AuthItems) /\ N \in Nat
  <2>1. items \in Seq(AuthItems)
    BY <1>17, <1>18
  <2>2. QED
    BY <2>1, LenProperties
<1>3. RequiredSigners(simulation) = signers[N]
  BY DEF RequiredSigners, items
<1>4. \A i \in 1..N : items[i].signer \in Signers
  <2> TAKE i \in 1..N
  <2>1. items[i] \in AuthItems
    BY <1>2, ElementOfSeq
  <2>2. QED
    BY <2>1 DEF AuthItems, Item
<1>5. step \in [1..N -> [Seq(Signers) -> Seq(Signers)]] /\ \A i \in 1..N, x \in Seq(Signers) : step[i][x] = Next(i, x)
  <2>1. \A i \in 1..N, x \in Seq(Signers) : Next(i, x) \in Seq(Signers)
    BY <1>4
  <2> HIDE DEF Next
  <2>2. QED
    BY <2>1
<1> HIDE DEF step
<1>6. PICK f \in [0..N -> Seq(Signers)] : IsIterationTo(N, f, <<>>, step)
  <2>1. N \in Nat /\ <<>> \in Seq(Signers)
    BY <1>2
  <2>2. QED
    BY <1>5, <2>1, IterationTo
<1>7. Is(f)
  <2>1. \A i \in 0..N : f[i] = IF i = 0 THEN <<>> ELSE Next(i, f[i - 1])
    <3> TAKE i \in 0..N
    <3> HIDE DEF Next
    <3>1. CASE i = 0
      BY <1>6, <3>1 DEF IsIterationTo
    <3>2. CASE i # 0
      <4>1. i \in 1..N /\ i - 1 \in 0..N
        BY <1>2, <3>2
      <4>2. f[i] = step[i][f[i - 1]] /\ f[i - 1] \in Seq(Signers)
        BY <1>6, <4>1 DEF IsIterationTo
      <4>3. QED
        BY <1>5, <3>2, <4>1, <4>2
    <3>3. QED
      BY <3>1, <3>2
  <2>2. f = [i \in 0..N |-> f[i]]
    BY <1>6
  <2>3. QED
    BY <2>1, <2>2
<1>8. Is(signers)
  <2> HIDE DEF Is
  <2>1. QED
    BY <1>7
<1> HIDE DEF signers
<1>9. signers[0] = <<>> /\ \A i \in 1..N : signers[i] = Next(i, signers[i - 1])
  <2>1. signers[0] = <<>>
    BY <1>2, <1>8
  <2>2. ASSUME NEW i \in 1..N PROVE signers[i] = Next(i, signers[i - 1])
    <3>1. i \in 0..N /\ i # 0
      OBVIOUS
    <3>2. QED
      BY <1>8, <3>1
  <2>3. QED
    BY <2>1, <2>2
<1> HIDE DEF Is
<1> DEFINE Named(i) == {items[j].signer : j \in {j \in 1..i : Account(items[j])}}
           Holds(i) == /\ signers[i] \in Seq(Signers) /\ IsInjective(signers[i])
                       /\ Range(signers[i]) = Named(i)
           T == {i \in Nat : i <= N => Holds(i)}
<1>10. Holds(0)
  <2>1. <<>> \in Seq(Signers) /\ DOMAIN <<>> = {}
    OBVIOUS
  <2>2. IsInjective(<<>>) /\ Range(<<>>) = {}
    BY <2>1 DEF IsInjective, Range
  <2>3. 1..0 = {}
    OBVIOUS
  <2>4. Named(0) = {}
    BY <2>3
  <2>5. QED
    BY <1>9, <2>1, <2>2, <2>4
<1>11. ASSUME NEW i \in Nat, i + 1 <= N, Holds(i) PROVE Holds(i + 1)
  <2>1. i + 1 \in 1..N /\ (i + 1) - 1 = i
    BY <1>11
  <2>2. \A j : j \in 1..(i + 1) <=> j \in 1..i \/ j = i + 1
    OBVIOUS
  <2>3. Named(i + 1) = Named(i) \cup (IF Account(items[i + 1]) THEN {items[i + 1].signer} ELSE {})
    <3>1. CASE Account(items[i + 1])
      BY <2>2, <3>1
    <3>2. CASE ~Account(items[i + 1])
      BY <2>2, <3>2
    <3>3. QED
      BY <3>1, <3>2
  <2> HIDE DEF Named
  <2>4. signers[i + 1] = Next(i + 1, signers[i])
    BY <1>9, <2>1
  <2>5. PICK s \in Seq(Signers), e \in Signers : s = signers[i] /\ e = items[i + 1].signer
    BY <1>4, <1>11, <2>1
  <2>6. IsInjective(s) /\ Range(s) = Named(i)
    BY <1>11, <2>5
  <2>7. /\ Append(s, e) \in Seq(Signers) /\ Range(Append(s, e)) = Range(s) \cup {e}
        /\ IsInjective(s) /\ e \notin Range(s) => IsInjective(Append(s, e))
    BY AppendedOnce
  <2>8. CASE Account(items[i + 1]) /\ e \notin Range(s)
    <3>1. signers[i + 1] = Append(s, e)
      BY <2>4, <2>5, <2>8
    <3>2. QED
      BY <2>3, <2>5, <2>6, <2>7, <2>8, <3>1
  <2>9. CASE ~(Account(items[i + 1]) /\ e \notin Range(s))
    <3>1. signers[i + 1] = s
      BY <2>4, <2>5, <2>9
    <3>2. Named(i + 1) = Named(i)
      BY <2>3, <2>5, <2>6, <2>9
    <3>3. QED
      BY <2>6, <3>1, <3>2
  <2>10. QED
    BY <2>8, <2>9
<1>12. Holds(N)
  <2> HIDE DEF Holds
  <2>1. 0 \in T
    BY <1>10
  <2>2. ASSUME NEW i \in Nat, i \in T PROVE i + 1 \in T
    <3>1. i <= N => Holds(i)
      BY <2>2
    <3>2. i + 1 <= N => i <= N
      BY <1>2
    <3>3. i + 1 <= N => Holds(i + 1)
      BY <1>11, <3>1, <3>2
    <3>4. QED
      BY <3>3
  <2> HIDE DEF T
  <2>3. N \in T
    BY <1>2, <2>1, <2>2, UpFromZero
  <2>4. QED
    BY <1>2, <2>3 DEF T
<1>13. Range(simulation.auth) \cup Range(simulation.results) = {items[j] : j \in 1..N}
  <2>1. PICK a \in Nat, r \in Nat : /\ a = Len(auth) /\ r = Len(results)
                                    /\ DOMAIN auth = 1..a /\ DOMAIN results = 1..r
    BY LenProperties
  <2>2. N = a + r /\ \A i \in 1..(a + r) : items[i] = IF i <= a THEN auth[i] ELSE results[i - a]
    BY <1>17, <1>18, <2>1
  <2>3. ASSUME NEW x \in Range(auth) PROVE x \in {items[j] : j \in 1..N}
    <3>1. PICK j \in 1..a : x = auth[j]
      BY <2>1 DEF Range
    <3>2. j \in 1..(a + r) /\ j <= a
      OBVIOUS
    <3>3. QED
      BY <2>2, <3>1, <3>2
  <2>4. ASSUME NEW x \in Range(results) PROVE x \in {items[j] : j \in 1..N}
    <3>1. PICK j \in 1..r : x = results[j]
      BY <2>1 DEF Range
    <3>2. a + j \in 1..(a + r) /\ ~(a + j <= a) /\ (a + j) - a = j
      OBVIOUS
    <3>3. items[a + j] = x
      BY <2>2, <3>1, <3>2
    <3>4. QED
      BY <2>2, <3>2, <3>3
  <2>5. ASSUME NEW j \in 1..N PROVE items[j] \in Range(auth) \cup Range(results)
    <3>1. j \in 1..(a + r)
      BY <2>2
    <3>2. CASE j <= a
      <4>1. j \in 1..a /\ items[j] = auth[j]
        BY <2>2, <3>1, <3>2
      <4>2. QED
        BY <2>1, <4>1 DEF Range
    <3>3. CASE ~(j <= a)
      <4>1. j - a \in 1..r /\ items[j] = results[j - a]
        BY <2>2, <3>1, <3>3
      <4>2. QED
        BY <2>1, <4>1 DEF Range
    <3>4. QED
      BY <3>2, <3>3
  <2>6. Range(auth) \cup Range(results) = {items[j] : j \in 1..N}
    BY <2>3, <2>4, <2>5
  <2>7. QED
    BY <1>16, <2>6
<1>14. Named(N) = {item.signer : item \in
                    {item \in Range(simulation.auth) \cup Range(simulation.results) : Account(item)}}
  <2>1. {item \in {items[j] : j \in 1..N} : Account(item)} = {items[j] : j \in {j \in 1..N : Account(items[j])}}
    OBVIOUS
  <2>2. QED
    BY <1>13, <2>1
<1>15. QED
  BY <1>3, <1>12, <1>14

-----------------------------------------------------------------------------
(* The invariant *)

ConversionIInv == ConversionTypeOK /\ ConversionsAreExact

LEMMA ConversionStarts == ConversionInit => ConversionIInv
BY DEF ConversionInit, ConversionIInv, ConversionTypeOK, ConversionsAreExact

LEMMA ConversionKeeps == ConversionIInv /\ [ConversionNext]_conversion => ConversionIInv'
<1> SUFFICES ASSUME ConversionIInv, [ConversionNext]_conversion PROVE ConversionIInv'
  OBVIOUS
<1> USE DEF Converts
<1>1. CASE conversion' = conversion
  BY <1>1 DEF ConversionIInv, ConversionTypeOK, ConversionsAreExact
<1>2. ASSUME NEW type \in IntegerTypes, NEW value \in Values(type), CallDecode(value, type)
      PROVE  ConversionIInv'
  <2>1. conversion' = <<"decodeScVal", [value |-> value, type |-> type],
                        DecodeInteger(LimbsOf(value, type), type)>>
    BY <1>2 DEF CallDecode
  <2>2. DecodeInteger(LimbsOf(value, type), type) = value
    BY IntegersDecoded
  <2>3. conversion' = <<"decodeScVal", [value |-> value, type |-> type], value>>
    BY <2>1, <2>2
  <2>4. QED
    BY <2>3 DEF ConversionIInv, ConversionTypeOK, ConversionsAreExact
<1>3. ASSUME NEW sections \in SeqOf(Sections, 2), CallReadSpec(sections) PROVE ConversionIInv'
  <2>1. sections \in Seq(Sections)
    <3>1. 2 \in Nat
      OBVIOUS
    <3>2. QED
      BY <3>1, SeqOfSequences
  <2>2. ReadSpecSection(FileOf(sections)) = SpecEntries(sections)
    BY <2>1, SpecRead
  <2>3. conversion' = <<"readSpecSection", sections, SpecEntries(sections)>>
    BY <1>3, <2>2 DEF CallReadSpec
  <2>4. QED
    BY <2>3 DEF ConversionIInv, ConversionTypeOK, ConversionsAreExact
<1>4. ASSUME NEW simulation \in Authorizations, CallSigners(simulation) PROVE ConversionIInv'
  <2>1. conversion' = <<"getRequiredSigners", simulation, RequiredSigners(simulation)>>
    BY <1>4 DEF CallSigners
  <2>2. /\ IsInjective(RequiredSigners(simulation))
        /\ Range(RequiredSigners(simulation)) = {item.signer : item \in
             {item \in Range(simulation.auth) \cup Range(simulation.results) : Account(item)}}
    BY SignersFound
  <2> DEFINE output == RequiredSigners(simulation)
  <2> HIDE DEF output
  <2>3. conversion' = <<"getRequiredSigners", simulation, output>>
    BY <2>1 DEF output
  <2>4. /\ IsInjective(output)
        /\ Range(output) = {item.signer : item \in
             {item \in Range(simulation.auth) \cup Range(simulation.results) : Account(item)}}
    BY <2>2 DEF output
  <2>5. QED
    BY <2>3, <2>4 DEF ConversionIInv, ConversionTypeOK, ConversionsAreExact
<1>5. QED
  BY <1>1, <1>2, <1>3, <1>4 DEF ConversionNext

(* Every conversion is exact, whatever numbers of values a limb and a group have:
   an integer is what its limbs join to, a specification what the sections named
   for it hold, and the signers are the accounts that are named, each once.
   (packages/core/src/utils/simulationParser.ts:62,
    packages/core/src/codegen/wasmParser.ts:75, src/utils/getRequiredSigners.ts:27) *)
THEOREM ConversionsCorrect == ConversionSpec => [](ConversionTypeOK /\ ConversionsAreExact)
<1>1. ConversionInit => ConversionIInv
  BY ConversionStarts
<1>2. ConversionIInv /\ [ConversionNext]_conversion => ConversionIInv'
  BY ConversionKeeps
<1>3. QED
  BY <1>1, <1>2, PTL DEF ConversionSpec, ConversionIInv
=============================================================================
