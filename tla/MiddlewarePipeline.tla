------------------------- MODULE MiddlewarePipeline -------------------------
(***************************************************************************)
(* src/middleware/pipeline.ts: the middleware of one client, and a request *)
(* that runs through it.  Middleware is added and removed at any time, in  *)
(* particular while the request awaits a hook.                             *)
(***************************************************************************)
EXTENDS Integers, Sequences, FiniteSets, SequencesExt

CONSTANTS
  MiddlewareNames,
  Orders,   \* the orders middleware is registered with
  MaxUses   \* bound on the calls of use()

ASSUME PipelineAssumption == Orders \subseteq Int /\ MaxUses \in Nat

VARIABLES
  middleware,   \* the entries, sorted
  nextSequence,
  request       \* a run of execute()

pipelineVars == <<middleware, nextSequence, request>>

NoRequest == [phase |-> "none", at |-> 0, first |-> {}, pre |-> {},
              todo |-> <<>>, back |-> <<>>, cut |-> FALSE]

PipelineInit == middleware = <<>> /\ nextSequence = 0 /\ request = NoRequest

\* use(): entries are sorted by order, then by sequence, so the new one comes
\* behind those of its order.
UseMiddleware(name, order) ==
  /\ nextSequence < MaxUses
  /\ \E k \in 1..(Len(middleware) + 1) :
       /\ \A j \in DOMAIN middleware : middleware[j].order <= order <=> j < k
       /\ middleware' =
            InsertAt(middleware, k, [name |-> name, order |-> order, seq |-> nextSequence])
  /\ nextSequence' = nextSequence + 1
  /\ UNCHANGED request

\* remove(), or the function use() returned: the first of that name.
RemoveMiddleware(name) ==
  /\ \E k \in DOMAIN middleware :
       /\ middleware[k].name = name /\ \A j \in 1..(k - 1) : middleware[j].name # name
       /\ middleware' = RemoveAt(middleware, k)
  /\ request' = [request EXCEPT !.cut = request.phase # "none"]
  /\ UNCHANGED nextSequence

\* clear()
ClearMiddleware ==
  /\ middleware # <<>> /\ middleware' = <<>>
  /\ request' = [request EXCEPT !.cut = request.phase # "none"]
  /\ UNCHANGED nextSequence

-----------------------------------------------------------------------------
(* execute().  The hooks before the operation iterate the array itself, the
   others a reversed copy of it. *)

Back(phase) == [request EXCEPT !.phase = phase, !.todo = Reverse(middleware), !.back = <<>>]

\* Mutant: the number of entries is read once.
CallPreHookOfOldLength(r, at) ==
  IF at <= Cardinality(r.first) /\ at <= Len(middleware)
  THEN [r EXCEPT !.phase = "pre", !.at = at, !.pre = @ \cup {middleware[at]}]
  ELSE [r EXCEPT !.phase = "next"]

\* The hook at index `at' is called, if there is one, else the operation.
CallPreHook(r, at) ==
  IF at <= Len(middleware)
  THEN [r EXCEPT !.phase = "pre", !.at = at, !.pre = @ \cup {middleware[at]}]
  ELSE [r EXCEPT !.phase = "next"]

ExecuteStarts ==
  /\ request.phase = "none"
  /\ request' = CallPreHook([NoRequest EXCEPT !.first = Range(middleware)], 1)
  /\ UNCHANGED <<middleware, nextSequence>>

PreHookReturns ==
  /\ request.phase = "pre" /\ request' = CallPreHook(request, request.at + 1)
  /\ UNCHANGED <<middleware, nextSequence>>

OperationReturns ==
  /\ request.phase = "next" /\ request' = Back("post")
  /\ UNCHANGED <<middleware, nextSequence>>

\* A hook behind the operation, or an onError hook, returns.
BackHookReturns ==
  /\ request.phase \in {"post", "error"} /\ request.todo # <<>>
  /\ request' = [request EXCEPT !.todo = Tail(@), !.back = Append(@, Head(request.todo))]
  /\ UNCHANGED <<middleware, nextSequence>>

\* A hook or the operation throws: the onError hooks of all entries are called.
RequestThrows ==
  /\ request.phase \in {"pre", "next", "post"}
  /\ request.phase = "post" => request.todo # <<>>
  /\ request' = Back("error")
  /\ UNCHANGED <<middleware, nextSequence>>

\* execute() returns or throws, the latter also when an onError hook throws.
ExecuteEnds ==
  /\ request.phase \in {"post", "error"}
  /\ request.phase = "post" => request.todo = <<>>
  /\ request' = NoRequest
  /\ UNCHANGED <<middleware, nextSequence>>

PipelineNext ==
  \/ \E name \in MiddlewareNames : \/ RemoveMiddleware(name)
                                   \/ \E order \in Orders : UseMiddleware(name, order)
  \/ ClearMiddleware
  \/ ExecuteStarts \/ PreHookReturns \/ OperationReturns \/ BackHookReturns
  \/ RequestThrows \/ ExecuteEnds

PipelineSpec == PipelineInit /\ [][PipelineNext]_pipelineVars

-----------------------------------------------------------------------------
(* Properties *)

PipelineTypeOK ==
  /\ middleware \in Seq([name : MiddlewareNames, order : Orders, seq : 0..(MaxUses - 1)])
  /\ nextSequence \in 0..MaxUses
  /\ request.phase \in {"none", "pre", "next", "post", "error"}

Ascending(entries) ==
  \A j, k \in DOMAIN entries : j < k =>
    \/ entries[j].order < entries[k].order
    \/ entries[j].order = entries[k].order /\ entries[j].seq < entries[k].seq

(* Middleware is installed in the middle of requests.  The entries a request
   met at its start all see it, whatever is added meanwhile: their hooks before
   the operation have been called when it is, and those behind it are called
   once, in descending order.  Not so if an entry is removed before the
   operation: the next one moves up and is passed over.
   (src/middleware/pipeline.ts:58-80, src/client/stellarClient.ts:443) *)
RequestMeetsAll ==
  /\ Ascending(middleware)
  /\ ~request.cut =>
       /\ request.phase \in {"next", "post"} => request.first \subseteq request.pre
       /\ request.phase \in {"post", "error"} =>
            LET called == request.back \o request.todo
            IN  request.first \subseteq Range(called) /\ Ascending(Reverse(called))
=============================================================================
