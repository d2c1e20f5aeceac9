------------------------------ MODULE UseVault ------------------------------
(***************************************************************************)
(* The React hook useVault(): deposit() and withdraw() run a vault call,   *)
(* follow its transaction and tell of it in four state variables, which    *)
(* all calls of the hook, and reset(), share.                              *)
(*                                                                         *)
(* Transactions have the names of the calls.  The hook is the only one to  *)
(* set its variables, and setting one takes effect at once.                *)
(***************************************************************************)
EXTENDS Integers, FiniteSets

CONSTANTS
  HookCalls,     \* calls of deposit() and withdraw()
  NoHash

ASSUME HookAssumption == NoHash \notin HookCalls

VARIABLES
  hookState,     \* step, isLoading, error, txHash of the hook
  hookCalls,     \* where each call of execute() is
  chain,         \* what became of each call's transaction
  succeeded,     \* calls for which onSuccess() was called
  crossed        \* whether calls ever ran together, or reset() came amid one

hookVars == <<hookState, hookCalls, chain, succeeded, crossed>>

Quiet == [step |-> "idle", isLoading |-> FALSE, error |-> FALSE, txHash |-> NoHash]
InFlight == {c \in HookCalls : hookCalls[c] \in {"acting", "polling", "sleeping"}}

HookInit ==
  /\ hookState = Quiet /\ hookCalls = [c \in HookCalls |-> "none"]
  /\ chain = [c \in HookCalls |-> "none"] /\ succeeded = {} /\ crossed = FALSE

\* execute(), up to the await of the action
Execute(c) ==
  /\ hookCalls[c] = "none"
  /\ hookState' = [Quiet EXCEPT !.isLoading = TRUE]
  /\ hookCalls' = [hookCalls EXCEPT ![c] = "acting"]
  /\ crossed' = (crossed \/ InFlight # {})
  /\ UNCHANGED <<chain, succeeded>>

\* The action returns: the transaction was submitted, and may be on its way.
ActionReturns(c) ==
  /\ hookCalls[c] = "acting"
  /\ hookState' = [hookState EXCEPT !.step = "submitted", !.txHash = c]
  /\ hookCalls' = [hookCalls EXCEPT ![c] = "polling"]
  /\ chain' = [chain EXCEPT ![c] = "pending"]
  /\ UNCHANGED <<succeeded, crossed>>

\* Mutant: an error leaves the call loading.
SettleUnlessFailed(failed) ==
  [hookState EXCEPT !.error = failed \/ @, !.isLoading = failed,
                    !.step = IF failed THEN "idle" ELSE "confirmed"]

\* The catch and finally of execute(), or its end.
Settle(failed) ==
  [hookState EXCEPT !.error = failed \/ @, !.isLoading = FALSE,
                    !.step = IF failed THEN "idle" ELSE "confirmed"]

\* The action throws, a poll throws - the first time it does - or finds that the
\* transaction failed, onSuccess() throws, or the time to poll is over after a
\* sleep.
Fails(c) ==
  /\ hookCalls[c] \in {"acting", "polling", "sleeping"}
  /\ hookState' = Settle(TRUE)
  /\ hookCalls' = [hookCalls EXCEPT ![c] = "failed"]
  /\ UNCHANGED <<chain, succeeded, crossed>>

PollConfirms(c) ==
  /\ hookCalls[c] = "polling" /\ chain[c] = "SUCCESS"
  /\ hookState' = Settle(FALSE)
  /\ hookCalls' = [hookCalls EXCEPT ![c] = "confirmed"]
  /\ succeeded' = succeeded \cup {c}
  /\ UNCHANGED <<chain, crossed>>

PollFindsNothing(c) ==
  /\ hookCalls[c] = "polling" /\ chain[c] = "pending"
  /\ hookCalls' = [hookCalls EXCEPT ![c] = "sleeping"]
  /\ UNCHANGED <<hookState, chain, succeeded, crossed>>

PollAgain(c) ==
  /\ hookCalls[c] = "sleeping"
  /\ hookCalls' = [hookCalls EXCEPT ![c] = "polling"]
  /\ UNCHANGED <<hookState, chain, succeeded, crossed>>

\* reset(): the calls in flight go on.
Reset ==
  /\ hookState' = Quiet
  /\ crossed' = (crossed \/ InFlight # {})
  /\ UNCHANGED <<hookCalls, chain, succeeded>>

ChainDecides(c) ==
  /\ chain[c] = "pending"
  /\ \E status \in {"SUCCESS", "FAILED"} : chain' = [chain EXCEPT ![c] = status]
  /\ UNCHANGED <<hookState, hookCalls, succeeded, crossed>>

HookNext ==
  \/ \E c \in HookCalls :
       \/ Execute(c) \/ ActionReturns(c) \/ Fails(c) \/ PollConfirms(c) \/ PollFindsNothing(c)
       \/ PollAgain(c) \/ ChainDecides(c)
  \/ Reset

HookSpec == HookInit /\ [][HookNext]_hookVars

-----------------------------------------------------------------------------
(* Properties *)

HookTypeOK ==
  /\ hookState.step \in {"idle", "submitted", "confirmed"}
  /\ hookState.txHash \in HookCalls \cup {NoHash} /\ succeeded \subseteq HookCalls

(* What the hook shows is what happens, as long as calls come one at a time: it
   is loading while a call is in flight and only then, `confirmed' is shown with
   the hash of a transaction that succeeded, `submitted' with one that is being
   followed, and an error only when nothing is.  Whatever comes when, a call
   that reports success succeeded on chain, and when the last call has ended
   nothing is loading any more.
   (packages/react/src/useVault.ts:36-140) *)
HookTellsTruth ==
  /\ \A c \in succeeded : chain[c] = "SUCCESS"
  /\ InFlight = {} => ~hookState.isLoading
  /\ ~crossed =>
       /\ hookState.isLoading <=> InFlight # {}
       /\ hookState.step = "confirmed" => hookState.txHash \in succeeded
       /\ hookState.step = "submitted" => hookState.txHash \in InFlight
       /\ hookState.error => InFlight = {} /\ hookState.step = "idle"
=============================================================================
