---------------------------- MODULE ValidatedVault ----------------------------
(***************************************************************************)
(* The schema validation engine around calls of the Vault of src/contracts *)
(* as CONTRACT_VALIDATION.md wraps a method: withSchemaValidation() checks *)
(* the parameters, awaits the call, and checks its result, each time with  *)
(* the schema that is registered by then.  deposit() and withdraw() send a *)
(* transaction; getVaultInfo() makes several reads at once, which answer   *)
(* one by one while the contract goes on.                                  *)
(*                                                                         *)
(* The node and the contract are external.  A schema is one of three kinds *)
(* by what it checks, and an answer is plain or odd, as a result schema    *)
(* would tell.  Of the four fields of getVaultInfo() there are two, with   *)
(* one share for each unit of the assets deposited.                        *)
(***************************************************************************)
EXTENDS Integers, FiniteSets

CONSTANTS
  WrappedCalls,     \* calls of the wrapped methods, each made once
  CallAmounts,      \* amounts a caller may pass
  MaxSchemaChanges, \* bounds on registrations
  MaxRewards        \*   and on rewards that the contract receives

ASSUME ValidatedAssumption ==
  /\ CallAmounts \subseteq Int /\ {MaxSchemaChanges, MaxRewards} \subseteq Nat

VARIABLES
  schemas,        \* method -> the kind of its schema, or "none"
  schemaChanges,
  wrapped,        \* the calls
  vaultState,     \* totalAssets and totalSupply of the contract,
  rewards,        \*   rewards it received,
  submitted       \*   and the calls whose transaction has reached the node

validatedVars == <<schemas, schemaChanges, wrapped, vaultState, rewards, submitted>>

WrappedMethods == {"deposit", "withdraw", "getVaultInfo"}
Fields == {"totalAssets", "totalSupply"}
Unanswered == -1

\* What the parameters, and what the result, of a kind of schema say something of
ChecksParams == {"builtin", "strict"}
ChecksResult == {"result", "strict"}

\* `asked' and `judged' are the schemas at the start and at the end of a call,
\* and `current' the values each field had since the start: history.
NewCall == [stage |-> "new", method |-> "deposit", amount |-> 0, asked |-> "none",
            judged |-> "none", answer |-> "none", applied |-> FALSE,
            fields |-> [f \in Fields |-> Unanswered], current |-> [f \in Fields |-> {}]]

\* contractSchemas.ts registers schemas of the parameters as it is imported.
ValidatedInit ==
  /\ schemas = [method \in WrappedMethods |->
                  IF method = "getVaultInfo" THEN "result" ELSE "builtin"]
  /\ schemaChanges = 0 /\ rewards = 0 /\ submitted = {}
  /\ wrapped = [c \in WrappedCalls |-> NewCall]
  /\ vaultState = [f \in Fields |-> 1]

\* registerSchema() and unregisterSchema()
ChangeSchema(method, kind) ==
  /\ schemaChanges < MaxSchemaChanges /\ schemaChanges' = schemaChanges + 1
  /\ schemas[method] # kind /\ schemas' = [schemas EXCEPT ![method] = kind]
  /\ UNCHANGED <<wrapped, vaultState, rewards, submitted>>

\* Mutant: zero passes for positive.
NotNegative(amount) == amount >= 0

\* The rule of positiveBigIntSchema()
PositiveAmount(amount) == amount > 0

\* validateParams(), of a call with the schema there is
ParamsPass(method, amount) ==
  schemas[method] \in ChecksParams => PositiveAmount(amount)

\* Mutant: the result is checked with the schema looked up at the start.
SchemaAsked(call) == call.asked

\* The schema that validateResult() looks up
SchemaForResult(call) == schemas[call.method]

\* The method has resolved: its result is checked.
Judge(call, answer) ==
  [call EXCEPT !.judged = schemas[call.method], !.answer = answer,
     !.stage = IF SchemaForResult(call) \in ChecksResult /\ answer = "odd"
               THEN "invalid" ELSE "resolved"]

\* A wrapped call, up to its first await; without a signer the vault's writes
\* throw before anything is sent.
CallWrapped(c, method, amount, signer) ==
  /\ wrapped[c].stage = "new"
  /\ wrapped' = [wrapped EXCEPT ![c] =
       [NewCall EXCEPT !.method = method, !.amount = amount, !.asked = schemas[method],
          !.current = [f \in Fields |-> {vaultState[f]}],
          !.stage = IF ~ParamsPass(method, amount) THEN "refused"
                    ELSE IF method = "getVaultInfo" THEN "reading"
                    ELSE IF signer THEN "sending" ELSE "failed"]]
  /\ UNCHANGED <<schemas, schemaChanges, vaultState, rewards, submitted>>

\* The node takes the transaction; the contract is not asked yet.
NodeTakes(c) ==
  /\ wrapped[c].stage = "sending" /\ c \notin submitted
  /\ submitted' = submitted \cup {c}
  /\ UNCHANGED <<schemas, schemaChanges, wrapped, vaultState, rewards>>

\* deposit() and withdraw(): the transaction was sent.
SendResolves(c, answer) ==
  /\ wrapped[c].stage = "sending" /\ c \in submitted
  /\ wrapped' = [wrapped EXCEPT ![c] = Judge(@, answer)]
  /\ UNCHANGED <<schemas, schemaChanges, vaultState, rewards, submitted>>

\* Their catch: the node refuses, or its answer is lost.
SendThrows(c) ==
  /\ wrapped[c].stage = "sending"
  /\ wrapped' = [wrapped EXCEPT ![c].stage = "failed"]
  /\ UNCHANGED <<schemas, schemaChanges, vaultState, rewards, submitted>>

\* Mutant: an answer counts for every field that waits.
AllWaiting(call, field) == {f \in Fields : call.fields[f] = Unanswered}

\* The fields an answer is for
AnsweredBy(call, field) == {field}

\* getVaultInfo(): one of the reads answers; after the last the result is checked.
ReadAnswers(c, field, answer) ==
  /\ wrapped[c].stage = "reading" /\ wrapped[c].fields[field] = Unanswered
  /\ LET filled == [f \in Fields |-> IF f \in AnsweredBy(wrapped[c], field)
                                     THEN vaultState[field] ELSE wrapped[c].fields[f]]
         call == [wrapped[c] EXCEPT !.fields = filled]
     IN  /\ answer = "odd" => \A f \in Fields : filled[f] # Unanswered
         /\ wrapped' = [wrapped EXCEPT ![c] =
              IF \E f \in Fields : filled[f] = Unanswered THEN call ELSE Judge(call, answer)]
  /\ UNCHANGED <<schemas, schemaChanges, vaultState, rewards, submitted>>

\* Promise.all() rejects with the first read that does.
ReadThrows(c) ==
  /\ wrapped[c].stage = "reading"
  /\ wrapped' = [wrapped EXCEPT ![c].stage = "failed"]
  /\ UNCHANGED <<schemas, schemaChanges, vaultState, rewards, submitted>>

\* The contract changes, and those that are reading may see it.
ContractBecomes(state, calls) ==
  /\ vaultState' = state
  /\ wrapped' = [c \in WrappedCalls |->
       IF calls[c].stage = "reading"
       THEN [calls[c] EXCEPT !.current = [f \in Fields |-> @[f] \cup {state[f]}]]
       ELSE calls[c]]

\* A transaction is on the chain; a withdrawal of more than there is reverts.
TransactionApplies(c) ==
  /\ c \in submitted /\ ~wrapped[c].applied
  /\ LET sign == IF wrapped[c].method = "deposit" THEN 1 ELSE -1
         amount == sign * wrapped[c].amount
     IN  /\ \A f \in Fields : vaultState[f] + amount >= 0
         /\ ContractBecomes([f \in Fields |-> vaultState[f] + amount],
                            [wrapped EXCEPT ![c].applied = TRUE])
  /\ UNCHANGED <<schemas, schemaChanges, rewards, submitted>>

RewardArrives ==
  /\ rewards < MaxRewards /\ rewards' = rewards + 1
  /\ ContractBecomes([vaultState EXCEPT !.totalAssets = @ + 1], wrapped)
  /\ UNCHANGED <<schemas, schemaChanges, submitted>>

ValidatedNext ==
  \/ \E method \in WrappedMethods, kind \in {"none", "builtin", "result", "strict"} :
       ChangeSchema(method, kind)
  \/ \E c \in WrappedCalls :
       \/ \E method \in {"deposit", "withdraw"}, amount \in CallAmounts, signer \in BOOLEAN :
            CallWrapped(c, method, amount, signer)
       \/ CallWrapped(c, "getVaultInfo", 1, FALSE)
       \/ NodeTakes(c) \/ SendThrows(c) \/ ReadThrows(c) \/ TransactionApplies(c)
       \/ \E answer \in {"plain", "odd"} :
            \/ SendResolves(c, answer)
            \/ \E field \in Fields : ReadAnswers(c, field, answer)
  \/ RewardArrives

ValidatedSpec == ValidatedInit /\ [][ValidatedNext]_validatedVars

-----------------------------------------------------------------------------
(* Properties *)

(* Every variable has its type.
   (src/validation/engine.ts:61, src/contracts/vault.ts:59) *)
ValidatedTypeOK ==
  /\ schemas \in [WrappedMethods -> {"none", "builtin", "result", "strict"}]
  /\ schemaChanges \in 0..MaxSchemaChanges /\ rewards \in 0..MaxRewards
  /\ submitted \subseteq WrappedCalls /\ vaultState \in [Fields -> Nat]
  /\ \A c \in WrappedCalls :
       /\ wrapped[c].stage \in {"new", "refused", "sending", "reading", "failed", "invalid",
                                "resolved"}
       /\ wrapped[c].method \in WrappedMethods
       /\ wrapped[c].fields \in [Fields -> Nat \cup {Unanswered}]

(* Whatever schemas come and go during a call, an amount that the schema of its
   start refuses never reaches the contract; a call whose result is refused was
   sent all the same, so that it is not like one that was refused before; a
   result that is handed over satisfies the schema registered by then; and each
   field of it was true at some moment of the call.
   (src/validation/engine.ts:186, src/contracts/vault.ts:60) *)
WrappedCallsAreChecked ==
  \A c \in WrappedCalls :
    LET call == wrapped[c]
        writes == call.method # "getVaultInfo"
    IN  /\ c \in submitted /\ call.asked \in ChecksParams => call.amount > 0
        /\ call.stage = "refused" => c \notin submitted /\ ~call.applied
        /\ call.stage \in {"invalid", "resolved"} /\ writes => c \in submitted
        /\ call.stage = "invalid" => call.judged \in ChecksResult
        /\ call.stage = "resolved" /\ call.answer = "odd" => call.judged \notin ChecksResult
        /\ call.stage \in {"invalid", "resolved"} /\ ~writes =>
             \A f \in Fields : call.fields[f] \in call.current[f]
=============================================================================
