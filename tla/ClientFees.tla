----------------------------- MODULE ClientFees -----------------------------
(***************************************************************************)
(* The fees of StellarClient: the buffer that prepareTransaction() puts on *)
(* what a simulation found, with its limit; the checks of validateFee();   *)
(* and the fee of simulateBatch().  Each is one call and leaves no state   *)
(* but its result: a behaviour is one call.                                *)
(*                                                                         *)
(* A multiplier is a decimal number: its digits, without the point, and    *)
(* how many of them are fractional; toString() of a number writes it so,   *)
(* or with an exponent from 10^21 on.  Fees are BigInts and do not wrap.   *)
(***************************************************************************)
EXTENDS Integers, Sequences

CONSTANTS
  Multipliers,   \* [digits, places, exponent] of feeBufferMultiplier
  FeeLimits,     \* maxFeeLimit, NoLimit among them
  Amounts,       \* fees and resources
  OperationCounts

NoLimit == 0

ASSUME FeeAssumption ==
  /\ \A m \in Multipliers : m.digits \in Nat /\ m.places \in Nat /\ m.exponent \in BOOLEAN
  /\ \A m \in Multipliers : m.digits >= 10 ^ m.places  \* the constructor's check
  /\ \A m \in Multipliers : 10 ^ m.places \in Nat \ {0}  \* a fact about powers, for the proofs
  /\ FeeLimits \subseteq Nat /\ Amounts \subseteq Nat /\ OperationCounts \subseteq Nat

VARIABLE feeCall   \* the call, with its arguments and its result

NoFeeCall == [call |-> "none", thrown |-> FALSE]

FeeInit == feeCall = NoFeeCall

\* Mutant: the quotient is rounded to the nearest.
MultiplyAndRound(value, m) ==
  (value * m.digits + (10 ^ m.places) \div 2) \div 10 ^ m.places

\* multiplyAndCeil(), with the fraction that toFraction() makes.
MultiplyAndCeil(value, m) ==
  (value * m.digits + 10 ^ m.places - 1) \div 10 ^ m.places

\* build() of the Stellar SDK's builder, for one operation: the resource fee
\* comes on top of the base fee.
BuiltFee(base, resource) == base + resource

\* Mutant: the limit is compared with what the simulation found.
BufferFeeUnlimited(total, resource, m, limit) ==
  LET base == IF total > resource THEN total - resource ELSE 0
      buffered == [base |-> MultiplyAndCeil(base, m), resource |-> MultiplyAndCeil(resource, m)]
  IN  [buffered |-> buffered, thrown |-> m.exponent \/ (limit # NoLimit /\ limit < total)]

\* The part of applyFeeBuffer() before the transaction is built again.  An
\* exponent is no decimal number for toFraction(), which throws.
BufferFee(total, resource, m, limit) ==
  LET base == IF total > resource THEN total - resource ELSE 0
      buffered == [base |-> MultiplyAndCeil(base, m), resource |-> MultiplyAndCeil(resource, m)]
  IN  [buffered |-> buffered,
       thrown |-> \/ m.exponent
                  \/ limit # NoLimit /\ limit < total
                  \/ limit # NoLimit /\ buffered.base + buffered.resource > limit]

\* prepareTransaction(): the simulation, assembly, and applyFeeBuffer().  A
\* transaction without Soroban data is returned as it is.
PrepareTransaction(total, resource, used, m, limit) ==
  LET fee == BufferFee(total, resource, m, limit)
  IN  feeCall' = [call |-> "prepare", thrown |-> fee.thrown, total |-> total,
                  resource |-> resource, used |-> used, multiplier |-> m, limit |-> limit,
                  fee |-> BuiltFee(fee.buffered.base, fee.buffered.resource),
                  resourceFee |-> fee.buffered.resource, resources |-> MultiplyAndCeil(used, m)]

\* validateFee(): what a simulation recommends, if it is a fifth higher, and
\* whether or not it is within maxFee.  A failure of the simulation is logged.
ValidateFee(fee, minFee, maxFee, simulated) ==
  feeCall' = [call |-> "validate", thrown |-> fee < minFee \/ fee > maxFee,
              given |-> fee, minFee |-> minFee, maxFee |-> maxFee, simulated |-> simulated,
              fee |-> IF simulated # NoLimit /\ 5 * simulated > 6 * fee THEN simulated ELSE fee]

\* simulateBatch(): the builder multiplies the fee it is given, which is one
\* for all the operations already, by their number.
SimulateBatch(feePerOperation, count) ==
  feeCall' = [call |-> "batch", thrown |-> count = 0, fee |-> feePerOperation * count * count]

FeeNext ==
  /\ feeCall = NoFeeCall
  /\ \/ \E total, resource, used \in Amounts, m \in Multipliers, limit \in FeeLimits :
          PrepareTransaction(total, resource, used, m, limit)
     \/ \E fee, minFee, maxFee \in Amounts, simulated \in Amounts \cup {NoLimit} :
          ValidateFee(fee, minFee, maxFee, simulated)
     \/ \E fee \in Amounts, count \in OperationCounts : SimulateBatch(fee, count)

FeeSpec == FeeInit /\ [][FeeNext]_feeCall

-----------------------------------------------------------------------------
(* Properties *)

FeeTypeOK ==
  feeCall.call \in {"none", "prepare", "validate", "batch"} /\ feeCall.thrown \in BOOLEAN

\* The least integer that is not below the product of a value and a multiplier.
LeastAbove(x, value, m) ==
  /\ x * 10 ^ m.places >= value * m.digits
  /\ (x - 1) * 10 ^ m.places < value * m.digits

(* A buffered transaction never pays less than the simulation asked for, in
   total, for its resources and in the resources themselves; never more than
   maxFeeLimit; and each part is the least that covers the buffer, so that the
   total is at most one stroop above the buffered total - unless the resource
   fee alone was above the total.  validateFee() returns the fee itself or more,
   and the fee itself is within its bounds.
   (src/client/stellarClient.ts:1347-1391, 1893-1924, 835-879) *)
FeesAreCovered ==
  LET f == feeCall
  IN  /\ f.call = "prepare" /\ ~f.thrown =>
           /\ f.fee >= f.total /\ f.resourceFee >= f.resource /\ f.resources >= f.used
           /\ f.limit # NoLimit => f.fee <= f.limit
           /\ LeastAbove(f.resourceFee, f.resource, f.multiplier)
           /\ LeastAbove(f.resources, f.used, f.multiplier)
           /\ f.total >= f.resource =>
                \/ LeastAbove(f.fee, f.total, f.multiplier)
                \/ LeastAbove(f.fee - 1, f.total, f.multiplier)
      /\ f.call = "validate" /\ ~f.thrown =>
           f.fee >= f.given /\ f.given \in f.minFee..f.maxFee
=============================================================================
