----------------------------- MODULE Simulations -----------------------------
(***************************************************************************)
(* packages/core's TransactionSimulator: simulations of transactions, how  *)
(* they are compared and held against a limit, and the history of them.    *)
(*                                                                         *)
(* What the RPC server answers has the resource fee as a string and no     *)
(* resources of each operation.  So instructions and memory are 0          *)
(* throughout, and the sum of the fees is a string, of the digits of the   *)
(* fee of the transaction and those of the resource fee; strings are       *)
(* ordered by their digits, and as numbers only beside a number.  The fee  *)
(* of a transaction is positive, and written without zeros before it.  The *)
(* direction of a trend and the texts of suggestions are left out.         *)
(***************************************************************************)
EXTENDS Integers, Sequences, FiniteSets, SequencesExt

CONSTANTS
  BaseFees, ResourceFees,  \* sequences of digits
  FeeTargets,              \* values of maxFee; 0 is as if there were none
  HistoryLimit,            \* 50
  MaxCompared,             \* bounds on the transactions that are compared,
  MaxSimulations           \*   and on the simulations that are tracked

ASSUME SimulationAssumption ==
  /\ BaseFees \cup ResourceFees \subseteq Seq(0..9) /\ <<>> \notin BaseFees \cup ResourceFees
  /\ \A base \in BaseFees : Head(base) # 0
  /\ FeeTargets \subseteq Nat /\ {HistoryLimit, MaxCompared, MaxSimulations} \subseteq Nat

VARIABLES
  compared,    \* results of the simulations that run together, `pending' before their answer
  comparison,  \* leastExpensive and mostEfficient of the last comparison, 0 if there is none
  historicalData, \* the history of one kind of transaction
  simulations  \* numbers of the simulations, all that were tracked

simulationVars == <<compared, comparison, historicalData, simulations>>

Pending == [state |-> "pending", base |-> <<0>>, resource |-> <<0>>]
NoComparison == [leastExpensive |-> 0, mostEfficient |-> 0]

SimulationInit ==
  /\ compared = <<>> /\ comparison = NoComparison
  /\ historicalData = <<>> /\ simulations = <<>>

Value(digits) ==
  LET value[n \in 0..Len(digits)] == IF n = 0 THEN 0 ELSE 10 * value[n - 1] + digits[n]
  IN  value[Len(digits)]

\* The sum of the fees as it should be, and as it is
TotalFee(r) == Value(r.base) + Value(r.resource)

RecommendedFee(r) == IF r.state = "success" THEN r.base \o r.resource ELSE <<0>>

SortsBefore(a, b) ==
  \/ Len(a) < Len(b) /\ IsPrefix(a, b)
  \/ \E i \in DOMAIN a \cap DOMAIN b :
       a[i] < b[i] /\ \A j \in 1..i - 1 : a[j] = b[j]

\* Mutant: a failure is compared as if it cost more than anything.
LessFeeOfSuccess(r, s) ==
  r.state = "success" /\ (s.state = "success" => SortsBefore(RecommendedFee(r), RecommendedFee(s)))

\* The < of JavaScript, of a string or the number of a failure
LessFee(r, s) ==
  IF r.state = "success" /\ s.state = "success"
  THEN SortsBefore(RecommendedFee(r), RecommendedFee(s))
  ELSE Value(RecommendedFee(r)) < Value(RecommendedFee(s))

\* calculateEfficiencyMetrics(), but for what does not depend on the fees: those of
\* a million and more are alike, and failures are less efficient than anything.
Million == 1000000
Inefficiency(r) ==
  IF r.state # "success" THEN Million + 1
  ELSE IF Value(RecommendedFee(r)) < Million THEN Value(RecommendedFee(r)) ELSE Million

\* The results that each of those compared is better than
LessExpensiveThan ==
  [i \in DOMAIN compared |-> {j \in DOMAIN compared : LessFee(compared[i], compared[j])}]
MoreEfficientThan ==
  [i \in DOMAIN compared |->
     {j \in DOMAIN compared : Inefficiency(compared[i]) < Inefficiency(compared[j])}]

\* The reduce() of comparativeSimulation()
FirstBest(beaten) ==
  LET best[i \in DOMAIN beaten] ==
        IF i = 1 THEN 1 ELSE IF best[i - 1] \in beaten[i] THEN i ELSE best[i - 1]
  IN  best[Len(beaten)]

\* optimizeTransaction() is content with the fee, as it is with any if the limit is 0.
WithinTarget(r, maxFee) == ~(maxFee # 0 /\ Value(RecommendedFee(r)) > maxFee)

CompareTransactions(count) ==
  /\ compared = <<>>
  /\ compared' = [i \in 1..count |-> Pending]
  /\ UNCHANGED <<comparison, historicalData, simulations>>

\* detailedSimulation(); whose answer came first makes no difference.
SimulationEnds(state, base, resource) ==
  /\ \E i \in DOMAIN compared :
       /\ compared[i] = Pending /\ \A j \in 1..i - 1 : compared[j] # Pending
       /\ compared' = [compared EXCEPT ![i] =
            [state |-> state, base |-> base, resource |-> resource]]
  /\ UNCHANGED <<comparison, historicalData, simulations>>

\* One of them throws, and with it the comparison.
SimulationThrows ==
  /\ compared # <<>> /\ Pending \in Range(compared)
  /\ compared' = <<>> /\ comparison' = NoComparison
  /\ UNCHANGED <<historicalData, simulations>>

EndComparison ==
  /\ compared # <<>> /\ Pending \notin Range(compared) /\ comparison = NoComparison
  /\ comparison' = [leastExpensive |-> FirstBest(LessExpensiveThan),
                    mostEfficient |-> FirstBest(MoreEfficientThan)]
  /\ UNCHANGED <<compared, historicalData, simulations>>

ForgetComparison ==
  /\ comparison # NoComparison /\ compared' = <<>> /\ comparison' = NoComparison
  /\ UNCHANGED <<historicalData, simulations>>

\* Mutant: the list is cut before the new result is in it.
CutBefore(list, result) ==
  Append(IF Len(list) > HistoryLimit THEN Tail(list) ELSE list, result)

Tracked(list, result) ==
  LET longer == Append(list, result)
  IN  IF Len(longer) > HistoryLimit THEN Tail(longer) ELSE longer

TrackSimulation ==
  /\ Len(simulations) < MaxSimulations
  /\ simulations' = Append(simulations, Len(simulations) + 1)
  /\ historicalData' = Tracked(historicalData, Len(simulations) + 1)
  /\ UNCHANGED <<compared, comparison>>

SimulationNext ==
  \/ \E count \in 1..MaxCompared : CompareTransactions(count)
  \/ \E base \in BaseFees, resource \in ResourceFees : SimulationEnds("success", base, resource)
  \/ SimulationEnds("error", <<0>>, <<0>>)
  \/ SimulationThrows \/ EndComparison \/ ForgetComparison \/ TrackSimulation

SimulationSpec == SimulationInit /\ [][SimulationNext]_simulationVars

-----------------------------------------------------------------------------
(* Properties *)

SimulationTypeOK ==
  /\ {comparison.leastExpensive, comparison.mostEfficient} \subseteq 0..Len(compared)
  /\ Range(historicalData) \subseteq Range(simulations)

(* The history is the last of what was tracked.  The most efficient transaction
   is one that succeeds if there is one, though the least expensive is one that
   fails if there is one; of successful ones that pay the same fee, and whose
   resource fees have as many digits, it is the cheapest.  A fee that is within
   the limit asked for, `maximum acceptable fee', is so in numbers, too; but for
   a limit of 0, which is taken for none.
   (packages/core/src/transaction/transactionSimulator.ts:58, 155-192, 242, 322-328) *)
SimulationsAreCompared ==
  /\ historicalData
       = SubSeq(simulations, Len(simulations) - Len(historicalData) + 1, Len(simulations))
  /\ Len(historicalData) <= HistoryLimit
  /\ Len(historicalData) < HistoryLimit => Len(historicalData) = Len(simulations)
  /\ comparison # NoComparison =>
       LET successes == {i \in DOMAIN compared : compared[i].state = "success"}
           cheapest == compared[comparison.leastExpensive]
       IN  /\ successes # {} => comparison.mostEfficient \in successes
           /\ successes # DOMAIN compared => comparison.leastExpensive \notin successes
           /\ \A i \in DOMAIN compared :
                compared[i].state = cheapest.state /\ compared[i].base = cheapest.base
                /\ Len(compared[i].resource) = Len(cheapest.resource)
                  => TotalFee(cheapest) <= TotalFee(compared[i])
  /\ \A i \in DOMAIN compared, maxFee \in FeeTargets :
       maxFee # 0 /\ compared[i].state = "success" /\ WithinTarget(compared[i], maxFee)
         => TotalFee(compared[i]) <= maxFee
=============================================================================
