------------------------- MODULE MCConcurrencyQueue -------------------------
(* Instances of ConcurrencyQueue for TLC. *)
EXTENDS ConcurrencyQueue, TLC

Symmetry == Permutations(Requests)

Config(m, t, r, q) == [max |-> m, throttle |-> t, rate |-> r, timeout |-> q]

\* The throttle and the queue timeouts switched on and off, and the limit
\* raised and lowered, at run time.
TogglingConfigs == {Config(1, TRUE, 1, FALSE), Config(2, FALSE, 1, TRUE)}
TogglingInit == Config(2, FALSE, 1, TRUE)

\* One throttled configuration, never changed.
FixedConfigs == {Config(2, TRUE, 1, FALSE)}
FixedInit == Config(2, TRUE, 1, FALSE)
=============================================================================
