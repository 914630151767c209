-------------------------- MODULE MCWorkersManager --------------------------
(***************************************************************************)
(* Instances of the batch loop.  The two policies let the amount grow by   *)
(* one below GrowthLimit when at least half of the thresholds were         *)
(* reached, and shrink by one otherwise, as expressions on                 *)
(* ThresholdsAmount in config.yml can say.                                 *)
(***************************************************************************)
EXTENDS WorkersManager

CONSTANT GrowthLimit

MCPolicies == << [hundredths |-> 50, mantissa |-> 8388608, shift |-> 24],
                 [hundredths |-> 0, mantissa |-> 0, shift |-> 0] >>

MCComputeIncrement(i, current, new, amount) ==
  CASE i = 1 -> IF amount < GrowthLimit THEN 1 ELSE -1
    [] i = 2 -> -1

=============================================================================
