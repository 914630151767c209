----------------------- MODULE MCThresholdsController -----------------------
(***************************************************************************)
(* The controller with the four policies of config.yml:                    *)
(*   0.9  NewTimestamp >= CurrentTimestamp+500 ?                           *)
(*            max(ThresholdsAmount * 0.25, 2) : 1                          *)
(*   0.5  0          0.3  -1          0  -0.25 * ThresholdsAmount          *)
(* A result is cut towards zero when it becomes an int32.                  *)
(***************************************************************************)
EXTENDS ThresholdsController

CONSTANT MaxAmount   \* bound on the amounts that are explored

Policy(h, m, s) == [hundredths |-> h, mantissa |-> m, shift |-> s]

MCPolicies == << Policy(90, 15099494, 24), Policy(50, 8388608, 24),
                 Policy(30, 10066330, 25), Policy(0, 0, 0) >>

MCComputeIncrement(i, current, new, amount) ==
  CASE i = 1 -> IF new >= current + 500 THEN LargerOf(amount \div 4, 2) ELSE 1
    [] i = 2 -> 0
    [] i = 3 -> -1
    [] i = 4 -> -(amount \div 4)

BoundedNext ==
  \/ ReportMiss
  \/ ReportHit /\ thresholdsAmount' <= MaxAmount

\* What WorkersManagerProofs assumes of the increments of a configuration holds of
\* these, for the largest pool.
ASSUME IncrementsFitLargestPool ==
  \A i \in DOMAIN MCPolicies, c \in Timestamps \cup {MaxTimestamp},
     n \in Timestamps, a \in 1 .. 3 * 254 :
       a + MCComputeIncrement(i, c, n, a) < Uint16Range

\* They reach the cut to 16 bits for larger ones: this increment makes the amount 0.
ASSUME CutReachesZero == 52429 + MCComputeIncrement(1, 0, 600, 52429) = Uint16Range

BoundedSpec == ControllerInit /\ [][BoundedNext]_controllerVars
=============================================================================
