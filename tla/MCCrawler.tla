----------------------------- MODULE MCCrawler -----------------------------
(***************************************************************************)
(* An instance of the whole crawler.  A batch of three thresholds, which   *)
(* one worker cannot hold at a time, is followed by one of a single one.   *)
(***************************************************************************)
EXTENDS Crawler

MCPolicies == << [hundredths |-> 0, mantissa |-> 0, shift |-> 0] >>

MCComputeIncrement(i, current, new, amount) == -2
=============================================================================
