------------------------------ MODULE Frontier ------------------------------
(***************************************************************************)
(* What the batch loop promises, without batches, workers or channels.     *)
(* IDs above the frontier are delivered (fetched by a probe) or assigned   *)
(* (left to the subordinate workers), each at most once.  The frontier     *)
(* moves to the highest delivered ID, and every ID it passes is delivered  *)
(* or assigned, unless the whole stretch is skipped for being too long.    *)
(***************************************************************************)
EXTENDS Integers

CONSTANTS
  InitialID,
  MaySkip     \* are batches limited?

VARIABLES frontier, delivered, assigned, skipped

frontierVars == <<frontier, delivered, assigned, skipped>>

Passed(to) == frontier + 1 .. to

Open(to) == Passed(to) \ (delivered \cup assigned)

FrontierInit ==
  /\ frontier = InitialID
  /\ delivered = {} /\ assigned = {} /\ skipped = {}

Deliver(id) ==
  /\ id > frontier
  /\ id \notin delivered \cup assigned
  /\ delivered' = delivered \cup {id}
  /\ UNCHANGED <<frontier, assigned, skipped>>

\* Only IDs below one that is known to exist are assigned.
Assign(id) ==
  /\ id > frontier
  /\ id \notin delivered \cup assigned
  /\ \E hit \in delivered : id < hit
  /\ assigned' = assigned \cup {id}
  /\ UNCHANGED <<frontier, delivered, skipped>>

Advance(to) ==
  /\ to \in delivered
  /\ to > frontier
  /\ \A id \in delivered : id <= to
  /\ \/ Open(to) = {}
     \/ MaySkip /\ Passed(to) \cap assigned = {}
  /\ frontier' = to
  /\ skipped' = skipped \cup Open(to)
  /\ UNCHANGED <<delivered, assigned>>

FrontierNext ==
  \/ \E id \in delivered' : Deliver(id)
  \/ \E id \in assigned' : Assign(id)
  \/ Advance(frontier')

FrontierSpec == FrontierInit /\ [][FrontierNext]_frontierVars
=============================================================================
