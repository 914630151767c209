---------------------------- MODULE ItemDelivery ----------------------------
(***************************************************************************)
(* What the item pipeline promises for each item, without workers or       *)
(* channels: an item that was handed out is delivered to the websocket     *)
(* worker or given up, once and for good, and it is given up only after    *)
(* the first try and MaxRetriesPerItem retries have all failed.            *)
(***************************************************************************)
EXTENDS Naturals

CONSTANTS Items, MaxRetriesPerItem

VARIABLES
  status,  \* of each item
  tries    \* failed tries of a pending item

deliveryVars == <<status, tries>>

Become(i, s) ==
  /\ status' = [status EXCEPT ![i] = s]
  /\ tries'  = [tries EXCEPT ![i] = 0]

HandOut(i) == status[i] = "unseen" /\ Become(i, "pending")

FailedTry(i) ==
  /\ status[i] = "pending"
  /\ tries[i] <= MaxRetriesPerItem
  /\ tries' = [tries EXCEPT ![i] = @ + 1]
  /\ UNCHANGED status

\* Thresholds that were hit are delivered without having been handed out.
Deliver(i) == status[i] \in {"unseen", "pending"} /\ Become(i, "delivered")

GiveUp(i) ==
  /\ status[i] = "pending"
  /\ tries[i] = 1 + MaxRetriesPerItem
  /\ Become(i, "lost")

DeliveryInit ==
  /\ status = [i \in Items |-> "unseen"]
  /\ tries  = [i \in Items |-> 0]

DeliveryNext == \E i \in Items : HandOut(i) \/ FailedTry(i) \/ Deliver(i) \/ GiveUp(i)

DeliverySpec == DeliveryInit /\ [][DeliveryNext]_deliveryVars
=============================================================================
