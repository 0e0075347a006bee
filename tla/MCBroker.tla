------------------------------ MODULE MCBroker ------------------------------
(* Instance of Broker for TLC: two attempts on one lease, another lease that *)
(* may get the same GPU later, and an attempt on a second GPU whose witness  *)
(* names the process of an earlier one.                                      *)
EXTENDS Broker

CONSTANTS a1, a2, b1, l1, l2, m1, g1, g2

MCLeaseOf == [a \in Attempts |-> IF a = b1 THEN m1 ELSE l1]
MCGpuOf   == [l \in Leases |-> IF l = m1 THEN g2 ELSE g1]
MCProcess == [a \in Attempts |-> IF a = a1 THEN "p1" ELSE "p2"]
=============================================================================
