------------------------------- MODULE MCGossip -------------------------------
(* Event e2 has e1 as parent.                                                *)
EXTENDS Gossip

MCParents == [e \in Event |-> IF e = "e2" THEN {"e1"} ELSE {}]
MCLamport == [e \in Event |-> IF e = "e2" THEN 2 ELSE 1]
=============================================================================
