----------------------------- MODULE MCEventProc -----------------------------
(* Two epochs: in the first a chain a1-a2 of validator A, an invalid event   *)
(* x1 on a1 and its child y1, in the second c1 and its child c2.             *)
EXTENDS EventProc

MCEpochOf == [e \in Event |-> IF e \in {"c1", "c2"} THEN 2 ELSE 1]

MCCreator == [e \in Event |-> CASE e \in {"a1", "a2", "c1"} -> "A"
                                [] e = "c2" -> "B"
                                [] OTHER -> "X"]

MCParents == [e \in Event |-> CASE e \in {"a2", "x1"} -> {"a1"}
                                [] e = "y1" -> {"x1"}
                                [] e = "c2" -> {"c1"}
                                [] OTHER -> {}]

MCLamport == [e \in Event |-> IF MCParents[e] = {} THEN 1 ELSE IF e = "y1" THEN 3 ELSE 2]
=============================================================================
