------------------------------ MODULE MCKWatch ------------------------------
(* Instances of the file passing method for TLC, with the ring cut to three *)
(* entries (-h 3) so that few dates turn it round.                          *)
EXTENDS KWatch

Types2 == 0..1
Dates4 == 1..4
AppDeath == [p \in {"kwatcher", "app"} |-> IF p = "app" THEN 1 ELSE 0]
AnyDeath == [p \in {"kwatcher", "app"} |-> 1]
=============================================================================
