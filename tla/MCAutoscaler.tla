---------------------------- MODULE MCAutoscaler ----------------------------
(* Autoscaler for TLC: a job of one node and a job of two. *)
EXTENDS Autoscaler

CONSTANTS a, b

MCNumNodes == [j \in Jobs |-> IF j = a THEN 1 ELSE 2]

=============================================================================
