---------------------------- MODULE MCQueueScan ----------------------------
(* A small instance of QueueScan for TLC: one file name, one sidecar each. *)
EXTENDS QueueScan

CONSTANTS v1, v2, a, x, sa, sx, finance, u1

MCSidecar == [n \in Names |-> IF n = a THEN sa ELSE sx]
MCDomainOf == [v \in Versions |-> finance]
=============================================================================
