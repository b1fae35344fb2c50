---------------------------- MODULE MCDownload ------------------------------
(* A small instance of Download for TLC: two sessions, one file name.      *)
EXTENDS Download

CONSTANTS v1, v2, a, x, sa, sx, finance, u1, f1, f2

MCSidecar == [n \in Names |-> IF n = a THEN sa ELSE sx]
MCDomainOf == [v \in Versions |-> finance]
=============================================================================
