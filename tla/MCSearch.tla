----------------------------- MODULE MCSearch -------------------------------
(* A small instance of Search for TLC: two documents of two domains.       *)
EXTENDS Search

CONSTANTS v1, v2, a, x, sa, sx, finance, literature, u1

MCSidecar == [n \in Names |-> IF n = a THEN sa ELSE sx]
MCDomainOf == [v \in Versions |-> IF v = v2 THEN literature ELSE finance]
=============================================================================
