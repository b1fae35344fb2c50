---------------------------- MODULE MCIngestion ----------------------------
(* Small instances of Ingestion for TLC.                                   *)
EXTENDS Ingestion

CONSTANTS v1, v2, v3, a, x, y, sa, sx, sc, finance, literature, u1, u2

(* a is report.pdf, with two sidecars, report.pdf.meta.json and            *)
(* report.meta.json; x and y are generated names.                          *)
MCFullSidecar == [n \in Names |-> IF n = a THEN sa ELSE sx]
MCStemSidecar == [n \in Names |-> IF n = a THEN sc ELSE sx]

MCDomainOf == [v \in Versions |-> IF v = v2 THEN literature ELSE finance]
=============================================================================
