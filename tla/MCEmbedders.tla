----------------------------- MODULE MCEmbedders ----------------------------
(* A small instance of Embedders for TLC: a domain with a profile, and one *)
(* that is not configured and gets the default.                            *)
EXTENDS Embedders, TLC

CONSTANTS t1, t2, finance, literature, manual

MCProfileOf == [d \in Domains |-> IF d = literature THEN literature ELSE finance]

MCSymmetry == Permutations(Threads)
=============================================================================
