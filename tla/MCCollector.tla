----------------------------- MODULE MCCollector -----------------------------
(* Collector with a few events of two sizes.                                *)
EXTENDS Collector

SmallAndLarge == {2, 20}
=============================================================================
