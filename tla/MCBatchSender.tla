---------------------------- MODULE MCBatchSender ----------------------------
(* BatchSender with a few events of two sizes.                             *)
EXTENDS BatchSender

SmallAndLarge == {2, 20}
=============================================================================
