--------------------------- MODULE MCAdaptiveBatch ---------------------------
(* AdaptiveBatch on sizes that fit a small payload limit.                  *)
EXTENDS AdaptiveBatch

(* Small and large events around the initial average.                      *)
SmallAndLarge == {15, 40}
=============================================================================
