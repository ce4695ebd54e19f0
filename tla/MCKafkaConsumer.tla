--------------------------- MODULE MCKafkaConsumer ---------------------------
(* KafkaConsumer with two workers and a channel shorter than the partition. *)
EXTENDS KafkaConsumer, TLC

CONSTANTS w1, w2
TwoWorkers == {w1, w2}

(* The workers are alike; only the runs of invariants use the symmetry.     *)
WorkerSymmetry == Permutations(TwoWorkers)
=============================================================================
