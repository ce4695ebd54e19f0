-------------------------- MODULE MCKafkaProducer ---------------------------
(* Two posts of data and two of profiles against a producer that holds one  *)
(* message.                                                                 *)
EXTENDS KafkaProducer

CONSTANTS d1, d2, p1, p2
TwoData == {d1, d2}
TwoProfiles == {p1, p2}
=============================================================================
