------------------------------ MODULE MCSidecar ------------------------------
(* Sidecar with a queue and a sender smaller than the load, and a body that *)
(* takes the process down.                                                  *)
EXTENDS Sidecar

CONSTANTS r1, r2, r3, w1, w2
ThreeRequests == {r1, r2, r3}
OneLethal == {r3}
TwoWorkers == {w1, w2}
=============================================================================
