----------------------------- MODULE MCR11nQueue -----------------------------
(* Model-checking instance of R11nQueue: one DeploymentID for a worker on   *)
(* its own, two for workers running in parallel on the shared client.       *)
EXTENDS R11nQueue, TLC

CONSTANTS d1, d2

OneDID  == {d1}
TwoDIDs == {d1, d2}
=============================================================================
