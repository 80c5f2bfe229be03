\* One DeploymentID, five pushes, a fair worker: every push is eventually
\* resolved, the queue refines R11nQueueAbstract, and with one worker at a
\* time the dummy client records every call.
CONSTANTS
  d1 = d1  d2 = d2  NoSnap = NoSnap
  DIDs <- OneDID
  MaxPushes = 5
SPECIFICATION Spec
PROPERTY QueueRefinesAbstract
