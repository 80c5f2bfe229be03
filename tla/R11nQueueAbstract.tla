-------------------------- MODULE R11nQueueAbstract --------------------------
(***************************************************************************)
(* What the per-resource queue set promises (spec 4.3), without queues,    *)
(* workers or client calls: pushes are QueuedR11ns whose lifecycle moves    *)
(* in single steps.  A push cancels the one waiting push of its            *)
(* DeploymentID; a waiting push starts when none of its DeploymentID is    *)
(* running; a running one completes.  Every DeploymentID that has a push   *)
(* to start or to complete eventually does so.                             *)
(***************************************************************************)
EXTENDS Integers, Sequences

CONSTANTS DIDs, MaxPushes

Kinds == {"Same", "Added", "Modified", "Removed"}

VARIABLE pushes

WithSt(d, st) == {i \in DOMAIN pushes : pushes[i].did = d /\ pushes[i].st = st}

Init == pushes = <<>>

\* A new push for d replaces the one waiting, if any.
Push(d, kind) ==
  LET new == Append(pushes, [did |-> d, kind |-> kind, st |-> "Created"])
  IN  /\ Len(pushes) < MaxPushes
      /\ pushes' = [i \in DOMAIN new |->
                      IF i \in WithSt(d, "Created") THEN [new[i] EXCEPT !.st = "Cancelled"]
                      ELSE new[i]]

\* The waiting push of d starts when none of d is running.
Start(d) ==
  /\ WithSt(d, "Started") = {}
  /\ \E i \in WithSt(d, "Created") : pushes' = [pushes EXCEPT ![i].st = "Started"]

\* The running push of d completes.
Complete(d) ==
  \E i \in WithSt(d, "Started") : pushes' = [pushes EXCEPT ![i].st = "Succeeded"]

Next ==
  \/ \E d \in DIDs, k \in Kinds : Push(d, k)
  \/ \E d \in DIDs : Start(d) \/ Complete(d)

Spec ==
  /\ Init /\ [][Next]_pushes
  /\ \A d \in DIDs : WF_pushes(Start(d)) /\ WF_pushes(Complete(d))

=============================================================================
