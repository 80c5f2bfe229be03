------------------------------ MODULE R11nQueue ------------------------------
(***************************************************************************)
(* The per-resource queue set and the rectifications its workers run, with *)
(* the recording scheduler client of src/lib/dummy_rectification_client.go *)
(* as the capability they call.                                            *)
(*                                                                         *)
(* Push(diff) is atomic on the identity -> queue table: it creates the     *)
(* queue of a DeploymentID (and its worker), or makes the diff the one     *)
(* pending item, cancelling the item it replaces.  Each queue's worker is  *)
(* the handler of src/graph/server.go: it pops the pending item, Begins    *)
(* its rectification and Waits for it; the rectification makes the calls   *)
(* its diff kind implies; when it is done the outcome is published and the *)
(* worker pops the next item or tears the queue down.  Workers of distinct *)
(* DeploymentIDs run in parallel and share the one client, whose methods   *)
(* append to a slice without a lock: the read of the slice and the write   *)
(* of the longer one are two steps that other workers may come between.   *)
(***************************************************************************)
EXTENDS Integers, Sequences, FiniteSets

CONSTANTS DIDs,       \* DeploymentIDs
          MaxPushes,  \* bound on the number of Push calls
          NoSnap      \* no append in progress

Kinds == {"Same", "Added", "Modified", "Removed"}
\* Rectification lifecycle (spec 4.2); Failed is not reached, since the
\* client modelled here never returns an error.
States == {"Created", "Started", "Succeeded", "Cancelled"}
Slices == {"Created", "Deployed", "Deleted"}

VARIABLES
  pushes,     \* pushes[i]: the i-th QueuedR11n: [did, kind, st]
  queue,      \* queue[d]: live (queue and worker exist), inflight, pending
  todo,       \* todo[d]: the client calls the in-flight rectification has left
  snap,       \* snap[d]: the slice its client call has read, or NoSnap
  recorded    \* recorded[s]: DummyRectificationClient's slice s (push ids)

vars == <<pushes, queue, todo, snap, recorded>>

None == 0
NoQueue == [live |-> FALSE, inflight |-> None, pending |-> None]

-----------------------------------------------------------------------------
(* The rectification: what one diff does to the scheduler (spec 4.2).      *)

Calls(kind) ==
  CASE kind = "Added"    -> <<"PostRequest", "Deploy">>
    [] kind = "Modified" -> <<"Deploy">>
    [] kind = "Removed"  -> <<"DeleteRequest">>
    [] kind = "Same"     -> <<>>

\* The slice each method of DummyRectificationClient appends to.
SliceOf(call) ==
  CASE call = "PostRequest"   -> "Created"
    [] call = "Deploy"        -> "Deployed"
    [] call = "DeleteRequest" -> "Deleted"

SetSt(i, st) == [pushes EXCEPT ![i].st = st]

-----------------------------------------------------------------------------

Init ==
  /\ pushes = <<>>
  /\ queue = [d \in DIDs |-> NoQueue]
  /\ todo = [d \in DIDs |-> <<>>]
  /\ snap = [d \in DIDs |-> NoSnap]
  /\ recorded = [s \in Slices |-> <<>>]

\* Push: create the queue and its worker, or replace the pending item (the
\* newest diff wins and the replaced one is Cancelled), or become the one
\* pending successor of the in-flight item.
Push(d, kind) ==
  LET i == Len(pushes) + 1
      q == queue[d]
      new == Append(pushes, [did |-> d, kind |-> kind, st |-> "Created"])
  IN  /\ Len(pushes) < MaxPushes
      /\ queue' = [queue EXCEPT ![d] = [live |-> TRUE, inflight |-> q.inflight, pending |-> i]]
      /\ pushes' = IF q.live /\ q.pending # None
                     THEN [new EXCEPT ![q.pending].st = "Cancelled"]
                     ELSE new
      /\ UNCHANGED <<todo, snap, recorded>>

\* The worker pops the pending item and the handler calls
\* qr.Rectification.Begin, which starts the diff's calls.
Begin(d) ==
  LET q == queue[d] IN
  /\ q.live /\ q.inflight = None /\ q.pending # None
  /\ queue' = [queue EXCEPT ![d] = [@ EXCEPT !.inflight = q.pending, !.pending = None]]
  /\ pushes' = SetSt(q.pending, "Started")
  /\ todo' = [todo EXCEPT ![d] = Calls(pushes[q.pending].kind)]
  /\ UNCHANGED <<snap, recorded>>

\* A client method (Deploy, PostRequest, DeleteRequest) reads its slice for
\* t.X = append(t.X, ...).
ClientRead(d) ==
  /\ todo[d] # <<>> /\ snap[d] = NoSnap
  /\ snap' = [snap EXCEPT ![d] = recorded[SliceOf(Head(todo[d]))]]
  /\ UNCHANGED <<pushes, queue, todo, recorded>>

\* ... and stores the slice read plus its record, then returns nil.
ClientAppend(d) ==
  /\ snap[d] # NoSnap
  /\ recorded' = [recorded EXCEPT ![SliceOf(Head(todo[d]))] =
                    Append(snap[d], queue[d].inflight)]
  /\ snap' = [snap EXCEPT ![d] = NoSnap]
  /\ todo' = [todo EXCEPT ![d] = Tail(@)]
  /\ UNCHANGED <<pushes, queue>>

\* Mutant: the queue is torn down after a completion even with an item
\* pending.
FinishAlwaysTearDown(d) ==
  LET q == queue[d] IN
  /\ q.inflight # None /\ todo[d] = <<>> /\ snap[d] = NoSnap
  /\ pushes' = SetSt(q.inflight, "Succeeded")
  /\ queue' = [queue EXCEPT ![d] = NoQueue]
  /\ UNCHANGED <<todo, snap, recorded>>

\* Wait returns the outcome, the queue publishes it, and the worker either
\* goes on to the pending item or tears the queue down.
Finish(d) ==
  LET q == queue[d] IN
  /\ q.inflight # None /\ todo[d] = <<>> /\ snap[d] = NoSnap
  /\ pushes' = SetSt(q.inflight, "Succeeded")
  /\ queue' = [queue EXCEPT ![d] = IF q.pending = None THEN NoQueue
                                    ELSE [@ EXCEPT !.inflight = None]]
  /\ UNCHANGED <<todo, snap, recorded>>

\* Every push made and every queue drained.
Quiescent ==
  /\ Len(pushes) = MaxPushes
  /\ \A d \in DIDs : ~queue[d].live
  /\ UNCHANGED vars

Worker(d) == Begin(d) \/ ClientRead(d) \/ ClientAppend(d) \/ Finish(d)

Next ==
  \/ \E d \in DIDs, k \in Kinds : Push(d, k)
  \/ \E d \in DIDs : Worker(d)
  \/ Quiescent

\* Each worker is a goroutine that is never stopped for good while it can
\* step; the client never blocks.  Pushes come from callers and may stop.
Fairness == \A d \in DIDs : WF_vars(Worker(d))

Spec == Init /\ [][Next]_vars /\ Fairness

-----------------------------------------------------------------------------
(* Properties.                                                             *)

\* The client records exactly the calls of every finished rectification:
\* PostRequest and Deploy for Added, Deploy for Modified, DeleteRequest for
\* Removed, nothing for Same.
\* The slices each kind leaves one record in (spec 4.2).
KindRecords == [Same |-> {}, Added |-> {"Created", "Deployed"},
                Modified |-> {"Deployed"}, Removed |-> {"Deleted"}]
Count(s, i) == Cardinality({n \in DOMAIN recorded[s] : recorded[s][n] = i})
RecordedCallsMatchKinds ==
  \A i \in DOMAIN pushes :
    pushes[i].st = "Succeeded" =>
      \A s \in Slices :
        Count(s, i) = IF s \in KindRecords[pushes[i].kind] THEN 1 ELSE 0


\* The queue set implements its abstract promise (R11nQueueAbstract): with
\* the queues, the teardown and the client calls hidden, every step of
\* Push, Begin and Finish is a step of the abstract lifecycle, and the
\* fair workers give the abstract fairness -- a waiting push of an ID
\* with nothing running starts, a running one completes.
Abs == INSTANCE R11nQueueAbstract
QueueRefinesAbstract == Abs!Spec
=============================================================================
