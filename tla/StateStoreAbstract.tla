------------------------- MODULE StateStoreAbstract -------------------------
(***************************************************************************)
(* What the desired-state store promises its callers (spec 4.5, 5, 6):     *)
(* WriteState(S) is one atomic step.  A call either returns nil, and the   *)
(* persisted state is then S, or returns an error and the persisted state  *)
(* is unchanged -- "the entire write fails atomically".  Nothing but a     *)
(* successful call changes the persisted state.                            *)
(***************************************************************************)
CONSTANTS Writers, States

VARIABLES
  persisted,  \* the state ReadState would return
  calling,    \* the writers inside a WriteState call
  req,        \* req[w]: the state w's last call asked to write
  result      \* result[w]: what w's last call returned

vars == <<persisted, calling, req, result>>

Init ==
  /\ persisted \in States
  /\ calling = {}
  /\ req \in [Writers -> States]
  /\ result = [w \in Writers |-> "none"]

\* A call starts.
Call(w, s) ==
  /\ w \notin calling
  /\ calling' = calling \cup {w}
  /\ req' = [req EXCEPT ![w] = s]
  /\ result' = [result EXCEPT ![w] = "none"]
  /\ UNCHANGED persisted

\* A call is refused before it starts.
Refused(w, s) ==
  /\ w \notin calling
  /\ req' = [req EXCEPT ![w] = s]
  /\ result' = [result EXCEPT ![w] = "err"]
  /\ UNCHANGED <<persisted, calling>>

\* The call's state becomes the persisted state and the call returns nil.
Apply(w) ==
  /\ w \in calling
  /\ persisted' = req[w]
  /\ calling' = calling \ {w}
  /\ result' = [result EXCEPT ![w] = "ok"]
  /\ UNCHANGED req

\* The call returns an error and leaves nothing behind.
Abort(w) ==
  /\ w \in calling
  /\ calling' = calling \ {w}
  /\ result' = [result EXCEPT ![w] = "err"]
  /\ UNCHANGED <<persisted, req>>

Next ==
  \E w \in Writers :
    \/ \E s \in States : Call(w, s) \/ Refused(w, s)
    \/ Apply(w)
    \/ Abort(w)

Spec == Init /\ [][Next]_vars

=============================================================================
