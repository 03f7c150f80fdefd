---------------------------- MODULE DeferredCall ----------------------------
(***************************************************************************)
(* What the helper promises to a thread that schedules an operation: the   *)
(* operation is executed once, by a single thread that executes one at a   *)
(* time, and it is over before the call returns.  A call that is refused,  *)
(* or for which there is nobody to execute it, executes nothing.           *)
(***************************************************************************)
CONSTANTS Clients

VARIABLE call  \* call[c]: how far c's call has come

Init == call = [c \in Clients |-> "none"]

Becomes(c, from, to) == call[c] = from /\ call' = [call EXCEPT ![c] = to]

Accept(c) == Becomes(c, "none", "accepted")
Execute(c) ==
  /\ \A d \in Clients : call[d] # "executing"
  /\ Becomes(c, "accepted", "executing")
Finish(c) == Becomes(c, "executing", "executed")
Return(c) == Becomes(c, "executed", "none")
Forget(c) == Becomes(c, "accepted", "none")

Next == \E c \in Clients : Accept(c) \/ Execute(c) \/ Finish(c) \/ Return(c) \/ Forget(c)

Spec == Init /\ [][Next]_call
=============================================================================
