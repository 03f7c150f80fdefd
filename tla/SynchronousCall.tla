-------------------------- MODULE SynchronousCall --------------------------
(***************************************************************************)
(* What the audio path promises, without locks, events or a second thread: *)
(* a process cycle copies the inputs in, calls the host's bufferSwitch on  *)
(* one half, waits until it has returned, and copies the outputs out of    *)
(* that half.  The host is in one bufferSwitch at a time.                  *)
(***************************************************************************)
CONSTANTS Drivers, NoDriver

VARIABLES
  phase,  \* phase[d]: how far d's process cycle has come
  half,   \* half[d]: the half that d's cycle works on
  host    \* the call the host is in: for which driver, on which half

vars == <<phase, half, host>>

NoCall == [This |-> NoDriver, buffer_index |-> 0]

Init ==
  /\ phase = [d \in Drivers |-> "idle"]
  /\ half = [d \in Drivers |-> 0]
  /\ host = NoCall

Advance(d, from, to) == phase[d] = from /\ phase' = [phase EXCEPT ![d] = to]

Begin(d) ==
  /\ Advance(d, "idle", "in")
  /\ \E h \in {0, 1} : half' = [half EXCEPT ![d] = h]
  /\ UNCHANGED host

Call(d) ==
  /\ Advance(d, "in", "called")
  /\ \E h \in {0, 1} : half' = [half EXCEPT ![d] = h]
  /\ UNCHANGED host

HostEnters(d) ==
  /\ phase[d] = "called"
  /\ host = NoCall
  /\ host' = [This |-> d, buffer_index |-> half[d]]
  /\ UNCHANGED <<phase, half>>

HostReturns(d) ==
  /\ host.This = d
  /\ host' = NoCall
  /\ Advance(d, "called", "answered")
  /\ UNCHANGED half

Resume(d) == Advance(d, "answered", "out") /\ UNCHANGED <<half, host>>
End(d) == Advance(d, "out", "idle") /\ UNCHANGED <<half, host>>

Cycle(d) == Call(d) \/ HostEnters(d) \/ HostReturns(d) \/ Resume(d) \/ End(d)

Next == \E d \in Drivers : Begin(d) \/ Cycle(d)

\* A cycle that has begun goes on; whether another one begins is PipeWire's.
Spec == Init /\ [][Next]_vars /\ \A d \in Drivers : WF_vars(Cycle(d))
=============================================================================
