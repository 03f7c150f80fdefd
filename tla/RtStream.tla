------------------------------ MODULE RtStream ------------------------------
(***************************************************************************)
(* The life of one stream of RtAudio on any of its back ends: a host that  *)
(* opens, starts, stops, aborts and closes in any order, and the thread or *)
(* the driver that calls back.                                             *)
(*                                                                         *)
(* A run ends where a step faults: what the program does then is not       *)
(* defined.  The host is one thread; RtAudio asks for no more.             *)
(***************************************************************************)
EXTENDS RtThreads, RtDrivers

MayGoOn == fault = "none"

HostStep ==
  /\ MayGoOn
  /\ \/ OpenSecond \/ OpenUnwinds
     \/ Faults("host")
     \/ Threaded /\ (ThreadMethods \/ ThreadStops("host"))
     \/ ~Threaded /\ (DriverMethodCalls \/ DriverStops("host"))

HostCalls ==
  /\ MayGoOn
  /\ \/ \E o \in BOOLEAN : OpenFirst(o)
     \/ \E method \in {"start", "stop", "abort", "close"} : Call(method)

WorkerStep ==
  /\ MayGoOn
  /\ \/ Faults("worker")
     \/ Threaded /\ (WorkerThread \/ ThreadStops("worker"))
     \/ ~Threaded /\ WorkerDriver

StopperStep(s) == MayGoOn /\ ~Threaded /\ (Faults(s) \/ DriverStops(s))

Next == HostStep \/ HostCalls \/ WorkerStep \/ \E s \in Stoppers : StopperStep(s)

\* Every thread runs, the driver goes on calling a stream that is active, the
\* callback of the user returns.  Nobody has to call a method.
Fairness ==
  /\ WF_vars(HostStep)
  /\ WF_vars(WorkerStep)
  /\ \A s \in Stoppers : WF_vars(StopperStep(s))

Init == RtInit

Spec == Init /\ [][Next]_vars

FairSpec == Spec /\ Fairness

-----------------------------------------------------------------------------

States == {"CLOSED", "STOPPED", "RUNNING", "STOPPING"}

Places ==
  {"idle", "second"}                                           \* the host, between methods
  \cup {"start", "starting", "signal", "resetting"}            \* startStream
  \cup {"stop", "abort", "marking", "halting", "draining"}     \* stopStream and abortStream
  \cup {"counting", "dozing", "waiting", "deactivating"}
  \cup {"close", "waking", "joining"}                          \* closeStream
  \cup {"none", "loop", "event", "enter", "sleep", "call"}     \* the thread
  \cup {"out", "entered", "in", "io"}                          \* the driver

\* Every variable has its type, and a stream that is not closed has a handle:
\* the error paths of probeDeviceOpen and closeStream never leave the one
\* without the other, unless a stop goes on while the stream is closed.
TypeOK ==
  /\ api \in Apis
  /\ outputs \in BOOLEAN
  /\ state \in States
  /\ handle \in {"none", "live", "freed"}
  /\ pc \in [Procs -> Places]
  /\ isRunning \in BOOLEAN /\ runnable \in BOOLEAN /\ woken \in BOOLEAN
  /\ drain \in Nat
  /\ internal \in BOOLEAN /\ event \in BOOLEAN /\ active \in BOOLEAN
  /\ ret \in Returns \cup {0}
  /\ fault \in {"none", "handle", "destroyed", "uncaught"}
  /\ wrote \in BOOLEAN /\ quiet \in BOOLEAN
  /\ unwound \in BOOLEAN /\ asked \in BOOLEAN /\ hurried \in BOOLEAN
  /\ state # "CLOSED" => handle = "live" \/ hurried

\* No thread uses a handle that closeStream has deleted, whatever the order of
\* calls: the thread is joined or the driver waited for first.  Two ways to fail
\* are left, both in the code: the error path of a second direction, and a host
\* that goes on during a stop that the callback of the user has asked for.
NoFault == fault # "none" => unwound \/ hurried

\* When stopStream or abortStream has returned to the host no more samples are
\* moved, until it starts again.
QuietAfterStop == [][wrote' /\ ~wrote => ~quiet \/ hurried]_vars

\* Waits for a signal that can come before the wait: OSS joins a thread that
\* sleeps on, JACK and CoreAudio sleep in stopStream.
MayMissSignal ==
  \/ api = "OSS" /\ pc["host"] = "joining"
  \/ api \in {"JACK", "CORE"} /\ pc["host"] = "waiting"

\* Every method returns: the thread is always woken for closeStream, the output
\* always drains for stopStream.  Not where a signal is lost, and not when the
\* callback of the user asks for the stop at the time the host does.
CallsReturn ==
  pc["host"] # "idle" ~> pc["host"] = "idle" \/ fault # "none" \/ MayMissSignal \/ asked

\* A stream that runs calls its user, or stops running.
StartIsHeard ==
  state = "RUNNING" ~> pc["worker"] = "in" \/ state # "RUNNING" \/ fault # "none" \/ hurried \/ api = "OSS"
=============================================================================
