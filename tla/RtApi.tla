------------------------------- MODULE RtApi --------------------------------
(***************************************************************************)
(* One stream of RtAudio and what all back ends have in common about its   *)
(* life: the state, the handle, the processes that touch them, and         *)
(* openStream.  RtThreads adds the back ends that have a callback thread   *)
(* of their own (ALSA, PulseAudio, OSS), RtDrivers those that are called   *)
(* by their driver (ASIO, JACK, CoreAudio).                                *)
(*                                                                         *)
(* A section under stream_.mutex is one step.  What the code does outside  *)
(* of it, the tests and changes of the state first of all, is a step of    *)
(* its own.                                                                *)
(***************************************************************************)
EXTENDS Naturals

CONSTANTS
  Apis,     \* back ends
  Stoppers, \* threads for the stop that ASIO and JACK start for the callback;
            \* their number bounds how many are alive at the same time
  Returns   \* what the callback of the user may return: 0, 1 (stop), 2 (abort)

ASSUME ReturnsAssumption == Returns \subseteq 0..2

ASSUME StoppersAssumption == "host" \notin Stoppers /\ "worker" \notin Stoppers

VARIABLES
  api,
  outputs,    \* the mode is OUTPUT or DUPLEX
  state,      \* stream_.state
  handle,     \* stream_.apiHandle: "none", "live", or "freed" under its users
  pc,         \* where every process is
  isRunning,  \* callbackInfo.isRunning
  runnable,   \* of the handle
  woken,      \* the condition variable has been signalled to who waits on it
  drain,      \* drainCounter
  internal,   \* internalDrain
  event,      \* the event of ASIO
  active,     \* the driver calls
  ret,        \* what the callback has returned last
  fault,      \* a step has used what is gone
  wrote,      \* samples were moved since the callback was called
  quiet,      \* the host's stop has returned and it has not started again
  unwound,    \* the error path of a second direction has been taken
  asked,      \* a stop that the callback of the user asks for has begun
  hurried     \* the host has started or closed during a stop it has not asked for

shared == <<state, handle, fault>>
threads == <<isRunning, runnable>>
drivers == <<drain, internal, event, active>>
history == <<unwound, asked, hurried>>
vars == <<api, outputs, shared, pc, threads, woken, drivers, ret, wrote, quiet, history>>

Procs == {"host", "worker"} \cup Stoppers

Threaded == api \in {"ALSA", "PULSE", "OSS"}

\* Where a process goes when it returns from a method.
Rest(p) ==
  IF p = "host" THEN "idle" ELSE IF p # "worker" THEN "none" ELSE IF Threaded THEN "loop" ELSE "out"

Goto(p, l) == pc' = [pc EXCEPT ![p] = l]

\* A stop that the host has not asked for goes on.
StopsItself ==
  \/ \E s \in Stoppers : pc[s] # "none"
  \/ pc["worker"] \notin {"none", "out", "entered", "in", "io"}

-----------------------------------------------------------------------------

RtInit ==
  /\ api \in Apis
  /\ outputs = FALSE
  /\ state = "CLOSED"
  /\ handle = "none"
  /\ pc = [p \in Procs |-> IF p = "host" THEN "idle" ELSE "none"]
  /\ isRunning = FALSE /\ runnable = FALSE /\ woken = FALSE
  /\ drain = 0 /\ internal = FALSE /\ event = FALSE /\ active = FALSE
  /\ ret = 0
  /\ fault = "none"
  /\ wrote = FALSE /\ quiet = FALSE
  /\ unwound = FALSE /\ asked = FALSE /\ hurried = FALSE

\* The first direction is set up: a new handle and, for the back ends that have
\* one, the thread.  (When it fails nothing is left behind.)  A thread that an
\* earlier openStream has left behind is not followed any further.
OpenFirst(o) ==
  /\ pc["host"] = "idle"
  /\ state = "CLOSED"
  /\ pc["worker"] = "none"
  /\ outputs' = o
  /\ state' = "STOPPED"
  /\ handle' = "live"
  /\ pc' = [pc EXCEPT !["host"] = "second", !["worker"] = Rest("worker")]
  /\ isRunning' = Threaded
  /\ runnable' = FALSE
  /\ drain' = 0 /\ internal' = FALSE /\ event' = FALSE
  /\ UNCHANGED <<api, fault, woken, active, ret, wrote, quiet, history>>

\* A second direction is not asked for or is set up too, or it is refused before
\* anything was touched and openStream closes the stream.
OpenSecond ==
  /\ pc["host"] = "second"
  /\ \E next \in {"idle"} \cup (IF outputs THEN {"close"} ELSE {}) : Goto("host", next)
  /\ UNCHANGED <<api, outputs, shared, threads, woken, drivers, ret, wrote, quiet, history>>

\* Plausible slip: the stream is not marked as closed.
UnwindsOpen == state

UnwoundState == "CLOSED"

\* The second direction fails where the handle is in use already (no memory for
\* ALSA, OSS and CoreAudio; PulseAudio refuses to connect): the error path deletes
\* it, under the thread if there is one, and the closeStream of openStream finds a
\* closed stream.
OpenUnwinds ==
  /\ pc["host"] = "second"
  /\ outputs
  /\ Threaded \/ api = "CORE"
  /\ handle' = "freed"
  /\ state' = UnwoundState
  /\ isRunning' = (isRunning /\ api # "PULSE")
  /\ fault' = IF pc["worker"] = "sleep" THEN "destroyed" ELSE fault
  /\ unwound' = (unwound \/ Threaded)
  /\ pc' = [pc EXCEPT !["host"] = "idle", !["worker"] = IF Threaded THEN @ ELSE "none"]
  /\ UNCHANGED <<api, outputs, runnable, woken, drivers, ret, wrote, quiet, asked, hurried>>

\* A method is called.
Call(method) ==
  /\ pc["host"] = "idle"
  /\ Goto("host", method)
  /\ quiet' = (quiet /\ method # "start")
  /\ UNCHANGED <<api, outputs, shared, threads, woken, drivers, ret, wrote, history>>

\* It returns at once: verifyStream and the first lines of every method, for a
\* stream that is closed, running or stopped already.  An exception in a thread
\* that nobody catches ends the program.
Refuses(p, states) ==
  /\ state \in states
  /\ Goto(p, Rest(p))
  /\ fault' = IF p # "host" /\ state = "CLOSED" THEN "uncaught" ELSE fault
  /\ quiet' = (quiet \/ (p = "host" /\ state = "STOPPED"))
  /\ UNCHANGED <<api, outputs, state, handle, threads, woken, drivers, ret, wrote, history>>

\* Where a process uses the handle next.
AtHandle(p) ==
  pc[p] \in
    IF Threaded THEN {"enter", "call", "io", "halting"}
    ELSE {"entered", "io", "resetting", "draining", "counting", "waiting"}
         \cup (IF api = "ASIO" THEN {} ELSE {"halting"})

\* It is gone.
Faults(p) ==
  /\ AtHandle(p)
  /\ handle # "live"
  /\ fault' = "handle"
  /\ UNCHANGED <<api, outputs, state, handle, pc, threads, woken, drivers, ret, wrote, quiet, history>>

\* A signal is lost when nobody sleeps.
Signalled == woken \/ pc["worker"] = "sleep"
=============================================================================
