----------------------------- MODULE RtThreads ------------------------------
(***************************************************************************)
(* The back ends of RtAudio with a callback thread: ALSA, PulseAudio and   *)
(* OSS.  The thread sleeps on a condition variable while the stream is     *)
(* stopped; ALSA and PulseAudio guard the wait with `runnable', OSS does   *)
(* not.                                                                    *)
(***************************************************************************)
EXTENDS RtApi

\* alsaCallbackHandler, pulseaudio_callback, ossCallbackHandler
ThreadLoops ==
  /\ pc["worker"] = "loop"
  /\ Goto("worker", IF isRunning THEN "event" ELSE "none")
  /\ UNCHANGED <<api, outputs, shared, threads, woken, drivers, ret, wrote, quiet, history>>

\* callbackEvent looks at the state, without the mutex.
EventBegins ==
  /\ pc["worker"] = "event"
  /\ Goto("worker", CASE state = "STOPPED" -> "enter" [] state = "CLOSED" -> "loop" [] OTHER -> "call")
  /\ UNCHANGED <<api, outputs, shared, threads, woken, drivers, ret, wrote, quiet, history>>

Guarded == api # "OSS"

\* It waits for the start, and looks at the state once more under the mutex.
ThreadWaits ==
  /\ \/ pc["worker"] = "enter"
     \/ pc["worker"] = "sleep" /\ woken
  /\ handle = "live"
  /\ woken' = FALSE
  /\ Goto("worker",
          IF (IF Guarded THEN ~runnable ELSE pc["worker"] = "enter") THEN "sleep"
          ELSE IF state = "RUNNING" THEN "call" ELSE "loop")
  /\ UNCHANGED <<api, outputs, shared, threads, drivers, ret, wrote, quiet, history>>

\* The callback of the user, with no lock held.
ThreadCalls ==
  /\ pc["worker"] = "call"
  /\ handle = "live"
  /\ Goto("worker", "in")
  /\ wrote' = FALSE
  /\ UNCHANGED <<api, outputs, shared, threads, woken, drivers, ret, quiet, history>>

\* 2 has the stream aborted by this thread, before any samples are moved.
ThreadCallReturns ==
  /\ pc["worker"] = "in"
  /\ ret' \in Returns
  /\ Goto("worker", IF ret' = 2 THEN "abort" ELSE "io")
  /\ UNCHANGED <<api, outputs, shared, threads, woken, drivers, wrote, quiet, history>>

\* Plausible slip: the state is not looked at again under the mutex.
MovesAlways == TRUE

MayMove == IF api = "PULSE" THEN state = "RUNNING" ELSE state # "STOPPED"

\* Samples are moved under the mutex, then 1 has the stream stopped.
ThreadMoves ==
  /\ pc["worker"] = "io"
  /\ handle = "live"
  /\ wrote' = (wrote \/ MayMove)
  /\ Goto("worker", IF ret = 1 THEN "stop" ELSE "loop")
  /\ UNCHANGED <<api, outputs, shared, threads, woken, drivers, ret, quiet, history>>

-----------------------------------------------------------------------------
(* The methods.                                                            *)

ThreadStart ==
  /\ pc["host"] = "start"
  /\ \/ Refuses("host", {"CLOSED", "RUNNING"})
     \/ /\ state \notin {"CLOSED", "RUNNING"}
        /\ Goto("host", "starting")
        /\ UNCHANGED <<api, outputs, shared, threads, woken, drivers, ret, wrote, quiet, history>>

\* Plausible slip: the state alone is taken to let the thread run.
StaysAsleep == runnable

Released == runnable \/ Guarded

\* Under the mutex.  Also an ALSA device that cannot be prepared has the thread
\* woken, without a state for it to run in.  OSS signals after the mutex.
ThreadStarts ==
  /\ pc["host"] = "starting"
  /\ state' \in {"RUNNING"} \cup (IF api = "ALSA" THEN {state} ELSE {})
  /\ runnable' = Released
  /\ woken' = IF Guarded THEN Signalled ELSE woken
  /\ Goto("host", IF Guarded THEN "idle" ELSE "signal")
  /\ UNCHANGED <<api, outputs, handle, fault, isRunning, drivers, ret, wrote, quiet, history>>

OssSignals ==
  /\ pc["host"] = "signal"
  /\ woken' = Signalled
  /\ Goto("host", "idle")
  /\ UNCHANGED <<api, outputs, shared, threads, drivers, ret, wrote, quiet, history>>

\* stopStream and abortStream, of the host or of the thread: ALSA and PulseAudio
\* mark the stream as stopped before they take the mutex, OSS under it.
ThreadStop(p) ==
  /\ pc[p] \in {"stop", "abort"}
  /\ \/ Refuses(p, {"CLOSED", "STOPPED"})
     \/ /\ state \notin {"CLOSED", "STOPPED"}
        /\ Goto(p, IF Guarded THEN "marking" ELSE "halting")
        /\ UNCHANGED <<api, outputs, shared, threads, woken, drivers, ret, wrote, quiet, history>>

ThreadMarks(p) ==
  /\ pc[p] = "marking"
  /\ state' = "STOPPED"
  /\ Goto(p, "halting")
  /\ UNCHANGED <<api, outputs, handle, fault, threads, woken, drivers, ret, wrote, quiet, history>>

Halts(p, runs, states) ==
  /\ pc[p] = "halting"
  /\ handle = "live"
  /\ runnable' = runs
  /\ state' \in states
  /\ Goto(p, Rest(p))
  /\ quiet' = (quiet \/ (p = "host" /\ state' = "STOPPED"))
  /\ UNCHANGED <<api, outputs, handle, fault, isRunning, woken, drivers, ret, wrote, history>>

AlsaHalts(p) == api = "ALSA" /\ Halts(p, FALSE, {state})

\* A device that cannot be drained leaves the state as it is.
PulseHalts(p) == api = "PULSE" /\ Halts(p, FALSE, {state, "STOPPED"})

OssHalts(p) == api = "OSS" /\ Halts(p, runnable, {"STOPPED"})

\* PulseAudio does not look at the state, but closes what there is.
ThreadClose ==
  /\ pc["host"] = "close"
  /\ \/ Refuses("host", {"CLOSED"})
     \/ /\ state # "CLOSED"
        /\ isRunning' = FALSE
        /\ Goto("host", "waking")
        /\ UNCHANGED <<api, outputs, shared, runnable, woken, drivers, ret, wrote, quiet, history>>

\* Plausible slip: a thread that is stopped is only signalled.
SignalsOnly == runnable

ReleasedToEnd == runnable \/ (state = "STOPPED" /\ Guarded)

ThreadCloseWakes ==
  /\ pc["host"] = "waking"
  /\ runnable' = ReleasedToEnd
  /\ woken' = IF state = "STOPPED" THEN Signalled ELSE woken
  /\ Goto("host", "joining")
  /\ UNCHANGED <<api, outputs, shared, isRunning, drivers, ret, wrote, quiet, history>>

\* Plausible slip: the thread is left to end by itself.
JoinsNobody == TRUE

ThreadHasEnded == pc["worker"] = "none"

ThreadCloses ==
  /\ pc["host"] = "joining"
  /\ ThreadHasEnded
  /\ handle' = "none"
  /\ state' = "CLOSED"
  /\ Goto("host", "idle")
  /\ UNCHANGED <<api, outputs, fault, threads, woken, drivers, ret, wrote, quiet, history>>

-----------------------------------------------------------------------------

WorkerThread ==
  ThreadLoops \/ EventBegins \/ ThreadWaits \/ ThreadCalls \/ ThreadCallReturns \/ ThreadMoves

ThreadStops(p) == ThreadStop(p) \/ ThreadMarks(p) \/ AlsaHalts(p) \/ PulseHalts(p) \/ OssHalts(p)

ThreadMethods ==
  ThreadStart \/ ThreadStarts \/ OssSignals \/ ThreadClose \/ ThreadCloseWakes \/ ThreadCloses
=============================================================================
