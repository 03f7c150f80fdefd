----------------------------- MODULE RtDrivers ------------------------------
(***************************************************************************)
(* The back ends of RtAudio that are called by their driver: ASIO, JACK    *)
(* and CoreAudio, with one device.  stopStream lets the output drain: it   *)
(* sets a counter, the callbacks count it up, and the one that finds it    *)
(* above 3 signals the end.  A callback of the user that asks for the stop *)
(* has it done by a thread that is started for it and joined by nobody, as *)
(* the driver waits for its callback when it is stopped; CoreAudio aborts  *)
(* within the callback.                                                    *)
(***************************************************************************)
EXTENDS RtApi

\* ASIO waits for an event, the others on a condition variable.
ByEvent == api = "ASIO"

Drains == outputs /\ drain = 0

\* The callback starts a thread for the stop, if there is one left, and returns.
Spawns(s) ==
  /\ pc[s] = "none"
  /\ pc' = [pc EXCEPT ![s] = "stop", !["worker"] = "out"]

\* The driver calls; in a stream that is stopped or about to be its callback
\* does nothing.
DriverCalls ==
  /\ pc["worker"] = "out"
  /\ active
  /\ state = "RUNNING"
  /\ Goto("worker", "entered")
  /\ UNCHANGED <<api, outputs, shared, threads, woken, drivers, ret, wrote, quiet, history>>

\* Now the handle is looked at.
CallbackBegins ==
  /\ pc["worker"] = "entered"
  /\ handle = "live"
  /\ drain <= 3
  /\ Goto("worker", IF drain = 0 THEN "in" ELSE "io")
  /\ wrote' = FALSE
  /\ UNCHANGED <<api, outputs, shared, threads, woken, drivers, ret, quiet, history>>

\* The output has drained: whoever waits is told, or a thread stops the stream.
DriverHasDrained ==
  /\ pc["worker"] = "entered"
  /\ handle = "live"
  /\ drain > 3
  /\ state' = "STOPPING"
  /\ \/ /\ internal
        /\ \E s \in Stoppers : Spawns(s)
        /\ asked' = TRUE
        /\ UNCHANGED <<event, woken>>
     \/ /\ ~internal
        /\ event' = (event \/ ByEvent)
        /\ woken' = (woken \/ (~ByEvent /\ \E p \in Procs : pc[p] = "waiting"))
        /\ Goto("worker", "out")
        /\ UNCHANGED asked
  /\ UNCHANGED <<api, outputs, handle, fault, threads, drain, internal, active, ret, wrote, quiet, unwound, hurried>>

DriverCallReturns ==
  /\ pc["worker"] = "in"
  /\ ret' \in Returns \ {2}
  /\ drain' = IF ret' = 1 THEN 1 ELSE drain
  /\ internal' = (internal \/ ret' = 1)
  /\ Goto("worker", "io")
  /\ UNCHANGED <<api, outputs, shared, threads, woken, event, active, wrote, quiet, history>>

DriverCallAborts ==
  /\ pc["worker"] = "in"
  /\ 2 \in Returns
  /\ ret' = 2
  /\ state' = "STOPPING"
  /\ drain' = 2
  /\ IF api = "CORE" THEN Goto("worker", "abort") ELSE \E s \in Stoppers : Spawns(s)
  /\ asked' = TRUE
  /\ UNCHANGED <<api, outputs, handle, fault, threads, woken, internal, event, active, wrote, quiet, unwound, hurried>>

\* Samples are moved, or zeros, and the counter counts.
DriverMoves ==
  /\ pc["worker"] = "io"
  /\ handle = "live"
  /\ drain' = IF drain > 0 THEN drain + 1 ELSE 0
  /\ wrote' = TRUE
  /\ Goto("worker", "out")
  /\ UNCHANGED <<api, outputs, shared, threads, woken, internal, event, active, ret, quiet, history>>

-----------------------------------------------------------------------------
(* The methods.                                                            *)

DriverStart ==
  /\ pc["host"] = "start"
  /\ \/ Refuses("host", {"CLOSED", "RUNNING"})
     \/ /\ state \notin {"CLOSED", "RUNNING"}
        /\ Goto("host", "starting")
        /\ UNCHANGED <<api, outputs, shared, threads, woken, drivers, ret, wrote, quiet, history>>

\* ASIOStart, or jack_activate and the connections, or AudioDeviceStart for both
\* directions; when those fail the client or the first device stays active.
DriverStarts ==
  /\ pc["host"] = "starting"
  /\ \/ /\ active' = TRUE
        /\ Goto("host", "resetting")
     \/ /\ active' \in {active} \cup (IF ByEvent THEN {} ELSE {TRUE})
        /\ Goto("host", "idle")
  /\ hurried' = (hurried \/ StopsItself)
  /\ UNCHANGED <<api, outputs, shared, threads, woken, drain, internal, event, ret, wrote, quiet, unwound, asked>>

\* Only now the counter is that of a new run.
DriverResets ==
  /\ pc["host"] = "resetting"
  /\ handle = "live"
  /\ drain' = 0 /\ internal' = FALSE /\ event' = FALSE
  /\ state' = "RUNNING"
  /\ Goto("host", "idle")
  /\ UNCHANGED <<api, outputs, handle, fault, threads, woken, active, ret, wrote, quiet, history>>

\* abortStream does not let the output drain; ASIO's is its stopStream.
DriverAbort(p) ==
  /\ pc[p] = "abort"
  /\ \/ Refuses(p, {"CLOSED", "STOPPED"})
     \/ /\ state \notin {"CLOSED", "STOPPED"}
        /\ drain' = IF ByEvent THEN drain ELSE 2
        /\ Goto(p, "stop")
        /\ UNCHANGED <<api, outputs, shared, threads, woken, internal, event, active, ret, wrote, quiet, history>>

DriverStop(p) ==
  /\ pc[p] = "stop"
  /\ \/ Refuses(p, {"CLOSED", "STOPPED"})
     \/ /\ state \notin {"CLOSED", "STOPPED"}
        /\ Goto(p, "draining")
        /\ UNCHANGED <<api, outputs, shared, threads, woken, drivers, ret, wrote, quiet, history>>

\* The counter is looked at, and then set.
DriverDrains(p) ==
  /\ pc[p] = "draining"
  /\ handle = "live"
  /\ Goto(p, IF Drains THEN "counting" ELSE "halting")
  /\ UNCHANGED <<api, outputs, shared, threads, woken, drivers, ret, wrote, quiet, history>>

\* JACK and CoreAudio wait on the condition variable without the mutex that goes
\* with it: a signal before the wait is lost.  The event of ASIO stays set.
DriverCounts(p) ==
  /\ pc[p] = "counting"
  /\ handle = "live"
  /\ drain' = 2
  /\ Goto(p, IF ByEvent THEN "waiting" ELSE "dozing")
  /\ UNCHANGED <<api, outputs, shared, threads, woken, internal, event, active, ret, wrote, quiet, history>>

DriverDozes(p) ==
  /\ pc[p] = "dozing"
  /\ Goto(p, "waiting")
  /\ UNCHANGED <<api, outputs, shared, threads, woken, drivers, ret, wrote, quiet, history>>

DriverWaits(p) ==
  /\ pc[p] = "waiting"
  /\ handle = "live"
  /\ IF ByEvent THEN event ELSE woken
  /\ woken' = FALSE
  /\ Goto(p, "halting")
  /\ UNCHANGED <<api, outputs, shared, threads, drivers, ret, wrote, quiet, history>>

\* The driver is told to stop.  ASIO marks the stream as stopped before that, the
\* others when it is done.
DriverHalts(p) ==
  /\ pc[p] = "halting"
  /\ ByEvent \/ handle = "live"
  /\ state' = IF ByEvent THEN "STOPPED" ELSE state
  /\ active' = FALSE
  /\ Goto(p, "deactivating")
  /\ UNCHANGED <<api, outputs, handle, fault, threads, woken, drain, internal, event, ret, wrote, quiet, history>>

\* It waits for its callback, unless that is the caller.
DriverIsOut(p) == p = "worker" \/ pc["worker"] \in {"out", "none"}

DriverStopped(p) ==
  /\ pc[p] = "deactivating"
  /\ DriverIsOut(p)
  /\ active' = FALSE
  /\ state' = IF ByEvent THEN state ELSE "STOPPED"
  /\ Goto(p, Rest(p))
  /\ quiet' = (quiet \/ p = "host")
  /\ UNCHANGED <<api, outputs, handle, fault, threads, woken, drain, internal, event, ret, wrote, history>>

DriverClose ==
  /\ pc["host"] = "close"
  /\ \/ Refuses("host", {"CLOSED"})
     \/ /\ state # "CLOSED"
        /\ state' = IF ByEvent /\ state = "RUNNING" THEN "STOPPED" ELSE state
        /\ active' = FALSE
        /\ Goto("host", "joining")
        /\ UNCHANGED <<api, outputs, handle, fault, threads, woken, drain, internal, event, ret, wrote, quiet, history>>

DriverCloses ==
  /\ pc["host"] = "joining"
  /\ DriverIsOut("host")
  /\ active' = FALSE
  /\ handle' = "none"
  /\ state' = "CLOSED"
  /\ pc' = [pc EXCEPT !["host"] = "idle", !["worker"] = "none"]
  /\ hurried' = (hurried \/ StopsItself)
  /\ UNCHANGED <<api, outputs, fault, threads, woken, drain, internal, event, ret, wrote, quiet, unwound, asked>>

-----------------------------------------------------------------------------

DriverStops(p) ==
  \/ DriverStop(p) \/ DriverDrains(p) \/ DriverCounts(p) \/ DriverDozes(p)
  \/ DriverWaits(p) \/ DriverHalts(p) \/ DriverStopped(p)

\* With what CoreAudio does within the callback.
WorkerDriver ==
  DriverCalls \/ CallbackBegins \/ DriverHasDrained \/ DriverCallReturns \/ DriverCallAborts \/ DriverMoves
  \/ DriverAbort("worker") \/ DriverStops("worker")

DriverMethodCalls == DriverStart \/ DriverStarts \/ DriverResets \/ DriverAbort("host") \/ DriverClose \/ DriverCloses
=============================================================================
