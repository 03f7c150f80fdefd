--------------------------- MODULE RtStreamProofs ---------------------------
(***************************************************************************)
(* No thread of a stream uses what closeStream has deleted, and nothing is *)
(* played after a stop, on six back ends, for any number of threads that   *)
(* stop a stream at the same time and whatever the callback of the user    *)
(* returns.  The back ends that start their own thread join it; the others *)
(* wait for their driver, which calls only while the stream runs, and it   *)
(* runs again only when the host starts it.                                *)
(***************************************************************************)
EXTENDS RtStream, TLAPS

Types ==
  /\ api \in Apis
  /\ outputs \in BOOLEAN
  /\ state \in States
  /\ handle \in {"none", "live", "freed"}
  /\ pc \in [Procs -> Places]
  /\ isRunning \in BOOLEAN /\ runnable \in BOOLEAN /\ woken \in BOOLEAN
  /\ drain \in Nat
  /\ internal \in BOOLEAN /\ event \in BOOLEAN /\ active \in BOOLEAN
  /\ ret \in Returns \cup {0}
  /\ fault \in {"none", "handle", "destroyed", "uncaught"}
  /\ wrote \in BOOLEAN /\ quiet \in BOOLEAN
  /\ unwound \in BOOLEAN /\ asked \in BOOLEAN /\ hurried \in BOOLEAN

\* Where the host has done nothing yet.
Resting == {"idle", "start", "stop", "abort", "close"}

\* Where the thread is before its first call.
Asleep == {"none", "loop", "event", "enter", "sleep"}

\* Where the driver is in its callback, but for a stop that it makes itself.
Inside == {"entered", "in", "io"}

NoStopper == \A s \in Stoppers : pc[s] = "none"

\* The host alone closes a stream and has it run.
Common ==
  /\ handle = "live" => state # "CLOSED"
  /\ state # "CLOSED" => handle = "live" \/ hurried
  /\ state = "CLOSED" => pc["host"] \in Resting
  /\ pc["host"] = "second" => state = "STOPPED"
  /\ quiet => state # "RUNNING"
  /\ pc["host"] \in {"start", "starting", "signal", "resetting"} => ~quiet
  /\ pc["host"] \in {"starting", "resetting"} => state # "RUNNING"
  /\ pc["host"] = "deactivating" /\ ByEvent => state # "RUNNING"

OfThreads ==
  /\ ~hurried /\ NoStopper /\ state # "STOPPING"
  /\ state = "CLOSED" \/ pc["host"] = "second" => pc["worker"] \in Asleep
  /\ state = "CLOSED" => unwound \/ pc["worker"] = "none"

\* As long as the host leaves a stop that it has not asked for the time to end.
Calm ==
  /\ state = "CLOSED" => pc["worker"] = "none" /\ NoStopper
  /\ pc["host"] \in {"second", "resetting"} => NoStopper /\ pc["worker"] \in {"none", "out"}
  /\ pc["worker"] \in Inside =>
       NoStopper /\ ~quiet /\ (state = "RUNNING" \/ pc["host"] \in {"deactivating", "joining"})
  /\ state = "RUNNING" => NoStopper /\ pc["worker"] \in Inside \cup {"none", "out"}

OfDrivers ==
  /\ ~unwound
  /\ pc["host"] = "second" => pc["worker"] = "out"
  /\ hurried \/ Calm

RtInv ==
  /\ Types /\ Common /\ NoFault
  /\ Threaded => OfThreads
  /\ ~Threaded => OfDrivers

-----------------------------------------------------------------------------
(* Where the processes are.                                                *)

\* The host and the driver or thread are two processes, and no stopper is one of them.
LEMMA ProcsAreDistinct ==
  /\ "host" \in Procs /\ "worker" \in Procs
  /\ \A s \in Stoppers : s \in Procs /\ s # "host" /\ s # "worker"
BY StoppersAssumption DEF Procs

\* A step of one process moves no other.
LEMMA GotoMoves ==
  ASSUME Types, NEW p \in Procs, NEW l \in Places, Goto(p, l)
  PROVE  /\ pc' \in [Procs -> Places]
         /\ pc'[p] = l
         /\ \A q \in Procs : q # p => pc'[q] = pc[q]
BY DEF Goto, Types

LEMMA HostMoves ==
  ASSUME Types, NEW l \in Places, Goto("host", l)
  PROVE  /\ pc' \in [Procs -> Places]
         /\ pc'["host"] = l /\ pc'["worker"] = pc["worker"]
         /\ \A s \in Stoppers : pc'[s] = pc[s]
<1>1. pc' \in [Procs -> Places] /\ pc'["host"] = l BY ProcsAreDistinct, GotoMoves
<1>2. pc'["worker"] = pc["worker"] BY ProcsAreDistinct, GotoMoves
<1>3. \A s \in Stoppers : pc'[s] = pc[s] BY ProcsAreDistinct, GotoMoves
<1> QED BY <1>1, <1>2, <1>3

LEMMA WorkerMoves ==
  ASSUME Types, NEW l \in Places, Goto("worker", l)
  PROVE  /\ pc' \in [Procs -> Places]
         /\ pc'["worker"] = l /\ pc'["host"] = pc["host"]
         /\ \A s \in Stoppers : pc'[s] = pc[s]
<1>1. pc' \in [Procs -> Places] /\ pc'["worker"] = l BY ProcsAreDistinct, GotoMoves
<1>2. pc'["host"] = pc["host"] BY ProcsAreDistinct, GotoMoves
<1>3. \A s \in Stoppers : pc'[s] = pc[s] BY ProcsAreDistinct, GotoMoves
<1> QED BY <1>1, <1>2, <1>3

LEMMA StopperMoves ==
  ASSUME Types, NEW s \in Stoppers, NEW l \in Places, Goto(s, l)
  PROVE  /\ pc' \in [Procs -> Places]
         /\ pc'[s] = l /\ pc'["host"] = pc["host"] /\ pc'["worker"] = pc["worker"]
         /\ \A t \in Stoppers : t # s => pc'[t] = pc[t]
<1>1. pc' \in [Procs -> Places] /\ pc'[s] = l BY ProcsAreDistinct, GotoMoves
<1>2. pc'["host"] = pc["host"] /\ pc'["worker"] = pc["worker"] BY ProcsAreDistinct, GotoMoves
<1>3. \A t \in Stoppers : t # s => pc'[t] = pc[t] BY ProcsAreDistinct, GotoMoves
<1> QED BY <1>1, <1>2, <1>3

LEMMA RestIsKnown ==
  /\ Rest("host") = "idle"
  /\ Threaded => Rest("worker") = "loop"
  /\ ~Threaded => Rest("worker") = "out"
  /\ \A s \in Stoppers : Rest(s) = "none"
<1>1. Rest("host") = "idle" BY DEF Rest
<1>2. Threaded => Rest("worker") = "loop" BY DEF Rest
<1>3. ~Threaded => Rest("worker") = "out" BY DEF Rest
<1>4. \A s \in Stoppers : Rest(s) = "none"
  <2> SUFFICES ASSUME NEW s \in Stoppers PROVE Rest(s) = "none" OBVIOUS
  <2>1. s # "host" /\ s # "worker" BY StoppersAssumption
  <2> QED BY <2>1 DEF Rest
<1> QED BY <1>1, <1>2, <1>3, <1>4

\* A stream that was never opened.
LEMMA InitEstablishes == RtInit => RtInv
<1> SUFFICES ASSUME RtInit PROVE RtInv OBVIOUS
<1>1. pc \in [Procs -> Places] BY DEF RtInit, Places
<1>2. pc["host"] = "idle" /\ pc["worker"] = "none" BY ProcsAreDistinct DEF RtInit
<1>3. NoStopper BY ProcsAreDistinct DEF RtInit, NoStopper
<1>4. Types
  <2>1. ret \in Returns \cup {0} /\ drain \in Nat BY DEF RtInit
  <2> QED BY <1>1, <2>1 DEF RtInit, Types, States
<1>5. Common BY <1>2 DEF RtInit, Common, Resting
<1>6. NoFault BY DEF RtInit, NoFault
<1>7. OfThreads BY <1>2, <1>3 DEF RtInit, OfThreads, Asleep
<1>8. OfDrivers BY <1>2, <1>3 DEF RtInit, OfDrivers, Calm, Inside
<1> QED BY <1>4, <1>5, <1>6, <1>7, <1>8 DEF RtInv

\* Every place a process goes to is one of those listed.
LEMMA PlacesKept ==
  ASSUME Types, NEW p, NEW l \in Places, Goto(p, l)
  PROVE  pc' \in [Procs -> Places]
BY DEF Types, Goto

\* What a step leaves alone that only moves one process.
Hop == UNCHANGED <<api, state, handle, fault, quiet, unwound, hurried>>

\* The host goes on in a method.
LEMMA HostHops ==
  ASSUME RtInv, Types', Hop, NEW l \in Places, Goto("host", l),
         pc["host"] \notin {"deactivating", "joining"},
         l \notin {"second", "resetting"},
         state = "CLOSED" => l \in Resting,
         l \in {"start", "starting", "signal"} => ~quiet,
         l = "starting" \/ (l = "deactivating" /\ ByEvent) => state # "RUNNING"
  PROVE  RtInv'
<1>1. /\ pc'["host"] = l /\ pc'["worker"] = pc["worker"]
      /\ \A s \in Stoppers : pc'[s] = pc[s]
  BY HostMoves DEF RtInv
<1>2. (NoStopper => NoStopper') /\ (ByEvent' <=> ByEvent) /\ (Threaded' <=> Threaded)
  BY <1>1 DEF NoStopper, ByEvent, Threaded, Hop
<1>3. Common' BY <1>1, <1>2 DEF RtInv, Common, Hop
<1>4. NoFault' BY DEF RtInv, NoFault, Hop
<1>5. Threaded => OfThreads' BY <1>1, <1>2 DEF RtInv, OfThreads, Hop
<1>6. ~Threaded => OfDrivers' BY <1>1, <1>2 DEF RtInv, OfDrivers, Calm, Hop
<1> QED BY <1>2, <1>3, <1>4, <1>5, <1>6 DEF RtInv

\* The thread goes on.
LEMMA ThreadHops ==
  ASSUME RtInv, Threaded, Types', Hop, NEW l \in Places, Goto("worker", l),
         state = "CLOSED" \/ pc["host"] = "second" => l \in Asleep,
         state = "CLOSED" => unwound \/ l = "none"
  PROVE  RtInv'
<1>1. /\ pc'["worker"] = l /\ pc'["host"] = pc["host"]
      /\ \A s \in Stoppers : pc'[s] = pc[s]
  BY WorkerMoves DEF RtInv
<1>2. (NoStopper => NoStopper') /\ (ByEvent' <=> ByEvent) /\ Threaded'
  BY <1>1 DEF NoStopper, ByEvent, Threaded, Hop
<1>3. Common' BY <1>1, <1>2 DEF RtInv, Common, Hop
<1>4. NoFault' BY DEF RtInv, NoFault, Hop
<1>5. OfThreads' BY <1>1, <1>2 DEF RtInv, OfThreads, Hop
<1> QED BY <1>2, <1>3, <1>4, <1>5 DEF RtInv

\* The driver goes on, or the stop that CoreAudio makes in its callback.
LEMMA DriverHops ==
  ASSUME RtInv, ~Threaded, Types', Hop, NEW l \in Places, Goto("worker", l),
         pc["worker"] # "none", pc["host"] = "second" => l = "out",
         l \in Inside => state = "RUNNING" \/ pc["worker"] \in Inside,
         l = "out" \/ l \in Inside \/ pc["worker"] \notin Inside \cup {"out"}
  PROVE  RtInv'
<1>1. /\ pc'["worker"] = l /\ pc'["host"] = pc["host"]
      /\ \A s \in Stoppers : pc'[s] = pc[s]
  BY WorkerMoves DEF RtInv
<1>2. (NoStopper => NoStopper') /\ (ByEvent' <=> ByEvent) /\ ~Threaded'
  BY <1>1 DEF NoStopper, ByEvent, Threaded, Hop
<1>3. Common' BY <1>1, <1>2 DEF RtInv, Common, Hop
<1>4. NoFault' BY DEF RtInv, NoFault, Hop
<1>5. OfDrivers'
  <2>1. CASE hurried BY <1>1, <2>1 DEF RtInv, OfDrivers, Hop
  <2>2. CASE ~hurried
    <3>1. Calm BY <2>2 DEF RtInv, OfDrivers
    <3>2. Calm' BY <1>1, <1>2, <3>1 DEF RtInv, Common, OfDrivers, Calm, Inside, Hop
    <3> QED BY <1>1, <3>2 DEF RtInv, OfDrivers, Hop
  <2> QED BY <2>1, <2>2
<1> QED BY <1>2, <1>3, <1>4, <1>5 DEF RtInv

\* A stop that the host has not asked for goes on, in a thread of its own or in the
\* callback.
LEMMA StopHops ==
  ASSUME RtInv, ~Threaded, Types', NEW s \in Stoppers \cup {"worker"}, NEW l \in Places, Goto(s, l),
         s \in Stoppers => pc[s] # "none",
         s = "worker" => pc[s] \notin Inside \cup {"none", "out"} /\ l \notin Inside,
         UNCHANGED <<api, handle, fault, quiet, unwound, hurried>>, state' \in {state, "STOPPED"}
  PROVE  RtInv'
<1>1. pc'["host"] = pc["host"] /\ (s \in Stoppers => pc'["worker"] = pc["worker"])
  BY StopperMoves, WorkerMoves DEF RtInv
<1>2. s = "worker" => pc'["worker"] = l /\ (NoStopper => NoStopper')
  BY WorkerMoves DEF RtInv, NoStopper
<1>3. (s \in Stoppers => ~NoStopper) /\ (ByEvent' <=> ByEvent) /\ ~Threaded'
  BY DEF NoStopper, ByEvent, Threaded
<1>4. ~hurried => Calm BY DEF RtInv, OfDrivers
<1>5. ~hurried => state # "CLOSED" BY <1>3, <1>4 DEF Calm
<1>6. pc["host"] = "second" => s # "worker" BY DEF RtInv, OfDrivers
<1>7. Common' BY <1>1, <1>3, <1>5 DEF RtInv, Common
<1>8. NoFault' BY DEF RtInv, NoFault
<1>9. OfDrivers'
  <2>1. ~hurried => Calm' BY <1>1, <1>2, <1>3, <1>4, <1>5 DEF Calm, Inside
  <2> QED BY <1>1, <1>6, <2>1 DEF RtInv, OfDrivers
<1> QED BY <1>3, <1>7, <1>8, <1>9 DEF RtInv

-----------------------------------------------------------------------------
(* What the back ends share.                                               *)

\* A handle and a thread are there before the second direction is set up.
LEMMA OpenFirstKeeps ==
  ASSUME RtInv, NEW o \in BOOLEAN, OpenFirst(o)
  PROVE  RtInv'
<1>1. pc' \in [Procs -> Places]
  <2>1. "second" \in Places /\ Rest("worker") \in Places BY DEF Places, Rest
  <2> QED BY <2>1 DEF OpenFirst, RtInv, Types
<1>2. pc'["host"] = "second" /\ pc'["worker"] = Rest("worker")
  BY ProcsAreDistinct DEF OpenFirst, RtInv, Types
<1>3. (NoStopper => NoStopper') /\ (Threaded' <=> Threaded)
  <2>1. \A s \in Stoppers : pc'[s] = pc[s] BY ProcsAreDistinct DEF OpenFirst, RtInv, Types
  <2> QED BY <2>1 DEF NoStopper, Threaded, OpenFirst
<1>4. Types'
  <2>1. isRunning' \in BOOLEAN BY DEF OpenFirst, Threaded
  <2> QED BY <1>1, <2>1 DEF OpenFirst, RtInv, Types, States, history
<1>5. Common' BY <1>2 DEF OpenFirst, RtInv, Common, history
<1>6. NoFault' BY DEF OpenFirst, RtInv, NoFault, history
<1>7. Threaded => OfThreads' BY <1>2, <1>3, RestIsKnown DEF OpenFirst, RtInv, OfThreads, Asleep, history
<1>8. ~Threaded => OfDrivers'
  BY <1>2, <1>3, RestIsKnown DEF OpenFirst, RtInv, OfDrivers, Calm, Inside, history
<1> QED BY <1>3, <1>4, <1>5, <1>6, <1>7, <1>8 DEF RtInv

\* openStream returns, or goes on to closeStream with everything in place.
LEMMA OpenSecondKeeps ==
  ASSUME RtInv, OpenSecond
  PROVE  RtInv'
<1>1. PICK next \in {"idle", "close"} : Goto("host", next) BY DEF OpenSecond
<1>2. next \in Places BY DEF Places
<1>3. Types' BY <1>1, <1>2, PlacesKept DEF OpenSecond, RtInv, Types, shared, threads, drivers, history
<1>4. Hop BY DEF OpenSecond, Hop, shared, history
<1>5. pc["host"] = "second" /\ next \in Resting BY DEF OpenSecond, Resting
<1> QED BY <1>1, <1>2, <1>3, <1>4, <1>5, HostHops

\* The one way to leave a thread of a closed stream behind.
LEMMA OpenUnwindsKeeps ==
  ASSUME RtInv, OpenUnwinds
  PROVE  RtInv'
<1>1. pc' \in [Procs -> Places]
  <2>1. "idle" \in Places /\ "none" \in Places BY DEF Places
  <2>2. pc["worker"] \in Places BY ProcsAreDistinct DEF RtInv, Types
  <2> QED BY <2>1, <2>2, ProcsAreDistinct DEF OpenUnwinds, RtInv, Types
<1>2. pc'["host"] = "idle" /\ pc'["worker"] = IF Threaded THEN pc["worker"] ELSE "none"
  BY ProcsAreDistinct DEF OpenUnwinds, RtInv, Types
<1>3. (NoStopper => NoStopper') /\ (Threaded' <=> Threaded)
  <2>1. \A s \in Stoppers : pc'[s] = pc[s] BY ProcsAreDistinct DEF OpenUnwinds, RtInv, Types
  <2> QED BY <2>1 DEF NoStopper, Threaded, OpenUnwinds
<1>4. (unwound' <=> unwound \/ Threaded) /\ unwound' \in BOOLEAN
  BY DEF OpenUnwinds, RtInv, Types, Threaded
<1>5. Types' BY <1>1, <1>4 DEF OpenUnwinds, UnwoundState, RtInv, Types, States, drivers
<1>6. Common' BY <1>2 DEF OpenUnwinds, UnwoundState, RtInv, Common, Resting
<1>7. NoFault'
  <2>1. pc["worker"] = "sleep" => Threaded BY DEF OpenUnwinds, RtInv, OfDrivers
  <2> QED BY <1>4, <2>1 DEF OpenUnwinds, RtInv, NoFault
<1>8. Threaded => OfThreads'
  BY <1>2, <1>3, <1>4 DEF OpenUnwinds, UnwoundState, RtInv, OfThreads
<1>9. ~Threaded => OfDrivers'
  BY <1>2, <1>3, <1>4 DEF OpenUnwinds, UnwoundState, RtInv, OfDrivers, Calm, Inside
<1> QED BY <1>3, <1>5, <1>6, <1>7, <1>8, <1>9 DEF RtInv

\* A call of a method.
LEMMA CallKeeps ==
  ASSUME RtInv, NEW method \in {"start", "stop", "abort", "close"}, Call(method)
  PROVE  RtInv'
<1>1. /\ pc' \in [Procs -> Places] /\ pc'["host"] = method /\ pc'["worker"] = pc["worker"]
      /\ \A s \in Stoppers : pc'[s] = pc[s]
  <2>1. method \in Places BY DEF Places
  <2>2. Goto("host", method) /\ Types BY DEF Call, RtInv
  <2> QED BY <2>1, <2>2, HostMoves
<1>2. NoStopper => NoStopper' BY <1>1 DEF NoStopper
<1>3. Types' BY <1>1 DEF RtInv, Types, Call, shared, threads, drivers, history
<1>4. Common'
  <2>1. quiet' => quiet /\ method # "start" BY DEF Call
  <2>2. state' = state /\ handle' = handle /\ hurried' = hurried BY DEF Call, shared, history
  <2> QED BY <1>1, <2>1, <2>2 DEF RtInv, Common, Resting
<1>5. NoFault' BY DEF RtInv, NoFault, Call, shared, history
<1>6. Threaded' => OfThreads'
  BY <1>1, <1>2 DEF RtInv, OfThreads, Call, Threaded, shared, history
<1>7. ~Threaded' => OfDrivers'
  BY <1>1, <1>2 DEF RtInv, Types, OfDrivers, Calm, Call, Threaded, shared, history
<1> QED BY <1>3, <1>4, <1>5, <1>6, <1>7 DEF RtInv

\* A method that returns at once has found the stream as it is left.
LEMMA HostRefusesKeeps ==
  ASSUME RtInv, pc["host"] \in {"start", "stop", "abort", "close"}, NEW S,
         S \subseteq {"CLOSED", "STOPPED"} \/ pc["host"] = "start", Refuses("host", S)
  PROVE  RtInv'
<1>1. Goto("host", "idle") BY RestIsKnown DEF Refuses
<1>2. "idle" \in Places BY DEF Places
<1>3. /\ pc'["host"] = "idle" /\ pc'["worker"] = pc["worker"]
      /\ \A s \in Stoppers : pc'[s] = pc[s]
  BY <1>1, <1>2, HostMoves DEF RtInv
<1>4. /\ NoStopper => NoStopper'
      /\ Threaded' <=> Threaded
  BY <1>3 DEF NoStopper, Threaded, Refuses
<1>5. (quiet' <=> quiet \/ state = "STOPPED") /\ quiet' \in BOOLEAN
  BY DEF Refuses, RtInv, Types
<1>6. UNCHANGED <<state, handle, fault, unwound, hurried>> BY DEF Refuses, history
<1>7. Types'
  BY <1>1, <1>2, <1>5, <1>6, PlacesKept DEF Refuses, RtInv, Types, threads, drivers, history
<1>8. Common' BY <1>3, <1>5, <1>6 DEF RtInv, Common, Resting
<1>9. NoFault' BY <1>6 DEF RtInv, NoFault
<1>10. Threaded => OfThreads' BY <1>3, <1>4, <1>6 DEF RtInv, OfThreads
<1>11. ASSUME ~Threaded PROVE OfDrivers'
  <2>1. ~hurried => Calm BY <1>11 DEF RtInv, OfDrivers
  <2>2. pc["worker"] \in Inside /\ ~hurried => state = "RUNNING" /\ ~quiet BY <2>1 DEF Calm, Inside
  <2>3. ~hurried => Calm' BY <1>3, <1>4, <1>5, <1>6, <2>1, <2>2 DEF Calm, Inside
  <2> QED BY <1>3, <1>6, <1>11, <2>3 DEF RtInv, OfDrivers
<1> QED BY <1>4, <1>7, <1>8, <1>9, <1>10, <1>11 DEF RtInv

\* A thread that was started for a stop finds the stream closed only when the host
\* has not left it the time.
LEMMA StopRefusesKeeps ==
  ASSUME RtInv, ~Threaded, NEW s \in Stoppers \cup {"worker"}, pc[s] \in {"stop", "abort"}, NEW S, Refuses(s, S)
  PROVE  RtInv'
<1>1. s # "host" /\ Goto(s, Rest(s)) /\ Rest(s) \in {"none", "out"}
  BY RestIsKnown, StoppersAssumption DEF Refuses
<1>2. Rest(s) \in Places BY <1>1 DEF Places
<1>3. UNCHANGED <<api, state, handle, unwound, hurried>> BY DEF Refuses, history
<1>4. quiet' = quiet BY <1>1 DEF Refuses, RtInv, Types
<1>5. fault' \in {fault, "uncaught"} BY DEF Refuses
<1>6. Types'
  BY <1>1, <1>2, <1>4, <1>5, PlacesKept DEF Refuses, RtInv, Types, threads, drivers, history
<1>7. CASE fault' = fault
  BY <1>1, <1>2, <1>3, <1>4, <1>6, <1>7, StopHops DEF Inside
<1>8. CASE fault' # fault
  <2>1. state = "CLOSED" BY <1>8 DEF Refuses
  <2>2. hurried
    <3>1. NoStopper /\ pc["worker"] = "none" => FALSE BY DEF NoStopper
    <3> QED BY <2>1, <3>1 DEF RtInv, OfDrivers, Calm
  <2>3. pc'["host"] = pc["host"]
    BY <1>1, <1>2, StopperMoves, WorkerMoves DEF RtInv
  <2>4. ~Threaded' /\ (ByEvent' <=> ByEvent) BY <1>3 DEF Threaded, ByEvent
  <2>5. Common' BY <1>3, <1>4, <2>3, <2>4 DEF RtInv, Common
  <2>6. pc["host"] # "second" BY <2>1 DEF RtInv, Common, Resting
  <2> QED BY <1>3, <1>6, <2>2, <2>3, <2>4, <2>5, <2>6 DEF RtInv, NoFault, OfDrivers
<1> QED BY <1>7, <1>8

\* A process that finds its handle gone does so in one of the two ways of NoFault.
LEMMA FaultKeeps ==
  ASSUME RtInv, NEW p \in Procs, Faults(p)
  PROVE  RtInv'
<1>1. handle # "live" => state = "CLOSED" \/ hurried BY DEF RtInv, Common
<1>2. p = "host" => unwound \/ hurried
  BY <1>1 DEF Faults, AtHandle, RtInv, Common, Resting
<1>3. CASE Threaded
  <2>1. p \in Stoppers => FALSE BY <1>3 DEF Faults, AtHandle, RtInv, OfThreads, NoStopper
  <2>2. p = "worker" => unwound
    BY <1>1, <1>3 DEF Faults, AtHandle, RtInv, OfThreads, Asleep
  <2>3. unwound BY <1>2, <1>3, <2>1, <2>2 DEF Procs, RtInv, OfThreads
  <2> QED
    BY <1>3, <2>3 DEF Faults, RtInv, Types, Common, NoFault, OfThreads, NoStopper, Threaded, ByEvent,
                            threads, drivers, history
<1>4. CASE ~Threaded
  <2>1. ~hurried => Calm BY <1>4 DEF RtInv, OfDrivers
  <2>2. p \in Stoppers => hurried
    <3>1. p \in Stoppers => ~NoStopper BY <1>4 DEF Faults, AtHandle, NoStopper
    <3> QED BY <1>1, <2>1, <3>1 DEF Calm, Faults
  <2>3. p = "worker" => hurried BY <1>1, <1>4, <2>1 DEF Calm, Faults, AtHandle
  <2>4. hurried BY <1>2, <1>4, <2>2, <2>3 DEF Procs, RtInv, OfDrivers
  <2> QED BY <1>4, <2>4 DEF Faults, RtInv, Types, Common, NoFault, OfDrivers, Threaded, ByEvent,
                            threads, drivers, history
<1> QED BY <1>3, <1>4

-----------------------------------------------------------------------------
(* A thread of its own.                                                    *)

\* While the stream is closed the thread does not get past the start of its loop.
LEMMA WorkerThreadKeeps ==
  ASSUME RtInv, Threaded, WorkerThread
  PROVE  RtInv'
<1>1. CASE ThreadLoops
  <2>1. PICK l \in {"event", "none"} : Goto("worker", l) /\ (isRunning \/ l = "none") /\ (l = "event" => isRunning)
    BY <1>1 DEF ThreadLoops
  <2>2. l \in Places /\ l \in Asleep BY DEF Places, Asleep
  <2>3. Types'
    BY <1>1, <2>1, <2>2, PlacesKept DEF ThreadLoops, RtInv, Types, shared, threads, drivers, history
  <2>4. Hop BY <1>1 DEF ThreadLoops, Hop, shared, history
  <2>5. state = "CLOSED" => unwound BY <1>1 DEF ThreadLoops, RtInv, OfThreads
  <2> QED BY <2>1, <2>2, <2>3, <2>4, <2>5, ThreadHops
<1>2. CASE EventBegins
  <2>1. PICK l \in {"enter", "loop", "call"} : Goto("worker", l) /\ (state \in {"CLOSED", "STOPPED"} => l # "call")
    BY <1>2 DEF EventBegins
  <2>2. l \in Places BY DEF Places
  <2>3. Types'
    BY <1>2, <2>1, <2>2, PlacesKept DEF EventBegins, RtInv, Types, shared, threads, drivers, history
  <2>4. Hop BY <1>2 DEF EventBegins, Hop, shared, history
  <2>5. state = "CLOSED" => unwound BY <1>2 DEF EventBegins, RtInv, OfThreads
  <2>6. state = "CLOSED" \/ pc["host"] = "second" => l \in Asleep BY <2>1 DEF RtInv, Common, Asleep
  <2> QED BY <2>1, <2>2, <2>3, <2>4, <2>5, <2>6, ThreadHops
<1>3. CASE ThreadWaits
  <2>1. PICK l \in {"sleep", "call", "loop"} : Goto("worker", l) /\ (l = "call" => state = "RUNNING")
    BY <1>3 DEF ThreadWaits
  <2>2. l \in Places BY DEF Places
  <2>3. Types'
    <3>1. pc' \in [Procs -> Places] BY <2>1, <2>2, PlacesKept DEF RtInv
    <3>2. woken' \in BOOLEAN BY <1>3 DEF ThreadWaits
    <3>3. Types BY DEF RtInv
    <3> QED BY <1>3, <3>1, <3>2, <3>3 DEF ThreadWaits, Types, shared, threads, drivers, history
  <2>4. Hop BY <1>3 DEF ThreadWaits, Hop, shared, history
  <2>5. state # "CLOSED" BY <1>3 DEF ThreadWaits, RtInv, Common
  <2>6. pc["host"] = "second" => l \in Asleep BY <2>1 DEF RtInv, Common, Asleep
  <2> QED BY <2>1, <2>2, <2>3, <2>4, <2>5, <2>6, ThreadHops
<1>4. CASE ThreadCalls
  <2>1. "in" \in Places BY DEF Places
  <2>2. Goto("worker", "in") BY <1>4 DEF ThreadCalls
  <2>3. Types'
    <3>1. pc' \in [Procs -> Places] BY <2>1, <2>2, PlacesKept DEF RtInv
    <3>2. wrote' \in BOOLEAN BY <1>4 DEF ThreadCalls
    <3>3. Types BY DEF RtInv
    <3> QED BY <1>4, <3>1, <3>2, <3>3 DEF ThreadCalls, Types, shared, threads, drivers, history
  <2>4. Hop BY <1>4 DEF ThreadCalls, Hop, shared, history
  <2>5. state # "CLOSED" /\ pc["host"] # "second"
    BY <1>4 DEF ThreadCalls, RtInv, Common, OfThreads, Asleep
  <2> QED BY <2>1, <2>2, <2>3, <2>4, <2>5, ThreadHops
<1>5. CASE ThreadCallReturns
  <2>1. PICK l \in {"abort", "io"} : Goto("worker", l) BY <1>5 DEF ThreadCallReturns
  <2>2. l \in Places BY DEF Places
  <2>3. Types'
    BY <1>5, <2>1, <2>2, PlacesKept
      DEF ThreadCallReturns, RtInv, Types, shared, threads, drivers, history
  <2>4. Hop BY <1>5 DEF ThreadCallReturns, Hop, shared, history
  <2>5. state # "CLOSED" /\ pc["host"] # "second"
    BY <1>5 DEF ThreadCallReturns, RtInv, OfThreads, Asleep
  <2> QED BY <2>1, <2>2, <2>3, <2>4, <2>5, ThreadHops
<1>6. CASE ThreadMoves
  <2>1. PICK l \in {"stop", "loop"} : Goto("worker", l) BY <1>6 DEF ThreadMoves
  <2>2. l \in Places BY DEF Places
  <2>3. wrote' \in BOOLEAN BY <1>6 DEF ThreadMoves, MayMove
  <2>4. Types'
    BY <1>6, <2>1, <2>2, <2>3, PlacesKept
      DEF ThreadMoves, RtInv, Types, shared, threads, drivers, history
  <2>5. Hop BY <1>6 DEF ThreadMoves, Hop, shared, history
  <2>6. state # "CLOSED" /\ pc["host"] # "second" BY <1>6 DEF ThreadMoves, RtInv, OfThreads, Asleep
  <2> QED BY <2>1, <2>2, <2>4, <2>5, <2>6, ThreadHops
<1> QED BY <1>1, <1>2, <1>3, <1>4, <1>5, <1>6 DEF WorkerThread

\* A stop that the thread makes finds the stream open: the thread is joined before
\* it is closed.
LEMMA ThreadStopsKeeps ==
  ASSUME RtInv, Threaded, NEW p \in {"host", "worker"}, ThreadStops(p)
  PROVE  RtInv'
<1>1. pc[p] \in {"stop", "abort", "marking", "halting"}
  BY DEF ThreadStops, ThreadStop, ThreadMarks, AlsaHalts, PulseHalts, OssHalts, Halts
<1>2. p = "worker" => state # "CLOSED" /\ pc["host"] # "second"
  BY <1>1 DEF RtInv, OfThreads, Asleep
<1>3. pc[p] \in {"marking", "halting"} => state # "CLOSED"
  BY <1>2 DEF RtInv, Common, Resting
<1>4. CASE ThreadStop(p) /\ ~Refuses(p, {"CLOSED", "STOPPED"})
  <2>1. PICK l \in {"marking", "halting"} : Goto(p, l) BY <1>4 DEF ThreadStop
  <2>2. l \in Places BY DEF Places
  <2>3. Types'
    BY <1>4, <2>1, <2>2, PlacesKept DEF ThreadStop, RtInv, Types, shared, threads, drivers, history
  <2>4. Hop /\ state # "CLOSED" /\ pc[p] \in {"stop", "abort"}
    BY <1>4 DEF ThreadStop, Hop, shared, history
  <2>5. CASE p = "host" BY <2>1, <2>2, <2>3, <2>4, <2>5, HostHops
  <2>6. CASE p = "worker" BY <1>2, <2>1, <2>2, <2>3, <2>4, <2>6, ThreadHops
  <2> QED BY <2>5, <2>6
<1>5. CASE ThreadStop(p) /\ Refuses(p, {"CLOSED", "STOPPED"})
  <2>1. pc[p] \in {"stop", "abort"} BY <1>5 DEF ThreadStop
  <2>2. CASE p = "host" BY <1>5, <2>1, <2>2, HostRefusesKeeps
  <2>3. CASE p = "worker"
    <3>1. Goto("worker", "loop") BY <1>5, <2>3, RestIsKnown DEF Refuses
    <3>2. "loop" \in Places BY DEF Places
    <3>3. quiet' = quiet BY <1>5, <2>3 DEF Refuses, RtInv, Types
    <3>4. Hop BY <1>2, <1>5, <2>3, <3>3 DEF Refuses, Hop, history
    <3>5. Types'
      BY <1>5, <3>1, <3>2, <3>3, <3>4, PlacesKept
        DEF Refuses, Hop, RtInv, Types, threads, drivers, history
    <3> QED BY <1>2, <2>3, <3>1, <3>2, <3>4, <3>5, ThreadHops
  <2> QED BY <2>2, <2>3
<1>6. CASE ThreadMarks(p) \/ AlsaHalts(p) \/ PulseHalts(p) \/ OssHalts(p)
  <2>1. PICK l \in {"halting", "idle", "loop"} : Goto(p, l) /\ (p = "host" => l \in {"halting", "idle"})
    BY <1>6, RestIsKnown DEF ThreadMarks, AlsaHalts, PulseHalts, OssHalts, Halts
  <2>2. l \in Places BY DEF Places
  <2>3. state' \in {state, "STOPPED"} /\ state # "CLOSED" /\ pc[p] \in {"marking", "halting"}
    BY <1>3, <1>6 DEF ThreadMarks, AlsaHalts, PulseHalts, OssHalts, Halts
  <2>4. UNCHANGED <<api, handle, fault, unwound, hurried>>
    BY <1>6 DEF ThreadMarks, AlsaHalts, PulseHalts, OssHalts, Halts, history
  <2>5. quiet' \in BOOLEAN /\ (quiet' => quiet \/ state' = "STOPPED") /\ (p = "worker" => quiet' = quiet)
    BY <1>6 DEF ThreadMarks, AlsaHalts, PulseHalts, OssHalts, Halts, RtInv, Types
  <2>6. Types'
    <3>1. runnable' \in BOOLEAN
      BY <1>6 DEF ThreadMarks, AlsaHalts, PulseHalts, OssHalts, Halts, RtInv, Types, threads
    <3>2. UNCHANGED <<outputs, isRunning, woken, drivers, ret, wrote, asked>>
      BY <1>6 DEF ThreadMarks, AlsaHalts, PulseHalts, OssHalts, Halts, threads, history
    <3>3. state' \in States BY <2>3 DEF RtInv, Types, States
    <3> QED BY <2>1, <2>2, <2>4, <2>5, <3>1, <3>2, <3>3, PlacesKept DEF RtInv, Types, drivers
  <2>7. /\ p = "host" => pc'["host"] = l /\ pc'["worker"] = pc["worker"]
        /\ p = "worker" => pc'["worker"] = l /\ pc'["host"] = pc["host"]
        /\ NoStopper => NoStopper'
    BY <2>1, <2>2, HostMoves, WorkerMoves DEF RtInv, NoStopper
  <2>8. Common'
    <3>1. quiet' => state' # "RUNNING" BY <2>3, <2>5 DEF RtInv, Common
    <3>2. pc'["host"] \in {"start", "starting", "signal", "resetting"} => ~quiet'
      BY <2>1, <2>5, <2>7 DEF RtInv, Common
    <3>3. state' # "CLOSED" /\ (handle = "live" \/ hurried) BY <2>3 DEF RtInv, Common
    <3> QED BY <1>2, <2>1, <2>3, <2>4, <2>7, <3>1, <3>2, <3>3 DEF RtInv, Common, ByEvent
  <2>9. NoFault' BY <2>4 DEF RtInv, NoFault
  <2>10. OfThreads' BY <1>2, <2>1, <2>3, <2>4, <2>7 DEF RtInv, OfThreads
  <2> QED BY <2>4, <2>6, <2>8, <2>9, <2>10 DEF RtInv, Threaded
<1> QED BY <1>4, <1>5, <1>6 DEF ThreadStops

\* Only the host has the stream run, and it closes it when the thread has ended.
LEMMA ThreadMethodsKeeps ==
  ASSUME RtInv, Threaded, ThreadMethods
  PROVE  RtInv'
<1>1. CASE ThreadStart /\ Refuses("host", {"CLOSED", "RUNNING"})
  BY <1>1, HostRefusesKeeps DEF ThreadStart
<1>2. CASE ThreadStart /\ ~Refuses("host", {"CLOSED", "RUNNING"})
  <2>1. "starting" \in Places BY DEF Places
  <2>2. Goto("host", "starting") BY <1>2 DEF ThreadStart
  <2>3. Types'
    BY <1>2, <2>1, <2>2, PlacesKept DEF ThreadStart, RtInv, Types, shared, threads, drivers, history
  <2>4. Hop /\ state \notin {"CLOSED", "RUNNING"} /\ pc["host"] = "start"
    BY <1>2 DEF ThreadStart, Hop, shared, history
  <2>5. ~quiet BY <2>4 DEF RtInv, Common
  <2> QED BY <2>1, <2>2, <2>3, <2>4, <2>5, HostHops
<1>3. CASE ThreadStarts
  <2>1. PICK l \in {"idle", "signal"} : Goto("host", l) BY <1>3 DEF ThreadStarts
  <2>2. l \in Places BY DEF Places
  <2>3. /\ pc'["host"] = l /\ pc'["worker"] = pc["worker"]
        /\ \A s \in Stoppers : pc'[s] = pc[s]
    BY <2>1, <2>2, HostMoves DEF RtInv
  <2>4. state' \in {state, "RUNNING"} /\ pc["host"] = "starting" /\ state # "CLOSED" /\ ~quiet
    BY <1>3 DEF ThreadStarts, RtInv, Common, Resting
  <2>5. Types'
    <3>1. runnable' \in BOOLEAN /\ woken' \in BOOLEAN
      BY <1>3 DEF ThreadStarts, Released, Guarded, Signalled, RtInv, Types
    <3>2. state' \in States BY <2>4 DEF RtInv, Types, States
    <3> QED BY <1>3, <2>1, <2>2, <3>1, <3>2, PlacesKept DEF ThreadStarts, RtInv, Types, drivers, history
  <2>6. UNCHANGED <<api, handle, fault, quiet, unwound, hurried>> BY <1>3 DEF ThreadStarts, history
  <2>7. Common' BY <2>3, <2>4, <2>6 DEF RtInv, Common
  <2>8. NoFault' BY <2>6 DEF RtInv, NoFault
  <2>9. OfThreads' BY <2>3, <2>4, <2>6 DEF RtInv, OfThreads, NoStopper
  <2> QED BY <2>5, <2>6, <2>7, <2>8, <2>9 DEF RtInv, Threaded
<1>4. CASE OssSignals
  <2>1. "idle" \in Places /\ "idle" \in Resting BY DEF Places, Resting
  <2>2. Goto("host", "idle") BY <1>4 DEF OssSignals
  <2>3. woken' \in BOOLEAN BY <1>4 DEF OssSignals, Signalled
  <2>4. Types'
    BY <1>4, <2>1, <2>2, <2>3, PlacesKept
      DEF OssSignals, RtInv, Types, shared, threads, drivers, history
  <2>5. Hop /\ pc["host"] = "signal" BY <1>4 DEF OssSignals, Hop, shared, history
  <2> QED BY <2>1, <2>2, <2>4, <2>5, HostHops
<1>5. CASE ThreadClose /\ Refuses("host", {"CLOSED"})
  BY <1>5, HostRefusesKeeps DEF ThreadClose
<1>6. CASE ThreadClose /\ ~Refuses("host", {"CLOSED"})
  <2>1. "waking" \in Places BY DEF Places
  <2>2. Goto("host", "waking") BY <1>6 DEF ThreadClose
  <2>3. Types'
    <3>1. pc' \in [Procs -> Places] BY <2>1, <2>2, PlacesKept DEF RtInv
    <3>2. isRunning' \in BOOLEAN BY <1>6 DEF ThreadClose
    <3>3. Types BY DEF RtInv
    <3> QED BY <1>6, <3>1, <3>2, <3>3 DEF ThreadClose, Types, shared, drivers, history
  <2>4. Hop /\ state # "CLOSED" /\ pc["host"] = "close" BY <1>6 DEF ThreadClose, Hop, shared, history
  <2> QED BY <2>1, <2>2, <2>3, <2>4, HostHops
<1>7. CASE ThreadCloseWakes
  <2>1. "joining" \in Places BY DEF Places
  <2>2. Goto("host", "joining") BY <1>7 DEF ThreadCloseWakes
  <2>3. Types'
    <3>1. runnable' \in BOOLEAN /\ woken' \in BOOLEAN
      BY <1>7 DEF ThreadCloseWakes, ReleasedToEnd, Guarded, Signalled, RtInv, Types
    <3> QED
      BY <1>7, <2>1, <2>2, <3>1, PlacesKept DEF ThreadCloseWakes, RtInv, Types, shared, drivers, history
  <2>4. Hop /\ pc["host"] = "waking" BY <1>7 DEF ThreadCloseWakes, Hop, shared, history
  <2>5. state # "CLOSED" BY <2>4 DEF RtInv, Common, Resting
  <2> QED BY <2>1, <2>2, <2>3, <2>4, <2>5, HostHops
<1>8. CASE ThreadCloses
  <2>1. "idle" \in Places /\ "idle" \in Resting BY DEF Places, Resting
  <2>2. Goto("host", "idle") BY <1>8 DEF ThreadCloses
  <2>3. Types'
    BY <1>8, <2>1, <2>2, PlacesKept DEF ThreadCloses, RtInv, Types, States, threads, drivers, history
  <2>4. /\ pc'["host"] = "idle" /\ pc'["worker"] = pc["worker"]
        /\ \A s \in Stoppers : pc'[s] = pc[s]
    BY <2>1, <2>2, HostMoves DEF RtInv
  <2>5. UNCHANGED <<api, fault, quiet, unwound, hurried>> /\ handle' = "none" /\ state' = "CLOSED"
    BY <1>8 DEF ThreadCloses, history
  <2>6. pc["worker"] = "none" BY <1>8 DEF ThreadCloses, ThreadHasEnded
  <2>7. Common' BY <2>1, <2>4, <2>5 DEF RtInv, Common
  <2>8. NoFault' BY <2>5 DEF RtInv, NoFault
  <2>9. OfThreads' BY <2>4, <2>5, <2>6 DEF RtInv, OfThreads, NoStopper, Asleep
  <2> QED BY <2>3, <2>5, <2>7, <2>8, <2>9 DEF RtInv, Threaded
<1> QED BY <1>1, <1>2, <1>3, <1>4, <1>5, <1>6, <1>7, <1>8 DEF ThreadMethods

-----------------------------------------------------------------------------
(* A driver that calls.                                                    *)

\* The driver calls while the stream runs, and is waited for otherwise.
LEMMA WorkerDriverKeeps ==
  ASSUME RtInv, ~Threaded, DriverCalls \/ CallbackBegins \/ DriverCallReturns \/ DriverMoves
  PROVE  RtInv'
<1>0. Types BY DEF RtInv
<1>1. CASE DriverCalls
  <2>1. "entered" \in Places /\ "entered" \in Inside BY DEF Places, Inside
  <2>2. Goto("worker", "entered") BY <1>1 DEF DriverCalls
  <2>3. Types'
    BY <1>0, <1>1, <2>1, <2>2, PlacesKept DEF DriverCalls, Types, shared, threads, drivers, history
  <2>4. Hop /\ pc["worker"] = "out" /\ state = "RUNNING" BY <1>1 DEF DriverCalls, Hop, shared, history
  <2>5. pc["host"] # "second" BY <2>4 DEF RtInv, Common
  <2> QED BY <2>1, <2>2, <2>3, <2>4, <2>5, DriverHops
<1>2. CASE CallbackBegins
  <2>1. PICK l \in {"in", "io"} : Goto("worker", l) BY <1>2 DEF CallbackBegins
  <2>2. l \in Places /\ l \in Inside BY DEF Places, Inside
  <2>3. Types'
    <3>1. pc' \in [Procs -> Places] BY <1>0, <2>1, <2>2, PlacesKept
    <3>2. wrote' \in BOOLEAN BY <1>2 DEF CallbackBegins
    <3> QED BY <1>0, <1>2, <3>1, <3>2 DEF CallbackBegins, Types, shared, threads, drivers, history
  <2>4. Hop /\ pc["worker"] = "entered" BY <1>2 DEF CallbackBegins, Hop, shared, history
  <2>5. pc["host"] # "second" BY <2>4 DEF RtInv, OfDrivers
  <2>6. pc["worker"] \in Inside /\ pc["worker"] # "none" BY <2>4 DEF Inside
  <2> QED BY <2>1, <2>2, <2>3, <2>4, <2>5, <2>6, DriverHops
<1>3. CASE DriverCallReturns
  <2>1. Goto("worker", "io") BY <1>3 DEF DriverCallReturns
  <2>2. "io" \in Places /\ "io" \in Inside BY DEF Places, Inside
  <2>3. Types'
    <3>1. pc' \in [Procs -> Places] BY <1>0, <2>1, <2>2, PlacesKept
    <3>2. internal' \in BOOLEAN BY <1>0, <1>3 DEF DriverCallReturns, Types
    <3>3. drain' \in Nat /\ ret' \in Returns BY <1>0, <1>3 DEF DriverCallReturns, Types
    <3> QED BY <1>0, <1>3, <3>1, <3>2, <3>3 DEF DriverCallReturns, Types, shared, threads, history
  <2>4. Hop /\ pc["worker"] = "in" BY <1>3 DEF DriverCallReturns, Hop, shared, history
  <2>5. pc["host"] # "second" BY <2>4 DEF RtInv, OfDrivers
  <2>6. pc["worker"] \in Inside /\ pc["worker"] # "none" BY <2>4 DEF Inside
  <2> QED BY <2>1, <2>2, <2>3, <2>4, <2>5, <2>6, DriverHops
<1>4. CASE DriverMoves
  <2>1. Goto("worker", "out") BY <1>4 DEF DriverMoves
  <2>2. "out" \in Places /\ "out" \notin Inside BY DEF Places, Inside
  <2>3. Types'
    <3>1. pc' \in [Procs -> Places] BY <1>0, <2>1, <2>2, PlacesKept
    <3>2. wrote' \in BOOLEAN BY <1>4 DEF DriverMoves
    <3>3. drain' \in Nat BY <1>0, <1>4 DEF DriverMoves, Types
    <3> QED BY <1>0, <1>4, <3>1, <3>2, <3>3 DEF DriverMoves, Types, shared, threads, history
  <2>4. Hop /\ pc["worker"] = "io" BY <1>4 DEF DriverMoves, Hop, shared, history
  <2> QED BY <2>1, <2>2, <2>3, <2>4, DriverHops
<1> QED BY <1>1, <1>2, <1>3, <1>4

\* The callback itself has the stream stopped.
LEMMA WorkerAsksKeeps ==
  ASSUME RtInv, ~Threaded, DriverHasDrained \/ DriverCallAborts
  PROVE  RtInv'
<1>1. pc["worker"] \in {"entered", "in"} BY DEF DriverHasDrained, DriverCallAborts
<1>2. /\ pc' \in [Procs -> Places]
      /\ pc'["host"] = pc["host"] /\ pc'["worker"] \in {"out", "abort"}
  <2>1. ASSUME NEW l \in {"out", "abort"}, Goto("worker", l)
        PROVE  /\ pc' \in [Procs -> Places]
               /\ pc'["host"] = pc["host"] /\ pc'["worker"] \in {"out", "abort"}
    <3>1. l \in Places BY DEF Places
    <3> QED BY <2>1, <3>1, WorkerMoves DEF RtInv
  <2>2. ASSUME NEW s \in Stoppers, Spawns(s)
        PROVE  /\ pc' \in [Procs -> Places]
               /\ pc'["host"] = pc["host"] /\ pc'["worker"] \in {"out", "abort"}
    <3>1. "stop" \in Places /\ "out" \in Places BY DEF Places
    <3>2. pc' = [pc EXCEPT ![s] = "stop", !["worker"] = "out"] BY <2>2 DEF Spawns
    <3>3. pc' \in [Procs -> Places] BY <3>1, <3>2 DEF RtInv, Types
    <3>4. pc'["host"] = pc["host"] /\ pc'["worker"] = "out"
      BY <3>2, ProcsAreDistinct DEF RtInv, Types
    <3> QED BY <3>3, <3>4
  <2>3. \/ \E s \in Stoppers : Spawns(s)
        \/ \E l \in {"out", "abort"} : Goto("worker", l)
    BY DEF DriverHasDrained, DriverCallAborts
  <2> QED BY <2>1, <2>2, <2>3
<1>3. state' = "STOPPING" /\ UNCHANGED <<api, handle, fault, quiet, unwound, hurried>>
  BY DEF DriverHasDrained, DriverCallAborts
<1>4. Types'
  <2>1. drain' \in Nat /\ ret' \in Returns \cup {0}
    BY DEF RtInv, Types, DriverHasDrained, DriverCallAborts
  <2>2. asked' \in BOOLEAN BY DEF RtInv, Types, DriverHasDrained, DriverCallAborts
  <2>3. event' \in BOOLEAN BY DEF RtInv, Types, DriverHasDrained, DriverCallAborts, ByEvent
  <2>4. woken' \in BOOLEAN BY DEF RtInv, Types, DriverHasDrained, DriverCallAborts, ByEvent
  <2>5. UNCHANGED <<outputs, isRunning, runnable, internal, active, wrote>>
    BY DEF DriverHasDrained, DriverCallAborts, threads
  <2>6. state' \in States BY <1>3 DEF States
  <2>7. Types BY DEF RtInv
  <2> QED BY <1>2, <1>3, <2>1, <2>2, <2>3, <2>4, <2>5, <2>6, <2>7 DEF Types
<1>5. ~hurried => Calm BY DEF RtInv, OfDrivers
<1>6. ~hurried => state = "RUNNING" \/ pc["host"] \in {"deactivating", "joining"}
  BY <1>1, <1>5 DEF Calm, Inside
<1>7. ~hurried => handle = "live" BY <1>6 DEF RtInv, Common, Resting
<1>8. pc["host"] # "second" BY <1>1 DEF RtInv, OfDrivers
<1>9. ~hurried => pc["host"] # "resetting" BY <1>1, <1>5 DEF Calm
<1>10. Common' BY <1>2, <1>3, <1>7, <1>8 DEF RtInv, Common
<1>11. NoFault' BY <1>3 DEF RtInv, NoFault
<1>12. OfDrivers'
  <2>1. ~hurried => Calm' BY <1>2, <1>3, <1>5, <1>8, <1>9 DEF Calm, Inside
  <2> QED BY <1>2, <1>3, <1>8, <2>1 DEF RtInv, OfDrivers
<1> QED BY <1>3, <1>4, <1>10, <1>11, <1>12 DEF RtInv, Threaded

DriverWaitsOrGoesOn(p) ==
  DriverDrains(p) \/ DriverCounts(p) \/ DriverDozes(p) \/ DriverWaits(p)

\* What the stop does before it stops the driver, in whatever process.
LEMMA StopGoesOnTypes ==
  ASSUME Types, NEW p \in Procs,
         DriverWaitsOrGoesOn(p) \/ (DriverStop(p) /\ ~Refuses(p, {"CLOSED", "STOPPED"}))
           \/ (DriverAbort(p) /\ ~Refuses(p, {"CLOSED", "STOPPED"}))
  PROVE  /\ Types' /\ Hop
         /\ \E l \in {"stop", "draining", "counting", "halting", "dozing", "waiting"} : Goto(p, l)
         /\ pc[p] \in {"abort", "stop"} => state # "CLOSED"
         /\ pc[p] \in {"abort", "stop", "draining", "counting", "dozing", "waiting"}
<1>1. PICK l \in {"stop", "draining", "counting", "halting", "dozing", "waiting"} : Goto(p, l)
  BY DEF DriverWaitsOrGoesOn, DriverStop, DriverAbort, DriverDrains, DriverCounts, DriverDozes, DriverWaits
<1>2. Hop
  BY DEF DriverWaitsOrGoesOn, DriverStop, DriverAbort, DriverDrains, DriverCounts, DriverDozes, DriverWaits,
         Hop, shared, history
<1>3. /\ pc[p] \in {"abort", "stop"} => state # "CLOSED"
      /\ pc[p] \in {"abort", "stop", "draining", "counting", "dozing", "waiting"}
  BY DEF DriverWaitsOrGoesOn, DriverStop, DriverAbort, DriverDrains, DriverCounts, DriverDozes, DriverWaits
<1>4. Types'
  <2>1. l \in Places BY DEF Places
  <2>2. pc' \in [Procs -> Places] BY <1>1, <2>1, PlacesKept
  <2>3. drain' \in Nat
    BY DEF DriverWaitsOrGoesOn, DriverStop, DriverAbort, DriverDrains, DriverCounts, DriverDozes, DriverWaits,
           Types, drivers
  <2>4. woken' \in BOOLEAN
    BY DEF DriverWaitsOrGoesOn, DriverStop, DriverAbort, DriverDrains, DriverCounts, DriverDozes, DriverWaits, Types
  <2>5. UNCHANGED <<api, outputs, state, handle, fault, isRunning, runnable, internal, event, active, ret, wrote, quiet,
                    unwound, asked, hurried>>
    BY DEF DriverWaitsOrGoesOn, DriverStop, DriverAbort, DriverDrains, DriverCounts, DriverDozes, DriverWaits,
           shared, threads, drivers, history
  <2> QED BY <2>2, <2>3, <2>4, <2>5 DEF Types
<1> QED BY <1>1, <1>2, <1>3, <1>4

\* The driver is told, and has stopped.
LEMMA StopEndsTypes ==
  ASSUME Types, NEW p \in Procs, Rest(p) \in Places, DriverHalts(p) \/ DriverStopped(p)
  PROVE  Types' /\ state' \in {state, "STOPPED"} /\ UNCHANGED <<api, handle, fault, unwound, hurried>>
<1>1. state' \in {state, "STOPPED"} BY DEF DriverHalts, DriverStopped
<1>2. pc' \in [Procs -> Places]
  <2>1. "deactivating" \in Places BY DEF Places
  <2> QED BY <2>1, PlacesKept DEF DriverHalts, DriverStopped
<1>3. active' \in BOOLEAN BY DEF DriverHalts, DriverStopped
<1>4. quiet' \in BOOLEAN BY DEF DriverHalts, DriverStopped, Types
<1>5. state' \in States BY <1>1 DEF Types, States
<1>6. UNCHANGED <<api, outputs, handle, fault, isRunning, runnable, woken, drain, internal, event, ret, wrote,
                  unwound, asked, hurried>>
  BY DEF DriverHalts, DriverStopped, threads, history
<1>7. Types' BY <1>2, <1>3, <1>4, <1>5, <1>6 DEF Types
<1> QED BY <1>1, <1>6, <1>7

\* In the callback or in a thread of its own.
LEMMA OwnStopKeeps ==
  ASSUME RtInv, ~Threaded, NEW s \in Stoppers \cup {"worker"}, DriverAbort(s) \/ DriverStops(s)
  PROVE  RtInv'
<1>1. s \in Procs /\ s # "host" BY ProcsAreDistinct
<1>2. Types BY DEF RtInv
<1>3. CASE (DriverAbort(s) \/ DriverStop(s)) /\ Refuses(s, {"CLOSED", "STOPPED"})
  <2>1. pc[s] \in {"stop", "abort"} BY <1>3 DEF DriverAbort, DriverStop
  <2> QED BY <1>3, <2>1, StopRefusesKeeps
<1>4. CASE DriverWaitsOrGoesOn(s) \/ (DriverStop(s) /\ ~Refuses(s, {"CLOSED", "STOPPED"}))
             \/ (DriverAbort(s) /\ ~Refuses(s, {"CLOSED", "STOPPED"}))
  <2>1. PICK l \in {"stop", "draining", "counting", "halting", "dozing", "waiting"} : Goto(s, l)
    BY <1>1, <1>2, <1>4, StopGoesOnTypes
  <2>2. l \in Places /\ l \notin Inside BY DEF Places, Inside
  <2>3. Types' /\ Hop /\ pc[s] \in {"abort", "stop", "draining", "counting", "dozing", "waiting"}
    BY <1>1, <1>2, <1>4, StopGoesOnTypes
  <2> QED BY <2>1, <2>2, <2>3, StopHops DEF Hop, Inside
<1>5. CASE DriverHalts(s) \/ DriverStopped(s)
  <2>1. PICK l \in {"deactivating", "out", "none"} : Goto(s, l)
    BY <1>1, <1>5, RestIsKnown DEF DriverHalts, DriverStopped
  <2>2. l \in Places /\ l \notin Inside BY DEF Places, Inside
  <2>3. Rest(s) \in Places BY RestIsKnown DEF Places
  <2>4. Types' /\ state' \in {state, "STOPPED"} /\ UNCHANGED <<api, handle, fault, unwound, hurried>>
    BY <1>1, <1>2, <1>5, <2>3, StopEndsTypes
  <2>5. quiet' = quiet BY <1>1, <1>2, <1>5 DEF DriverHalts, DriverStopped, Types
  <2>6. pc[s] \in {"halting", "deactivating"} BY <1>5 DEF DriverHalts, DriverStopped
  <2> QED BY <2>1, <2>2, <2>4, <2>5, <2>6, StopHops DEF Inside
<1> QED BY <1>3, <1>4, <1>5 DEF DriverStops, DriverWaitsOrGoesOn

\* A stop of the host ends with the driver out of its callback.
LEMMA HostStopKeeps ==
  ASSUME RtInv, ~Threaded, DriverAbort("host") \/ DriverStops("host")
  PROVE  RtInv'
<1>1. Types /\ "host" \in Procs BY ProcsAreDistinct DEF RtInv
<1>2. CASE (DriverAbort("host") \/ DriverStop("host")) /\ Refuses("host", {"CLOSED", "STOPPED"})
  <2>1. pc["host"] \in {"stop", "abort"} BY <1>2 DEF DriverAbort, DriverStop
  <2> QED BY <1>2, <2>1, HostRefusesKeeps
<1>3. CASE DriverWaitsOrGoesOn("host") \/ (DriverStop("host") /\ ~Refuses("host", {"CLOSED", "STOPPED"}))
             \/ (DriverAbort("host") /\ ~Refuses("host", {"CLOSED", "STOPPED"}))
  <2>1. PICK l \in {"stop", "draining", "counting", "halting", "dozing", "waiting"} : Goto("host", l)
    BY <1>1, <1>3, StopGoesOnTypes
  <2>2. l \in Places BY DEF Places
  <2>3. /\ Types' /\ Hop /\ pc["host"] \in {"abort", "stop", "draining", "counting", "dozing", "waiting"}
        /\ pc["host"] \in {"abort", "stop"} => state # "CLOSED"
    BY <1>1, <1>3, StopGoesOnTypes
  <2>4. state # "CLOSED" BY <2>3 DEF RtInv, Common, Resting
  <2> QED BY <2>1, <2>2, <2>3, <2>4, HostHops
<1>4. CASE DriverHalts("host")
  <2>1. "deactivating" \in Places BY DEF Places
  <2>2. Rest("host") \in Places BY RestIsKnown DEF Places
  <2>3. Types' /\ UNCHANGED <<api, handle, fault, unwound, hurried>>
    BY <1>1, <1>4, <2>2, StopEndsTypes
  <2>4. /\ pc["host"] = "halting" /\ Goto("host", "deactivating") /\ quiet' = quiet
        /\ state' = IF ByEvent THEN "STOPPED" ELSE state
    BY <1>4 DEF DriverHalts
  <2>5. /\ pc'["host"] = "deactivating" /\ pc'["worker"] = pc["worker"]
        /\ \A s \in Stoppers : pc'[s] = pc[s]
    BY <2>1, <2>4, HostMoves, <1>1
  <2>6. (NoStopper => NoStopper') /\ (ByEvent' <=> ByEvent) /\ ~Threaded'
    BY <2>3, <2>5 DEF NoStopper, ByEvent, Threaded
  <2>7. state # "CLOSED" BY <2>4 DEF RtInv, Common, Resting
  <2>8. Common' BY <2>3, <2>4, <2>5, <2>6, <2>7 DEF RtInv, Common
  <2>9. NoFault' BY <2>3 DEF RtInv, NoFault
  <2>10. OfDrivers'
    <3>1. ~hurried => Calm BY DEF RtInv, OfDrivers
    <3>2. ~hurried => Calm' BY <2>3, <2>4, <2>5, <2>6, <2>7, <3>1 DEF Calm
    <3> QED BY <2>3, <2>5, <3>2 DEF RtInv, OfDrivers
  <2> QED BY <2>3, <2>6, <2>8, <2>9, <2>10 DEF RtInv
<1>5. CASE DriverStopped("host")
  <2>1. Rest("host") = "idle" /\ "idle" \in Places BY RestIsKnown DEF Places
  <2>2. Types' /\ UNCHANGED <<api, handle, fault, unwound, hurried>>
    BY <1>1, <1>5, <2>1, StopEndsTypes
  <2>3. /\ pc["host"] = "deactivating" /\ Goto("host", "idle")
        /\ state' = IF ByEvent THEN state ELSE "STOPPED"
        /\ pc["worker"] \in {"none", "out"}
    BY <1>5, <2>1 DEF DriverStopped, DriverIsOut
  <2>4. /\ pc'["host"] = "idle" /\ pc'["worker"] = pc["worker"]
        /\ \A s \in Stoppers : pc'[s] = pc[s]
    BY <2>1, <2>3, HostMoves, <1>1
  <2>5. (NoStopper => NoStopper') /\ (ByEvent' <=> ByEvent) /\ ~Threaded'
    BY <2>2, <2>4 DEF NoStopper, ByEvent, Threaded
  <2>6. state # "CLOSED" /\ state' # "RUNNING" BY <2>3 DEF RtInv, Common, Resting
  <2>7. Common' BY <2>2, <2>3, <2>4, <2>5, <2>6 DEF RtInv, Common
  <2>8. NoFault' BY <2>2 DEF RtInv, NoFault
  <2>9. OfDrivers'
    <3>1. ~hurried => Calm BY DEF RtInv, OfDrivers
    <3>2. ~hurried => Calm' BY <2>2, <2>3, <2>4, <2>5, <2>6, <3>1 DEF Calm, Inside
    <3> QED BY <2>2, <2>4, <3>2 DEF RtInv, OfDrivers
  <2> QED BY <2>2, <2>5, <2>7, <2>8, <2>9 DEF RtInv
<1> QED BY <1>2, <1>3, <1>4, <1>5 DEF DriverStops, DriverWaitsOrGoesOn

\* A start or a close during a stop that the host has not asked for is what makes it
\* hurried; without one there is no such stop.
LEMMA DriverMethodsKeeps ==
  ASSUME RtInv, ~Threaded, DriverStart \/ DriverStarts \/ DriverResets \/ DriverClose \/ DriverCloses
  PROVE  RtInv'
<1>0. Types BY DEF RtInv
<1>1. CASE DriverStart /\ Refuses("host", {"CLOSED", "RUNNING"})
  BY <1>1, HostRefusesKeeps DEF DriverStart
<1>2. CASE DriverStart /\ ~Refuses("host", {"CLOSED", "RUNNING"})
  <2>1. "starting" \in Places BY DEF Places
  <2>2. Goto("host", "starting") BY <1>2 DEF DriverStart
  <2>3. Types'
    BY <1>0, <1>2, <2>1, <2>2, PlacesKept DEF DriverStart, Types, shared, threads, drivers, history
  <2>4. Hop /\ state \notin {"CLOSED", "RUNNING"} /\ pc["host"] = "start"
    BY <1>2 DEF DriverStart, Hop, shared, history
  <2>5. ~quiet BY <2>4 DEF RtInv, Common
  <2> QED BY <2>1, <2>2, <2>3, <2>4, <2>5, HostHops
<1>3. CASE DriverStarts
  <2>1. PICK l \in {"resetting", "idle"} : Goto("host", l) BY <1>3 DEF DriverStarts
  <2>2. l \in Places BY DEF Places
  <2>3. pc["host"] = "starting" /\ UNCHANGED <<api, state, handle, fault, quiet, unwound>>
    BY <1>3 DEF DriverStarts, shared
  <2>4. hurried' \in BOOLEAN /\ (hurried' <=> hurried \/ StopsItself)
    BY <1>0, <1>3 DEF DriverStarts, StopsItself, Types
  <2>5. Types'
    <3>1. pc' \in [Procs -> Places] BY <1>0, <2>1, <2>2, PlacesKept
    <3>2. active' \in BOOLEAN BY <1>0, <1>3 DEF DriverStarts, Types
    <3>3. UNCHANGED <<outputs, isRunning, runnable, woken, drain, internal, event, ret, wrote, asked>>
      BY <1>3 DEF DriverStarts, threads
    <3> QED BY <1>0, <2>3, <2>4, <3>1, <3>2, <3>3 DEF Types
  <2>6. /\ pc'["host"] = l /\ pc'["worker"] = pc["worker"]
        /\ \A s \in Stoppers : pc'[s] = pc[s]
    BY <1>0, <2>1, <2>2, HostMoves
  <2>7. ~quiet /\ state \notin {"CLOSED", "RUNNING"} BY <2>3 DEF RtInv, Common, Resting
  <2>8. Common' BY <2>3, <2>4, <2>6, <2>7 DEF RtInv, Common, ByEvent
  <2>9. NoFault' BY <2>3, <2>4 DEF RtInv, NoFault
  <2>10. OfDrivers'
    <3>1. ~hurried => Calm BY DEF RtInv, OfDrivers
    <3>2. ~hurried' => NoStopper /\ pc["worker"] \in Inside \cup {"none", "out"}
      BY <2>4 DEF StopsItself, NoStopper, Inside
    <3>3. ~hurried' => pc["worker"] \notin Inside BY <2>3, <2>4, <2>7, <3>1 DEF Calm
    <3>4. ~hurried' => Calm'
      <4>1. NoStopper => NoStopper' BY <2>6 DEF NoStopper
      <4> QED BY <2>3, <2>4, <2>6, <2>7, <3>2, <3>3, <4>1 DEF Calm
    <3> QED BY <2>3, <2>6, <3>4 DEF RtInv, OfDrivers
  <2> QED BY <2>3, <2>5, <2>8, <2>9, <2>10 DEF RtInv, Threaded
<1>4. CASE DriverResets
  <2>1. "idle" \in Places /\ "idle" \in Resting BY DEF Places, Resting
  <2>2. Goto("host", "idle") BY <1>4 DEF DriverResets
  <2>3. /\ pc["host"] = "resetting" /\ handle = "live" /\ state' = "RUNNING"
        /\ UNCHANGED <<api, handle, fault, quiet, unwound, hurried>>
    BY <1>4 DEF DriverResets, history
  <2>4. Types'
    <3>1. pc' \in [Procs -> Places] BY <1>0, <2>1, <2>2, PlacesKept
    <3>2. internal' \in BOOLEAN /\ event' \in BOOLEAN BY <1>4 DEF DriverResets
    <3>3. drain' \in Nat BY <1>4 DEF DriverResets
    <3>4. state' \in States BY <2>3 DEF States
    <3>5. UNCHANGED <<outputs, isRunning, runnable, woken, active, ret, wrote, asked>>
      BY <1>4 DEF DriverResets, threads, history
    <3> QED BY <1>0, <2>3, <3>1, <3>2, <3>3, <3>4, <3>5 DEF Types
  <2>5. /\ pc'["host"] = "idle" /\ pc'["worker"] = pc["worker"]
        /\ \A s \in Stoppers : pc'[s] = pc[s]
    BY <1>0, <2>1, <2>2, HostMoves
  <2>6. ~quiet BY <2>3 DEF RtInv, Common
  <2>7. Common' BY <2>3, <2>5, <2>6 DEF RtInv, Common
  <2>8. NoFault' BY <2>3 DEF RtInv, NoFault
  <2>9. OfDrivers'
    <3>1. ~hurried => NoStopper /\ pc["worker"] \in {"none", "out"} BY <2>3 DEF RtInv, OfDrivers, Calm
    <3>2. ~hurried => Calm'
      <4>1. NoStopper => NoStopper' BY <2>5 DEF NoStopper
      <4> QED BY <2>3, <2>5, <2>6, <3>1, <4>1 DEF Calm, Inside
    <3> QED BY <2>3, <2>5, <3>2 DEF RtInv, OfDrivers
  <2> QED BY <2>3, <2>4, <2>7, <2>8, <2>9 DEF RtInv, Threaded
<1>5. CASE DriverClose /\ Refuses("host", {"CLOSED"})
  BY <1>5, HostRefusesKeeps DEF DriverClose
<1>6. CASE DriverClose /\ ~Refuses("host", {"CLOSED"})
  <2>1. "joining" \in Places BY DEF Places
  <2>2. Goto("host", "joining") BY <1>6 DEF DriverClose
  <2>3. /\ pc["host"] = "close" /\ state # "CLOSED" /\ state' \in {state, "STOPPED"}
        /\ UNCHANGED <<api, handle, fault, quiet, unwound, hurried>>
    BY <1>6 DEF DriverClose, history
  <2>4. Types'
    <3>1. pc' \in [Procs -> Places] BY <1>0, <2>1, <2>2, PlacesKept
    <3>2. active' \in BOOLEAN BY <1>6 DEF DriverClose
    <3>3. state' \in States BY <1>0, <2>3 DEF States, Types
    <3>4. UNCHANGED <<outputs, isRunning, runnable, woken, drain, internal, event, ret, wrote, asked>>
      BY <1>6 DEF DriverClose, threads, history
    <3> QED BY <1>0, <2>3, <3>1, <3>2, <3>3, <3>4 DEF Types
  <2>5. /\ pc'["host"] = "joining" /\ pc'["worker"] = pc["worker"]
        /\ \A s \in Stoppers : pc'[s] = pc[s]
    BY <1>0, <2>1, <2>2, HostMoves
  <2>6. Common' BY <2>3, <2>5 DEF RtInv, Common
  <2>7. NoFault' BY <2>3 DEF RtInv, NoFault
  <2>8. OfDrivers'
    <3>1. ~hurried => Calm BY DEF RtInv, OfDrivers
    <3>2. NoStopper => NoStopper' BY <2>5 DEF NoStopper
    <3>3. ~hurried => Calm' BY <2>3, <2>5, <3>1, <3>2 DEF Calm
    <3> QED BY <2>3, <2>5, <3>3 DEF RtInv, OfDrivers
  <2> QED BY <2>3, <2>4, <2>6, <2>7, <2>8 DEF RtInv, Threaded
<1>7. CASE DriverCloses
  <2>1. pc' = [pc EXCEPT !["host"] = "idle", !["worker"] = "none"] BY <1>7 DEF DriverCloses
  <2>2. pc' \in [Procs -> Places] /\ pc'["host"] = "idle" /\ pc'["worker"] = "none"
    <3>1. "idle" \in Places /\ "none" \in Places BY DEF Places
    <3> QED BY <1>0, <2>1, <3>1, ProcsAreDistinct DEF Types
  <2>3. /\ state' = "CLOSED" /\ handle' = "none"
        /\ UNCHANGED <<api, fault, quiet, unwound>>
    BY <1>7 DEF DriverCloses
  <2>4. hurried' \in BOOLEAN /\ (hurried' <=> hurried \/ StopsItself)
    BY <1>0, <1>7 DEF DriverCloses, StopsItself, Types
  <2>5. Types'
    <3>1. active' \in BOOLEAN BY <1>7 DEF DriverCloses
    <3>2. UNCHANGED <<outputs, isRunning, runnable, woken, drain, internal, event, ret, wrote, asked>>
      BY <1>7 DEF DriverCloses, threads
    <3>3. state' \in States BY <2>3 DEF States
    <3> QED BY <1>0, <2>2, <2>3, <2>4, <3>1, <3>2, <3>3 DEF Types
  <2>6. Common' BY <2>2, <2>3 DEF RtInv, Common, Resting
  <2>7. NoFault' BY <2>3, <2>4 DEF RtInv, NoFault
  <2>8. OfDrivers'
    <3>1. ~hurried' => NoStopper' 
      <4>1. ~hurried' => NoStopper BY <2>4 DEF StopsItself, NoStopper
      <4>2. \A s \in Stoppers : pc'[s] = pc[s] BY <1>0, <2>1, ProcsAreDistinct DEF Types
      <4> QED BY <4>1, <4>2 DEF NoStopper
    <3>2. ~hurried' => Calm' BY <2>2, <2>3, <3>1 DEF Calm, Inside
    <3> QED BY <2>2, <2>3, <3>2 DEF RtInv, OfDrivers
  <2> QED BY <2>3, <2>5, <2>6, <2>7, <2>8 DEF RtInv, Threaded
<1> QED BY <1>1, <1>2, <1>3, <1>4, <1>5, <1>6, <1>7

-----------------------------------------------------------------------------
(* The theorems.                                                           *)

\* Every step of every process keeps the invariant.
LEMMA NextKeeps == RtInv /\ [Next]_vars => RtInv'
<1> SUFFICES ASSUME RtInv, [Next]_vars PROVE RtInv' OBVIOUS
<1>1. CASE HostCalls
  BY <1>1, OpenFirstKeeps, CallKeeps DEF HostCalls
<1>2. CASE HostStep
  <2>1. CASE OpenSecond \/ OpenUnwinds BY <2>1, OpenSecondKeeps, OpenUnwindsKeeps
  <2>2. CASE Faults("host") BY <2>2, FaultKeeps, ProcsAreDistinct
  <2>3. CASE Threaded /\ (ThreadMethods \/ ThreadStops("host"))
    BY <2>3, ThreadMethodsKeeps, ThreadStopsKeeps
  <2>4. CASE ~Threaded /\ (DriverMethodCalls \/ DriverStops("host"))
    BY <2>4, DriverMethodsKeeps, HostStopKeeps DEF DriverMethodCalls
  <2> QED BY <1>2, <2>1, <2>2, <2>3, <2>4 DEF HostStep
<1>3. CASE WorkerStep
  <2>1. CASE Faults("worker") BY <2>1, FaultKeeps, ProcsAreDistinct
  <2>2. CASE Threaded /\ (WorkerThread \/ ThreadStops("worker"))
    BY <2>2, WorkerThreadKeeps, ThreadStopsKeeps
  <2>3. CASE ~Threaded /\ WorkerDriver
    BY <2>3, WorkerDriverKeeps, WorkerAsksKeeps, OwnStopKeeps DEF WorkerDriver
  <2> QED BY <1>3, <2>1, <2>2, <2>3 DEF WorkerStep
<1>4. ASSUME NEW s \in Stoppers, StopperStep(s) PROVE RtInv'
  <2>1. s \in Procs BY ProcsAreDistinct
  <2> QED BY <1>4, <2>1, FaultKeeps, OwnStopKeeps DEF StopperStep
<1>5. CASE UNCHANGED vars
  BY <1>5
    DEF vars, shared, threads, drivers, history, RtInv, Types, Common, NoFault, OfThreads, OfDrivers, Calm,
              NoStopper, Threaded, ByEvent
<1> QED BY <1>1, <1>2, <1>3, <1>4, <1>5 DEF Next

\* The strengthening that is inductive.
THEOREM StreamInvariant == Spec => []RtInv
<1>1. Init => RtInv BY InitEstablishes DEF Init
<1> QED BY <1>1, NextKeeps, PTL DEF Spec

\* A stream that is open has its handle, through every error path of openStream,
\* closeStream and their back ends.
THEOREM OpenStreamsHaveTheirHandle == Spec => []TypeOK
<1>1. RtInv => TypeOK BY DEF RtInv, Types, Common, TypeOK
<1> QED BY <1>1, StreamInvariant, PTL

\* No thread uses a deleted handle, but for the two ways that NoFault names.
THEOREM HandlesOutliveTheirUsers == Spec => []NoFault
<1>1. RtInv => NoFault BY DEF RtInv
<1> QED BY <1>1, StreamInvariant, PTL

\* Who moves samples has not been stopped: the thread looks at the state under the
\* mutex, and the driver has been waited for.
LEMMA MovesAreLoud ==
  ASSUME RtInv, [Next]_vars, wrote', ~wrote
  PROVE  ~quiet \/ hurried
<1>1. CASE Threaded /\ ThreadMoves
  <2>1. MayMove
    <3>1. wrote' = (wrote \/ MayMove) BY <1>1 DEF ThreadMoves
    <3>2. MayMove \in BOOLEAN BY DEF MayMove
    <3> QED BY <3>1, <3>2
  <2>2. state # "STOPPED" BY <2>1 DEF MayMove
  <2>3. state # "CLOSED" BY <1>1 DEF ThreadMoves, RtInv, Common
  <2>4. state = "RUNNING" BY <1>1, <2>2, <2>3 DEF RtInv, Types, States, OfThreads
  <2> QED BY <2>4 DEF RtInv, Common
<1>2. CASE ~Threaded /\ DriverMoves
  <2>1. pc["worker"] \in Inside BY <1>2 DEF DriverMoves, Inside
  <2> QED BY <1>2, <2>1 DEF RtInv, OfDrivers, Calm
<1>3. wrote' = wrote \/ wrote' = FALSE \/ (Threaded /\ ThreadMoves) \/ (~Threaded /\ DriverMoves)
  <2>1. HostCalls => wrote' = wrote BY DEF HostCalls, OpenFirst, Call
  <2>2. \A p : (\E S : Refuses(p, S)) \/ Faults(p) => wrote' = wrote BY DEF Refuses, Faults
  <2>3. ThreadMethods => wrote' = wrote
    BY DEF ThreadMethods, Refuses, ThreadStart, ThreadStarts, OssSignals, ThreadClose, ThreadCloseWakes, ThreadCloses
  <2>4. \A p : ThreadStops(p) => wrote' = wrote
    BY DEF ThreadStops, Refuses, ThreadStop, ThreadMarks, AlsaHalts, PulseHalts, OssHalts, Halts
  <2>5. WorkerThread => wrote' = wrote \/ wrote' = FALSE \/ ThreadMoves
    BY DEF WorkerThread, ThreadLoops, EventBegins, ThreadWaits, ThreadCalls, ThreadCallReturns
  <2>6. \A p : DriverStops(p) \/ DriverAbort(p) => wrote' = wrote
    BY DEF DriverStops, Refuses, DriverAbort, DriverStop, DriverDrains, DriverCounts, DriverDozes, DriverWaits,
           DriverHalts, DriverStopped
  <2>7. DriverMethodCalls => wrote' = wrote
    BY <2>6
      DEF DriverMethodCalls, Refuses, DriverStart, DriverStarts, DriverResets, DriverClose, DriverCloses
  <2>8. WorkerDriver => wrote' = wrote \/ wrote' = FALSE \/ DriverMoves
    BY <2>6
      DEF WorkerDriver, DriverCalls, CallbackBegins, DriverHasDrained, DriverCallReturns, DriverCallAborts
  <2>9. OpenSecond \/ OpenUnwinds => wrote' = wrote BY DEF OpenSecond, OpenUnwinds
  <2>10. UNCHANGED vars => wrote' = wrote BY DEF vars
  <2>11. HostStep => wrote' = wrote BY <2>2, <2>3, <2>4, <2>6, <2>7, <2>9 DEF HostStep
  <2>12. WorkerStep => wrote' = wrote \/ wrote' = FALSE \/ (Threaded /\ ThreadMoves) \/ (~Threaded /\ DriverMoves)
    BY <2>2, <2>4, <2>5, <2>8 DEF WorkerStep
  <2>13. \A s \in Stoppers : StopperStep(s) => wrote' = wrote BY <2>2, <2>6 DEF StopperStep
  <2> QED BY <2>1, <2>10, <2>11, <2>12, <2>13 DEF Next
<1> QED BY <1>1, <1>2, <1>3

\* Nothing is played after a stop.
THEOREM NothingAfterStop == Spec => QuietAfterStop
<1>1. RtInv /\ [Next]_vars => (wrote' /\ ~wrote => ~quiet \/ hurried)
  BY MovesAreLoud
<1> QED BY <1>1, StreamInvariant, PTL DEF Spec, QuietAfterStop
=============================================================================
