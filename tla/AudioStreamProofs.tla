------------------------- MODULE AudioStreamProofs -------------------------
(***************************************************************************)
(* Proofs about AudioStream, for every set of drivers, every delay of the  *)
(* threads and every failure of CreateBuffers, in three parts:             *)
(*                                                                         *)
(*   drivers open one at a time or together                                *)
(*   one driver open at a time: the callback manager lives exactly as long *)
(*     as the driver's buffers, and no thread uses it afterwards, although *)
(*     cleanup_asio_callback_manager stops waiting for the Wine thread     *)
(*     after 5 s; and until a wait of 100 ms has timed out, the hand-over  *)
(*     of a half is in step: nobody copies what the host works on, and     *)
(*     DisposeBuffers waits for the host                                   *)
(*   a Wine thread that is never late besides: the hand-over is a          *)
(*     synchronous call (the module SynchronousCall) and no fault happens  *)
(***************************************************************************)
EXTENDS AudioStream, TLAPS

\* The states of the application's thread after DisposeDisconnects.
Leaving == {"dropping", "cleanup", "waking", "joining"}
Cleaning == {"cleanup", "waking", "joining"}

\* Which state a driver is in while one of its methods is in progress.
MethodInv ==
  \A d \in Drivers :
    app.on = d =>
      /\ app.at \in {"starting"} => asio_driver_state[d] = "Prepared"
      /\ app.at = "stopping" => asio_driver_state[d] = "Running"
      /\ app.at \in Leaving => asio_driver_state[d] \in {"Prepared", "Initialized"}
      /\ app.at = "dropping" => asio_driver_state[d] = "Prepared"
      /\ app.at \in Leaving /\ asio_driver_state[d] = "Prepared"
           => pw_filter[d] = "none"

\* A cycle in flight is one of a driver that has its callbacks and that no
\* DisposeBuffers has disconnected.
CycleInv ==
  \A d \in Drivers :
    rt[d] # "idle" =>
      /\ asio_driver_state[d] \in {"Prepared", "Running"}
      /\ asio_callbacks[d]
      /\ app.on = d => app.at \notin Leaving

\* A prepared driver has callbacks, until DisposeFrees takes them away.
CallbackInv ==
  \A d \in Drivers :
    /\ asio_driver_state[d] \in {"Prepared", "Running"}
    /\ app.on = d => app.at \notin Cleaning
    => asio_callbacks[d]

\* A manager with a thread has a request pending only for a driver between
\* CreateBuffers and the end of DisposeBuffers: no later CreateBuffers, whether
\* it succeeds or not, gives its callbacks back to a forgotten request.
RequestInv ==
  callback_pending /\ callback_thread =>
    /\ request.This \in Drivers
    /\ asio_driver_state[request.This] \in {"Prepared", "Running"}

\* The inductive invariant.
StreamInv ==
  /\ TypeOK
  /\ MethodInv
  /\ CycleInv
  /\ CallbackInv
  /\ RequestInv
  /\ RequestIsWoken

-----------------------------------------------------------------------------
(* What a step of one thread leaves alone.                                 *)

\* A step of the process callback changes neither the driver's state and
\* filter, nor its callbacks, nor the manager's handle and exit flag.
LEMMA ProcessFrame ==
  ASSUME NEW d \in Drivers, Process(d)
  PROVE  UNCHANGED <<asio_driver_state, pw_filter, wine_buffers, asio_callbacks,
                     app, callback_thread, thread_should_exit, wine>>
<1>1. CASE ProcessBegin(d) \/ ProcessInput(d) \/ ProcessCall(d)
  BY <1>1 DEF ProcessBegin, ProcessInput, ProcessCall, managerVars, lockVars,
              driverVars
<1>2. CASE ProcessOutput(d) \/ ProcessOnFreedDriver(d)
  BY <1>2 DEF ProcessOutput, ProcessOnFreedDriver, managerVars, lockVars,
              streamVars, driverVars
<1>3. CASE Marshal(d) /\ UNCHANGED <<driverVars, app>>
  <2>1. UNCHANGED <<asio_driver_state, pw_filter, wine_buffers, app>>
    BY <1>3 DEF driverVars
  <2>2. UNCHANGED <<asio_callbacks, callback_thread, thread_should_exit, wine>>
    BY <1>3 DEF Marshal, MarshalPost, MarshalSkip, MarshalSignal,
                MarshalCompleted, MarshalTimeout, MarshalOnDeletedLock,
                managerVars, lockVars, streamVars
  <2> QED BY <2>1, <2>2
<1> QED BY <1>1, <1>2, <1>3 DEF Process

\* A step of the Wine thread, or the return of the host, changes neither a
\* data thread nor a driver, nor the request, the handle and the exit flag.
LEMMA WineFrame ==
  ASSUME Wine \/ HostReturns
  PROVE  UNCHANGED <<asio_driver_state, pw_filter, wine_buffers, asio_callbacks, app,
                     callback_thread, thread_should_exit, rt, half, request, given_up>>
<1>1. CASE WineStep /\ UNCHANGED <<driverVars, app>>
  BY <1>1 DEF WineStep, WineWoken, WinePoll, WineEnter, WineCall, WineCallThroughNull,
              WineLeave, WineSignal, WineOnDeletedLock, driverVars,
              managerVars, lockVars, requestVars, streamVars
<1>2. CASE HostReturns
  BY <1>2 DEF HostReturns, WineReturn, driverVars, lockVars, streamVars
<1> QED BY <1>1, <1>2 DEF Wine

-----------------------------------------------------------------------------
(* Types.                                                                  *)

\* The initial state is well typed.
LEMMA TypeInit == Init => TypeOK
<1> SUFFICES ASSUME Init PROVE TypeOK
  OBVIOUS
<1>1. ManagerTypeOK
  BY DEF Init, ManagerInit, ManagerTypeOK, WinePoints, ProcessPoints, Faults
<1>2. app \in [at : AppPoints, on : Drivers \cup {NoDriver}]
  BY DEF Init, AppPoints
<1> QED BY <1>1, <1>2 DEF Init, TypeOK, DriverStates

\* A step of a data thread keeps the types.
LEMMA TypeProcess ==
  ASSUME TypeOK, NEW d \in Drivers, Process(d)
  PROVE  TypeOK'
<1> USE DEF TypeOK, ManagerTypeOK, ProcessPoints
<1>1. CASE ProcessBegin(d)
  BY <1>1 DEF ProcessBegin, Moves, managerVars, lockVars, eventVars, requestVars, driverVars
<1>2. CASE ProcessInput(d)
  BY <1>2 DEF ProcessInput, Moves, managerVars, lockVars, eventVars, requestVars, driverVars
<1>3. CASE ProcessCall(d)
  BY <1>3 DEF ProcessCall, Moves, managerVars, lockVars, eventVars, requestVars, driverVars
<1>4. CASE ProcessOutput(d)
  <2>1. 1 - asio_buffer_index[d] \in {0, 1}
    OBVIOUS
  <2> QED
    BY <1>4, <2>1 DEF ProcessOutput, Moves, managerVars, lockVars, eventVars, requestVars
<1>5. CASE ProcessOnFreedDriver(d)
  BY <1>5 DEF ProcessOnFreedDriver, Faults, managerVars, lockVars, eventVars,
              requestVars, streamVars, driverVars
<1>6. CASE Marshal(d) /\ UNCHANGED <<driverVars, app>>
  <2> USE <1>6 DEF driverVars, managerVars, lockVars, eventVars, requestVars, Moves
  <2>1. CASE MarshalPost(d)
    BY <2>1 DEF MarshalPost
  <2>2. CASE MarshalSkip(d)
    BY <2>2 DEF MarshalSkip
  <2>3. CASE MarshalSignal(d)
    BY <2>3 DEF MarshalSignal
  <2>4. CASE MarshalCompleted(d)
    BY <2>4 DEF MarshalCompleted
  <2>5. CASE MarshalTimeout(d)
    BY <2>5 DEF MarshalTimeout
  <2>6. CASE MarshalOnDeletedLock(d)
    BY <2>6 DEF MarshalOnDeletedLock, Faults, streamVars
  <2> QED BY <2>1, <2>2, <2>3, <2>4, <2>5, <2>6 DEF Marshal
<1> QED BY <1>1, <1>2, <1>3, <1>4, <1>5, <1>6 DEF Process

\* A step of the Wine thread keeps the types.
LEMMA TypeWine ==
  ASSUME TypeOK, Wine \/ HostReturns
  PROVE  TypeOK'
<1> USE DEF TypeOK, ManagerTypeOK, WinePoints, WineMoves, driverVars, lockVars,
            eventVars, requestVars, streamVars
<1>1. CASE WineStep /\ UNCHANGED <<driverVars, app>>
  <2>1. CASE WineWoken
    BY <1>1, <2>1 DEF WineWoken
  <2>2. CASE WinePoll
    BY <1>1, <2>2 DEF WinePoll
  <2>3. CASE WineEnter
    BY <1>1, <2>3 DEF WineEnter
  <2>4. CASE WineCallThroughNull
    BY <1>1, <2>4 DEF WineCallThroughNull, Faults, managerVars
  <2>5. CASE WineLeave
    BY <1>1, <2>5 DEF WineLeave
  <2>6. CASE WineSignal
    BY <1>1, <2>6 DEF WineSignal
  <2>7. CASE WineOnDeletedLock
    BY <1>1, <2>7 DEF WineOnDeletedLock, Faults, managerVars
  <2>8. CASE WineCall
    BY <1>1, <2>8 DEF WineCall
  <2> QED BY <1>1, <2>1, <2>2, <2>3, <2>4, <2>5, <2>6, <2>7, <2>8 DEF WineStep
<1>2. CASE HostReturns
  BY <1>2 DEF HostReturns, WineReturn
<1> QED BY <1>1, <1>2 DEF Wine

\* A step of the application's thread keeps the types.
LEMMA TypeMethod ==
  ASSUME TypeOK, NEW d \in Drivers, Method(d)
  PROVE  TypeOK'
<1> USE DEF TypeOK, ManagerTypeOK, DriverStates, AppPoints
<1>1. CASE Open(d)
  BY <1>1 DEF Open, StateOf, managerVars, lockVars, eventVars, requestVars, streamVars
<1>2. CASE CreateBuffers(d) \/ CreateBuffersFails(d) \/ CreateBuffersUnderLiveThread(d)
  <2>1. Prepares(d)
    BY <1>2 DEF CreateBuffers, CreateBuffersFails, CreateBuffersUnderLiveThread
  <2>2. /\ asio_callbacks' \in [Drivers -> BOOLEAN]
        /\ pw_filter' \in [Drivers -> {"none", "present", "connected"}]
        /\ wine_buffers' \in [Drivers -> BOOLEAN]
        /\ UNCHANGED <<rt, half, asio_buffer_index, app>>
    BY <2>1 DEF Prepares
  <2>3. asio_driver_state' \in [Drivers -> DriverStates]
    BY <1>2 DEF CreateBuffers, CreateBuffersFails, CreateBuffersUnderLiveThread, StateOf
  <2>4. CASE InitKept
    BY <2>2, <2>3, <2>4 DEF InitKept, managerVars, lockVars, eventVars, requestVars
  <2>5. CASE InitCreates(d)
    BY <2>2, <2>3, <2>5 DEF InitCreates, WinePoints
  <2>6. CASE \E what \in Failures \cap {"events", "thread"} : InitFails(d, what)
    BY <2>2, <2>3, <2>6 DEF InitFails
  <2>7. CASE InitUnderLiveThread
    BY <2>2, <2>3, <2>7 DEF InitUnderLiveThread, managerVars, lockVars, eventVars,
                            requestVars, Faults
  <2> QED
    BY <1>2, <2>4, <2>5, <2>6, <2>7
       DEF CreateBuffers, CreateBuffersFails, CreateBuffersUnderLiveThread
<1>3. CASE StartClears(d) \/ StopClears(d)
  BY <1>3 DEF StartClears, StopClears, Enters, managerVars, lockVars, eventVars,
              requestVars, streamVars, driverVars
<1>4. CASE StartRuns(d) \/ StopReturns(d)
  BY <1>4 DEF StartRuns, StopReturns, StateOf, Returns, managerVars, lockVars,
              eventVars, requestVars, streamVars
<1>5. CASE DisposeDisconnects(d)
  BY <1>5 DEF DisposeDisconnects, Enters, managerVars, lockVars, eventVars,
              requestVars, streamVars
<1>6. CASE DisposeFrees(d)
  BY <1>6 DEF DisposeFrees, Steps, managerVars, lockVars, eventVars, requestVars
<1>7. CASE Release(d)
  BY <1>7 DEF Release, Enters, managerVars, lockVars, eventVars, requestVars,
              streamVars, driverVars
<1>8. CASE CleanupNothing(d)
  BY <1>8 DEF CleanupNothing, Finishes, StateOf, Returns, managerVars, lockVars,
              eventVars, requestVars, streamVars
<1>9. CASE CleanupStarts(d)
  BY <1>9 DEF CleanupStarts, CleanupRequest, Steps, lockVars, eventVars,
              requestVars, streamVars, driverVars
<1>10. CASE CleanupWakes(d)
  BY <1>10 DEF CleanupWakes, CleanupWake, Steps, lockVars, requestVars,
               streamVars, driverVars
<1>11. CASE CleanupEnds(d)
  <2>1. wine' \in WinePoints
    BY <1>11 DEF CleanupEnds, CleanupReset, WinePoints
  <2> QED
    BY <1>11, <2>1 DEF CleanupEnds, CleanupReset, Finishes, StateOf, Returns, streamVars
<1>12. CASE CreateBuffersStops(d)
  BY <1>12 DEF CreateBuffersStops, managerVars, lockVars, eventVars, requestVars
<1> QED
  BY <1>1, <1>2, <1>3, <1>4, <1>5, <1>6, <1>7, <1>8, <1>9, <1>10, <1>11, <1>12
     DEF Method, MethodStep

\* Every step keeps the types.
LEMMA TypeStep == TypeOK /\ [Next]_vars => TypeOK'
<1> SUFFICES ASSUME TypeOK, [Next]_vars PROVE TypeOK'
  OBVIOUS
<1>1. CASE UNCHANGED vars
  BY <1>1 DEF vars, managerVars, lockVars, eventVars, requestVars, streamVars,
              driverVars, TypeOK, ManagerTypeOK
<1>2. CASE Step
  BY <1>2, TypeWine, TypeProcess, TypeMethod DEF Step
<1> QED BY <1>1, <1>2 DEF Next, Halted

\* Type correctness of the audio path, for all constants.
THEOREM TypeCorrect == Spec => []TypeOK
BY TypeInit, TypeStep, PTL DEF Spec

-----------------------------------------------------------------------------
(* The invariant: methods, cycles and callbacks.                           *)

\* The methods follow the driver's states.
LEMMA MethodStepInv ==
  ASSUME StreamInv, [Next]_vars
  PROVE  MethodInv'
<1> USE DEF StreamInv, TypeOK, MethodInv, Leaving
<1>1. CASE UNCHANGED <<app, asio_driver_state, pw_filter>>
  BY <1>1
<1>2. ASSUME NEW d \in Drivers, Method(d) PROVE MethodInv'
  <2>1. CASE Open(d)
    BY <2>1 DEF Open, StateOf, AppPoints
  <2>2. CASE CreateBuffers(d) \/ CreateBuffersFails(d) \/ CreateBuffersUnderLiveThread(d)
    BY <2>2 DEF CreateBuffers, CreateBuffersFails, CreateBuffersUnderLiveThread,
                Prepares, StateOf, AppPoints
  <2>3. CASE StartClears(d) \/ StopClears(d)
    BY <2>3 DEF StartClears, StopClears, Enters, driverVars
  <2>4. CASE StartRuns(d) \/ StopReturns(d)
    BY <2>4 DEF StartRuns, StopReturns, Returns
  <2>5. CASE DisposeDisconnects(d) \/ Release(d)
    BY <2>5 DEF DisposeDisconnects, Release, Enters, driverVars
  <2>6. CASE DisposeFrees(d) \/ CleanupStarts(d) \/ CleanupWakes(d)
    BY <2>6 DEF DisposeFrees, CleanupStarts, CleanupWakes, Steps, driverVars
  <2>7. CASE CleanupNothing(d) \/ CleanupEnds(d)
    BY <2>7 DEF CleanupNothing, CleanupEnds, Finishes, Returns
  <2>8. CASE CreateBuffersStops(d)
    BY <2>8 DEF CreateBuffersStops
  <2> QED BY <1>2, <2>1, <2>2, <2>3, <2>4, <2>5, <2>6, <2>7, <2>8 DEF Method, MethodStep
<1>3. CASE Step
  BY <1>1, <1>2, <1>3, ProcessFrame, WineFrame DEF Step
<1> QED BY <1>1, <1>3 DEF Next, Halted, vars, driverVars

\* No method takes a driver away under a process cycle in flight.
LEMMA CycleStepInv ==
  ASSUME StreamInv, [Next]_vars
  PROVE  CycleInv'
<1> USE DEF StreamInv, TypeOK, ManagerTypeOK, CycleInv, Leaving
<1>1. CASE UNCHANGED <<rt, app, asio_driver_state, asio_callbacks>>
  BY <1>1
<1>2. ASSUME NEW d \in Drivers, Process(d) PROVE CycleInv'
  <2>1. UNCHANGED <<app, asio_driver_state, asio_callbacks>>
    BY <1>2, ProcessFrame
  <2>2. CASE ProcessBegin(d)
    <3>1. app.on = d => app.at \notin Leaving
      BY <2>2 DEF ProcessBegin, MethodInv
    <3> QED
      BY <2>1, <2>2, <3>1 DEF ProcessBegin, Moves
  <2>3. ASSUME ~ProcessBegin(d) PROVE \A e \in Drivers : rt'[e] # "idle" => rt[e] # "idle"
    BY <1>2, <2>3 DEF Process, ProcessInput, ProcessCall, ProcessOutput,
       ProcessOnFreedDriver, Marshal, MarshalPost, MarshalSkip, MarshalSignal,
       MarshalCompleted, MarshalTimeout, MarshalOnDeletedLock, Moves, streamVars
  <2> QED BY <2>1, <2>2, <2>3
<1>3. ASSUME NEW d \in Drivers, Method(d) PROVE CycleInv'
  <2>1. CASE Open(d)
    BY <2>1 DEF Open, StateOf, streamVars
  <2>2. CASE CreateBuffers(d) \/ CreateBuffersFails(d) \/ CreateBuffersUnderLiveThread(d)
    BY <2>2 DEF CreateBuffers, CreateBuffersFails, CreateBuffersUnderLiveThread,
                Prepares, StateOf
  <2>3. CASE StartClears(d) \/ StopClears(d)
    BY <2>3 DEF StartClears, StopClears, Enters, streamVars, driverVars
  <2>4. CASE StartRuns(d) \/ StopReturns(d)
    BY <2>4 DEF StartRuns, StopReturns, StateOf, Returns, streamVars
  <2>5. CASE DisposeDisconnects(d) \/ Release(d)
    BY <2>5 DEF DisposeDisconnects, Release, Enters, driverVars, streamVars
  <2>6. CASE DisposeFrees(d)
    BY <2>6 DEF DisposeFrees, Steps
  <2>7. CASE CleanupStarts(d) \/ CleanupWakes(d)
    BY <2>7 DEF CleanupStarts, CleanupWakes, Steps, driverVars, streamVars
  <2>8. CASE CleanupNothing(d) \/ CleanupEnds(d)
    BY <2>8 DEF CleanupNothing, CleanupEnds, Finishes, StateOf, Returns, streamVars
  <2>9. CASE CreateBuffersStops(d)
    BY <2>9 DEF CreateBuffersStops
  <2> QED
    BY <1>3, <2>1, <2>2, <2>3, <2>4, <2>5, <2>6, <2>7, <2>8, <2>9 DEF Method, MethodStep
<1>4. CASE Step
  BY <1>1, <1>2, <1>3, <1>4, WineFrame DEF Step
<1> QED BY <1>1, <1>4 DEF Next, Halted, vars, driverVars, streamVars

\* Only DisposeFrees takes the callbacks of a prepared driver away.
LEMMA CallbackStepInv ==
  ASSUME StreamInv, [Next]_vars
  PROVE  CallbackInv'
<1> USE DEF StreamInv, TypeOK, ManagerTypeOK, CallbackInv, Cleaning
<1>1. CASE UNCHANGED <<app, asio_driver_state, asio_callbacks>>
  BY <1>1
<1>2. ASSUME NEW d \in Drivers, Method(d) PROVE CallbackInv'
  <2>1. CASE Open(d)
    BY <2>1 DEF Open, StateOf, streamVars
  <2>2. CASE CreateBuffers(d) \/ CreateBuffersFails(d) \/ CreateBuffersUnderLiveThread(d)
    BY <2>2 DEF CreateBuffers, CreateBuffersFails, CreateBuffersUnderLiveThread,
                Prepares, StateOf
  <2>3. CASE StartClears(d) \/ StopClears(d)
    BY <2>3 DEF StartClears, StopClears, Enters, streamVars, driverVars
  <2>4. CASE StartRuns(d) \/ StopReturns(d)
    BY <2>4 DEF StartRuns, StopReturns, StateOf, Returns, streamVars, MethodInv
  <2>5. CASE DisposeDisconnects(d) \/ Release(d)
    BY <2>5 DEF DisposeDisconnects, Release, Enters, driverVars, streamVars
  <2>6. CASE DisposeFrees(d)
    BY <2>6 DEF DisposeFrees, Steps
  <2>7. CASE CleanupStarts(d) \/ CleanupWakes(d)
    BY <2>7 DEF CleanupStarts, CleanupWakes, Steps, driverVars, streamVars
  <2>8. CASE CleanupNothing(d) \/ CleanupEnds(d)
    BY <2>8 DEF CleanupNothing, CleanupEnds, Finishes, StateOf, Returns, streamVars
  <2>9. CASE CreateBuffersStops(d)
    BY <2>9 DEF CreateBuffersStops
  <2> QED
    BY <1>2, <2>1, <2>2, <2>3, <2>4, <2>5, <2>6, <2>7, <2>8, <2>9 DEF Method, MethodStep
<1>3. CASE Step
  BY <1>1, <1>2, <1>3, ProcessFrame, WineFrame DEF Step
<1> QED BY <1>1, <1>3 DEF Next, Halted, vars, driverVars, streamVars

-----------------------------------------------------------------------------
(* The invariant: the pending request.                                     *)

\* A request is posted by a driver that is Prepared or Running, and the cleanup
\* that ends DisposeBuffers drops it, unless there is no manager any more.
LEMMA RequestStepInv ==
  ASSUME StreamInv, [Next]_vars
  PROVE  RequestInv'
<1> USE DEF StreamInv, TypeOK, ManagerTypeOK, RequestInv
<1>1. CASE UNCHANGED <<callback_pending, request, callback_thread, asio_driver_state>>
  BY <1>1
<1>2. CASE ~callback_pending' \/ ~callback_thread'
  BY <1>2
<1>3. ASSUME NEW d \in Drivers, Process(d) PROVE RequestInv'
  <2>1. UNCHANGED <<asio_driver_state, callback_thread>>
    BY <1>3, ProcessFrame
  <2>2. CASE MarshalPost(d)
    BY <2>1, <2>2 DEF MarshalPost, Moves, CycleInv
  <2>3. ASSUME ~MarshalPost(d) PROVE UNCHANGED <<callback_pending, request>>
    BY <1>3, <2>3 DEF Process, ProcessBegin, ProcessInput, ProcessCall, ProcessOutput,
       ProcessOnFreedDriver, Marshal, MarshalSkip, MarshalSignal, MarshalCompleted,
       MarshalTimeout, MarshalOnDeletedLock, managerVars, requestVars
  <2> QED BY <1>1, <2>1, <2>2, <2>3
<1>4. ASSUME Wine \/ HostReturns PROVE RequestInv'
  <2>1. UNCHANGED <<request, asio_driver_state, callback_thread>>
    BY <1>4, WineFrame
  <2>2. callback_pending' => callback_pending
    BY <1>4 DEF Wine, HostReturns, WineStep, WineWoken, WinePoll, WineEnter,
       WineCall, WineCallThroughNull, WineReturn, WineLeave, WineSignal,
       WineOnDeletedLock, managerVars, requestVars
  <2> QED BY <2>1, <2>2
<1>5. ASSUME NEW d \in Drivers, Method(d) PROVE RequestInv'
  <2> USE DEF managerVars, lockVars, requestVars, driverVars
  <2>1. CASE Release(d) \/ StartClears(d) \/ StopClears(d) \/ DisposeDisconnects(d)
             \/ DisposeFrees(d) \/ CleanupStarts(d) \/ CleanupWakes(d)
             \/ CreateBuffersStops(d)
    BY <1>1, <2>1 DEF Release, StartClears, StopClears, DisposeDisconnects, DisposeFrees,
       CleanupStarts, CleanupWakes, CleanupRequest, CleanupWake, CreateBuffersStops
  <2>2. CASE CreateBuffers(d) \/ CreateBuffersFails(d) \/ CreateBuffersUnderLiveThread(d)
    <3>1. \A e \in Drivers : asio_driver_state[e] \in {"Prepared", "Running"}
            => asio_driver_state'[e] \in {"Prepared", "Running"}
      BY <2>2 DEF CreateBuffers, CreateBuffersFails, CreateBuffersUnderLiveThread, StateOf
    <3>2. UNCHANGED <<callback_pending, request, callback_thread>> \/ ~callback_pending'
      BY <2>2 DEF CreateBuffers, CreateBuffersFails, CreateBuffersUnderLiveThread,
         InitKept, InitCreates, InitFails, InitUnderLiveThread
    <3> QED BY <1>2, <3>1, <3>2
  <2>3. CASE Open(d)
    BY <2>3 DEF Open, StateOf
  <2>4. CASE StartRuns(d) \/ StopReturns(d)
    <3>1. \A e \in Drivers : asio_driver_state[e] \in {"Prepared", "Running"}
            => asio_driver_state'[e] \in {"Prepared", "Running"}
      BY <2>4 DEF StartRuns, StopReturns, StateOf
    <3>2. UNCHANGED <<callback_pending, request, callback_thread>>
      BY <2>4 DEF StartRuns, StopReturns
    <3> QED BY <3>1, <3>2
  <2>5. CASE CleanupNothing(d)
    BY <1>2, <2>5 DEF CleanupNothing
  <2>6. CASE CleanupEnds(d)
    BY <1>2, <2>6 DEF CleanupEnds, CleanupReset
  <2> QED BY <1>5, <2>1, <2>2, <2>3, <2>4, <2>5, <2>6 DEF Method, MethodStep
<1>6. CASE Step
  BY <1>3, <1>4, <1>5, <1>6 DEF Step
<1> QED BY <1>1, <1>6 DEF Next, Halted, vars, driverVars, managerVars, lockVars, requestVars

\* The event of a posted request is set once for each post, and consumed only
\* by a Wine thread that then looks for the request under the lock.
LEMMA WokenStepInv ==
  ASSUME StreamInv, [Next]_vars
  PROVE  RequestIsWoken'
<1> USE DEF StreamInv, TypeOK, ManagerTypeOK, RequestInv, RequestIsWoken
<1>1. CASE UNCHANGED <<managerVars, rt, asio_callbacks>>
  BY <1>1 DEF managerVars, lockVars, eventVars, requestVars
<1>2. CASE ~callback_pending'
  BY <1>2
<1>3. ASSUME NEW d \in Drivers, Process(d) PROVE RequestIsWoken'
  <2> USE DEF Moves, managerVars, lockVars, eventVars, requestVars, streamVars
  <2>1. CASE ProcessBegin(d) \/ ProcessInput(d) \/ ProcessCall(d) \/ ProcessOutput(d)
    <3>1. UNCHANGED <<managerVars, asio_callbacks>>
      BY <2>1 DEF ProcessBegin, ProcessInput, ProcessCall, ProcessOutput
    <3>2. \A e \in Drivers : rt[e] = "signal" => rt'[e] = "signal"
      BY <2>1 DEF ProcessBegin, ProcessInput, ProcessCall, ProcessOutput
    <3> QED BY <3>1, <3>2
  <2>2. CASE MarshalPost(d)
    BY <2>2 DEF MarshalPost
  <2>3. CASE MarshalSignal(d)
    BY <2>3 DEF MarshalSignal
  <2>4. CASE MarshalSkip(d) \/ MarshalCompleted(d) \/ MarshalTimeout(d)
    <3>1. UNCHANGED <<callback_pending, request, callback_event, wine, callback_thread,
                      thread_should_exit, asio_callbacks>>
      BY <2>4 DEF MarshalSkip, MarshalCompleted, MarshalTimeout
    <3>2. \A e \in Drivers : rt[e] = "signal" => rt'[e] = "signal"
      BY <2>4 DEF MarshalSkip, MarshalCompleted, MarshalTimeout
    <3> QED BY <3>1, <3>2
  <2>5. CASE MarshalOnDeletedLock(d) \/ ProcessOnFreedDriver(d)
    BY <2>5 DEF MarshalOnDeletedLock, ProcessOnFreedDriver
  <2> QED BY <1>3, <2>1, <2>2, <2>3, <2>4, <2>5 DEF Process, Marshal
<1>4. ASSUME Wine \/ HostReturns PROVE RequestIsWoken'
  <2> USE DEF WineMoves, managerVars, lockVars, eventVars, requestVars, streamVars
  <2>1. CASE WineWoken \/ WinePoll
    BY <2>1 DEF WineWoken, WinePoll
  <2>2. CASE WineEnter
    BY <2>2, ManagerAssumption DEF WineEnter
  <2>3. CASE WineCall
    BY <2>3 DEF WineCall
  <2>4. CASE WineReturn
    BY <1>2, <2>4 DEF WineReturn
  <2>5. CASE WineLeave \/ WineSignal
    BY <2>5 DEF WineLeave, WineSignal
  <2>6. CASE WineCallThroughNull \/ WineOnDeletedLock
    BY <2>6 DEF WineCallThroughNull, WineOnDeletedLock
  <2> QED BY <1>4, <2>1, <2>2, <2>3, <2>4, <2>5, <2>6 DEF Wine, WineStep, HostReturns
<1>5. ASSUME NEW d \in Drivers, Method(d) PROVE RequestIsWoken'
  <2> USE DEF managerVars, lockVars, eventVars, requestVars, streamVars
  <2>1. CASE Open(d) \/ StartClears(d) \/ StopClears(d) \/ StartRuns(d) \/ StopReturns(d)
             \/ Release(d) \/ DisposeDisconnects(d) \/ CleanupNothing(d)
    BY <1>1, <2>1, ZenonT(60)
       DEF Open, StartClears, StopClears, StartRuns, StopReturns, Release, DisposeDisconnects,
           CleanupNothing, Finishes
  <2>2. CASE CreateBuffers(d) \/ CreateBuffersFails(d) \/ CreateBuffersUnderLiveThread(d)
    <3>1. Prepares(d)
      BY <2>2 DEF CreateBuffers, CreateBuffersFails, CreateBuffersUnderLiveThread
    <3>2. UNCHANGED managerVars \/ ~callback_pending'
      BY <2>2 DEF CreateBuffers, CreateBuffersFails, CreateBuffersUnderLiveThread,
         InitKept, InitCreates, InitFails, InitUnderLiveThread
    <3> QED BY <1>2, <3>1, <3>2 DEF Prepares
  <2>3. CASE DisposeFrees(d)
    BY <2>3 DEF DisposeFrees
  <2>4. CASE CleanupStarts(d)
    BY <2>4 DEF CleanupStarts, CleanupRequest
  <2>5. CASE CleanupWakes(d)
    BY <2>5 DEF CleanupWakes, CleanupWake
  <2>6. CASE CleanupEnds(d)
    BY <1>2, <2>6 DEF CleanupEnds, CleanupReset
  <2>7. CASE CreateBuffersStops(d)
    BY <2>7 DEF CreateBuffersStops
  <2> QED BY <1>5, <2>1, <2>2, <2>3, <2>4, <2>5, <2>6, <2>7 DEF Method, MethodStep
<1>6. CASE Step
  BY <1>3, <1>4, <1>5, <1>6 DEF Step
<1> QED BY <1>1, <1>6 DEF Next, Halted, vars, streamVars

\* StreamInv is an inductive invariant.
THEOREM StreamInvariant == Spec => []StreamInv
<1>1. Init => StreamInv
  <2> SUFFICES ASSUME Init PROVE StreamInv
    OBVIOUS
  <2>1. MethodInv
    BY ManagerAssumption DEF Init, MethodInv
  <2> QED
    BY <2>1, TypeInit DEF Init, ManagerInit, StreamInv, CycleInv, CallbackInv,
                          RequestInv, RequestIsWoken
<1>2. StreamInv /\ [Next]_vars => StreamInv'
  BY TypeStep, MethodStepInv, CycleStepInv, CallbackStepInv, RequestStepInv,
     WokenStepInv DEF StreamInv
<1> QED BY <1>1, <1>2, PTL DEF Spec

\* No wake-up is lost in marshal_asio_callback: whatever the delays of the
\* Wine thread and however many drivers share the manager, a pending request
\* always has its event set, about to be set, or consumed by a thread that is
\* on its way to the request, unless the manager or the callbacks are going.
THEOREM NoLostWakeup == Spec => []RequestIsWoken
<1>1. StreamInv => RequestIsWoken
  BY DEF StreamInv
<1> QED BY <1>1, StreamInvariant, PTL

-----------------------------------------------------------------------------
(* One driver open at a time.                                              *)

Buffered == {"Prepared", "Running"}
Opened == {"Initialized", "Prepared", "Running"}

\* The application has one driver open at a time.
OneDriver ==
  \A d, e \in Drivers :
    asio_driver_state[d] \in Opened /\ asio_driver_state[e] \in Opened => d = e

\* The manager has a thread exactly while a driver has buffers.
HolderInv == callback_thread <=> \E d \in Drivers : asio_driver_state[d] \in Buffered

\* The handle of the Wine thread is there exactly while the thread is.
ThreadInv == callback_thread <=> wine # "none"

\* The lock is held by the Wine thread exactly where the code holds it.
LockInv ==
  /\ callback_lock = "wine" <=> wine \in {"decided", "calling", "leave"}
  /\ callback_thread => callback_lock # "deleted"

\* Only the cleanup tells the Wine thread to exit, and only then it exits.
ExitInv ==
  /\ thread_should_exit => app.at \in {"waking", "joining"}
  /\ wine = "exited" => thread_should_exit

\* A method in progress belongs to a driver; in the cleanup of DisposeBuffers
\* the callbacks are gone, so the Wine thread, once it has been told to exit,
\* is not and will not be in the host.
JoinInv ==
  /\ app.at # "idle" => app.on \in Drivers
  /\ app.at \in Cleaning /\ asio_driver_state[app.on] = "Prepared"
       => ~asio_callbacks[app.on]
  /\ app.at \in {"waking", "joining"} => wine \notin {"decided", "calling"}

ExclusiveInv ==
  /\ OneDriver
  /\ HolderInv
  /\ ThreadInv
  /\ LockInv
  /\ ExitInv
  /\ JoinInv
  /\ ManagerOutlivesUsers
-----------------------------------------------------------------------------
(* Where the driver of a method stands.                                    *)

\* A driver in a Leaving method is the only one that is open, so no other
\* driver has buffers; and nobody has any when Release needs no DisposeBuffers.
LEMMA OnlyOpened ==
  ASSUME StreamInv, ExclusiveInv, NEW d \in Drivers, NEW e \in Drivers,
         asio_driver_state[d] \in Opened, asio_driver_state[e] \in Buffered
  PROVE  e = d
BY DEF ExclusiveInv, OneDriver, Opened, Buffered

\* CreateBuffers finds no manager: the branch InitKept is for other drivers.
LEMMA NoManagerYet ==
  ASSUME StreamInv, ExclusiveInv, NEW d \in Drivers,
         asio_driver_state[d] = "Initialized"
  PROVE  ~callback_thread /\ wine = "none"
<1>1. ASSUME NEW e \in Drivers, asio_driver_state[e] \in Buffered PROVE FALSE
  BY <1>1, OnlyOpened DEF Opened, Buffered
<1> QED BY <1>1 DEF ExclusiveInv, HolderInv, ThreadInv

\* A process callback touches no part of the manager but the request and the
\* events.
LEMMA ProcessLock ==
  ASSUME NEW d \in Drivers, Process(d)
  PROVE  UNCHANGED callback_lock
BY DEF Process, ProcessBegin, ProcessInput, ProcessCall, ProcessOutput,
       ProcessOnFreedDriver, Marshal, MarshalPost, MarshalSkip, MarshalSignal,
       MarshalCompleted, MarshalTimeout, MarshalOnDeletedLock, managerVars, lockVars

\* The methods, and parts of methods, that leave the manager and the states of
\* the drivers alone.
Quiet(d) ==
  \/ StartClears(d) \/ StopClears(d) \/ DisposeDisconnects(d) \/ DisposeFrees(d)
  \/ Release(d) \/ CreateBuffersStops(d)

\* What they do change of the invariant's variables.
LEMMA QuietFrame ==
  ASSUME NEW d \in Drivers, Quiet(d)
  PROVE  UNCHANGED <<callback_thread, callback_lock, thread_should_exit, wine,
                     asio_driver_state, fault>>
BY DEF Quiet, StartClears, StopClears, DisposeDisconnects, DisposeFrees, Release,
       CreateBuffersStops, managerVars, lockVars, driverVars

\* Start and Stop keep the buffers and the manager.
LEMMA RunsFrame ==
  ASSUME StreamInv, NEW d \in Drivers, StartRuns(d) \/ StopReturns(d)
  PROVE  /\ UNCHANGED <<callback_thread, callback_lock, thread_should_exit, wine, fault>>
         /\ \A e \in Drivers :
              asio_driver_state'[e] \in Buffered <=> asio_driver_state[e] \in Buffered
         /\ \A e \in Drivers :
              asio_driver_state'[e] \in Opened <=> asio_driver_state[e] \in Opened
<1>1. UNCHANGED <<callback_thread, callback_lock, thread_should_exit, wine, fault>>
  BY DEF StartRuns, StopReturns, managerVars, lockVars
<1>2. asio_driver_state[d] \in Buffered
  BY DEF StartRuns, StopReturns, StreamInv, MethodInv, Buffered, TypeOK
<1>3. \E s \in Buffered : asio_driver_state' = [asio_driver_state EXCEPT ![d] = s]
  BY DEF StartRuns, StopReturns, StateOf, Buffered
<1> QED BY <1>1, <1>2, <1>3 DEF StreamInv, TypeOK, Buffered, Opened

\* CreateBuffers either creates the manager, or fails and leaves it out.
LEMMA CreateFrame ==
  ASSUME StreamInv, ExclusiveInv, NEW d \in Drivers,
         CreateBuffers(d) \/ CreateBuffersFails(d) \/ CreateBuffersUnderLiveThread(d)
  PROVE  /\ app.at = "idle" /\ app' = app
         /\ asio_driver_state[d] = "Initialized"
         /\ fault' = fault
         /\ thread_should_exit' = FALSE
         /\ \/ /\ callback_thread' /\ wine' = "wait" /\ callback_lock' = "free"
               /\ asio_driver_state' = [asio_driver_state EXCEPT ![d] = "Prepared"]
            \/ /\ ~callback_thread' /\ wine' = "none" /\ callback_lock' # "wine"
               /\ asio_driver_state' = asio_driver_state
<1>1. /\ app.at = "idle" /\ app' = app
      /\ asio_driver_state[d] = "Initialized"
  BY DEF CreateBuffers, CreateBuffersFails, CreateBuffersUnderLiveThread, Prepares
<1>2. ~callback_thread /\ wine = "none"
  BY <1>1, NoManagerYet
<1>3. CASE CreateBuffers(d)
  BY <1>1, <1>2, <1>3 DEF CreateBuffers, InitKept, InitCreates, StateOf
<1>4. CASE CreateBuffersFails(d)
  BY <1>1, <1>2, <1>4 DEF CreateBuffersFails, InitFails
<1>5. CASE CreateBuffersUnderLiveThread(d)
  BY <1>2, <1>5 DEF CreateBuffersUnderLiveThread, InitUnderLiveThread
<1> QED BY <1>1, <1>3, <1>4, <1>5

\* The cleanup always finds the manager of its own driver's buffers; it waits
\* until the Wine thread has exited, for the thread is not in the host.
LEMMA CleanupFrame ==
  ASSUME StreamInv, ExclusiveInv, NEW d \in Drivers,
         CleanupNothing(d) \/ CleanupEnds(d)
  PROVE  /\ app.on = d /\ app.at \in Cleaning /\ app'.at = "idle"
         /\ asio_driver_state[d] \in Opened
         /\ \E s \in {"Initialized", "closed"} :
              asio_driver_state' = [asio_driver_state EXCEPT ![d] = s]
         /\ ~callback_thread' /\ wine' = "none" /\ callback_lock' # "wine"
         /\ ~thread_should_exit'
         /\ fault' = fault
<1>1. /\ app.on = d /\ app.at \in Cleaning /\ app'.at = "idle"
  BY DEF CleanupNothing, CleanupEnds, Finishes, Returns, Cleaning
<1>2. asio_driver_state[d] \in Opened
  BY <1>1 DEF StreamInv, MethodInv, Leaving, Cleaning, Opened
<1>3. \E s \in {"Initialized", "closed"} :
        asio_driver_state' = [asio_driver_state EXCEPT ![d] = s]
  BY DEF CleanupNothing, CleanupEnds, Finishes, StateOf
<1>4. CASE CleanupNothing(d)
  <2>1. UNCHANGED <<callback_thread, callback_lock, thread_should_exit, wine, fault>>
    BY <1>4 DEF CleanupNothing, managerVars, lockVars
  <2>2. app.at = "cleanup" /\ ~callback_thread
    BY <1>4 DEF CleanupNothing
  <2>3. wine = "none" /\ callback_lock # "wine" /\ ~thread_should_exit
    BY <2>2 DEF ExclusiveInv, ThreadInv, LockInv, ExitInv
  <2> QED BY <1>1, <1>2, <1>3, <2>1, <2>2, <2>3 DEF StreamInv, TypeOK, ManagerTypeOK
<1>5. CASE CleanupEnds(d)
  <2>1. wine = "exited"
    BY <1>5, ManagerAssumption DEF CleanupEnds, CleanupReset, ExclusiveInv, JoinInv
  <2> QED BY <1>1, <1>2, <1>3, <1>5, <2>1 DEF CleanupEnds, CleanupReset
<1> QED BY <1>4, <1>5

-----------------------------------------------------------------------------
(* The steps of the application's thread.                                  *)

\* Only Open makes a driver one of the opened ones.
LEMMA MethodOneDriver ==
  ASSUME Exclusive, StreamInv, ExclusiveInv, NEW d \in Drivers, Method(d)
  PROVE  OneDriver'
<1> USE DEF ExclusiveInv, OneDriver, StreamInv, TypeOK, Opened
<1>1. CASE Open(d)
  BY <1>1 DEF Open, StateOf, DriverStates
<1>2. CASE CreateBuffers(d) \/ CreateBuffersFails(d) \/ CreateBuffersUnderLiveThread(d)
  BY <1>2, CreateFrame
<1>3. CASE Quiet(d)
  BY <1>3, QuietFrame
<1>4. CASE StartRuns(d) \/ StopReturns(d)
  BY <1>4, RunsFrame
<1>5. CASE CleanupStarts(d) \/ CleanupWakes(d)
  BY <1>5 DEF CleanupStarts, CleanupWakes, driverVars
<1>6. CASE CleanupNothing(d) \/ CleanupEnds(d)
  BY <1>6, CleanupFrame
<1> QED BY <1>1, <1>2, <1>3, <1>4, <1>5, <1>6 DEF Method, MethodStep, Quiet

\* The manager comes with the buffers and goes with them.
LEMMA MethodHolder ==
  ASSUME StreamInv, ExclusiveInv, NEW d \in Drivers, Method(d)
  PROVE  HolderInv'
<1> USE DEF StreamInv, TypeOK, ManagerTypeOK, HolderInv
<1>0. HolderInv
  BY DEF ExclusiveInv
<1>1. CASE Open(d)
  <2>1. \A e \in Drivers : asio_driver_state'[e] \in Buffered
                            <=> asio_driver_state[e] \in Buffered
    BY <1>1 DEF Open, StateOf, Buffered
  <2> QED BY <1>0, <1>1, <2>1 DEF Open, managerVars, lockVars
<1>2. CASE CreateBuffers(d) \/ CreateBuffersFails(d) \/ CreateBuffersUnderLiveThread(d)
  <2>1. \A e \in Drivers : asio_driver_state[e] \notin Buffered
    BY <1>2, CreateFrame, OnlyOpened DEF Opened, Buffered
  <2>2. CASE callback_thread'
    <3>1. asio_driver_state' = [asio_driver_state EXCEPT ![d] = "Prepared"]
      BY <1>2, <2>2, CreateFrame
    <3>2. asio_driver_state'[d] = "Prepared"
      BY <3>1
    <3> QED BY <2>2, <3>2 DEF Buffered
  <2>3. CASE ~callback_thread'
    BY <1>2, <2>1, <2>3, CreateFrame
  <2> QED BY <2>2, <2>3
<1>3. CASE Quiet(d)
  BY <1>0, <1>3, QuietFrame
<1>4. CASE StartRuns(d) \/ StopReturns(d)
  BY <1>0, <1>4, RunsFrame
<1>5. CASE CleanupStarts(d) \/ CleanupWakes(d)
  BY <1>0, <1>5 DEF CleanupStarts, CleanupWakes, CleanupRequest, CleanupWake,
                    driverVars, lockVars
<1>6. CASE CleanupNothing(d) \/ CleanupEnds(d)
  <2>1. \A e \in Drivers : asio_driver_state[e] \in Buffered => e = d
    BY <1>6, CleanupFrame, OnlyOpened
  <2> QED BY <1>6, <2>1, CleanupFrame DEF Buffered
<1> QED BY <1>1, <1>2, <1>3, <1>4, <1>5, <1>6 DEF Method, MethodStep, Quiet

\* The methods make and unmake the thread, the lock and the exit flag together.
LEMMA MethodManager ==
  ASSUME StreamInv, ExclusiveInv, NEW d \in Drivers, Method(d)
  PROVE  ThreadInv' /\ LockInv' /\ ExitInv'
<1> USE DEF ThreadInv, LockInv, ExitInv
<1>0. ThreadInv /\ LockInv /\ ExitInv
  BY DEF ExclusiveInv
<1>1. CASE Open(d)
  BY <1>0, <1>1 DEF Open, managerVars, lockVars
<1>2. CASE CreateBuffers(d) \/ CreateBuffersFails(d) \/ CreateBuffersUnderLiveThread(d)
  BY <1>2, CreateFrame
<1>3. CASE Quiet(d)
  <2>1. app.at \notin {"waking", "joining"}
    BY <1>3 DEF Quiet, StartClears, StopClears, DisposeDisconnects, DisposeFrees,
                Release, CreateBuffersStops, Enters, Steps
  <2> QED BY <1>0, <1>3, <2>1, QuietFrame
<1>4. CASE StartRuns(d) \/ StopReturns(d)
  <2>1. app.at \notin {"waking", "joining"}
    BY <1>4 DEF StartRuns, StopReturns
  <2> QED BY <1>0, <1>4, <2>1, RunsFrame
<1>5. CASE CleanupStarts(d)
  BY <1>0, <1>5 DEF CleanupStarts, CleanupRequest, Steps, lockVars
<1>6. CASE CleanupWakes(d)
  BY <1>0, <1>6 DEF CleanupWakes, CleanupWake, Steps, lockVars
<1>7. CASE CleanupNothing(d) \/ CleanupEnds(d)
  BY <1>7, CleanupFrame
<1> QED BY <1>1, <1>2, <1>3, <1>4, <1>5, <1>6, <1>7 DEF Method, MethodStep, Quiet

\* DisposeFrees takes the callbacks away before the cleanup asks for the lock,
\* so that the lock, once free, stays out of the host's hands.
LEMMA MethodJoin ==
  ASSUME StreamInv, ExclusiveInv, NEW d \in Drivers, Method(d)
  PROVE  JoinInv'
<1> USE DEF JoinInv, Cleaning, StreamInv, TypeOK, ManagerTypeOK
<1>0. JoinInv /\ LockInv
  BY DEF ExclusiveInv
<1>1. CASE Open(d)
  BY <1>0, <1>1 DEF Open, managerVars
<1>2. CASE CreateBuffers(d) \/ CreateBuffersFails(d) \/ CreateBuffersUnderLiveThread(d)
  BY <1>2, CreateFrame
<1>3. CASE StartClears(d) \/ StopClears(d) \/ DisposeDisconnects(d)
  BY <1>3 DEF StartClears, StopClears, DisposeDisconnects, Enters
<1>4. CASE DisposeFrees(d)
  BY <1>4 DEF DisposeFrees, Steps
<1>5. CASE Release(d)
  BY <1>5 DEF Release, Enters, driverVars
<1>6. CASE CreateBuffersStops(d)
  BY <1>6 DEF CreateBuffersStops
<1>7. CASE StartRuns(d) \/ StopReturns(d)
  BY <1>7 DEF StartRuns, StopReturns, Returns
<1>8. CASE CleanupStarts(d)
  BY <1>0, <1>8 DEF CleanupStarts, CleanupRequest, Steps, LockInv, driverVars, streamVars
<1>9. CASE CleanupWakes(d)
  BY <1>0, <1>9 DEF CleanupWakes, CleanupWake, Steps, driverVars, streamVars
<1>10. CASE CleanupNothing(d) \/ CleanupEnds(d)
  BY <1>10, CleanupFrame
<1> QED
  BY <1>1, <1>2, <1>3, <1>4, <1>5, <1>6, <1>7, <1>8, <1>9, <1>10 DEF Method, MethodStep

\* No method meets a Wine thread that outlived its manager.
LEMMA MethodFault ==
  ASSUME StreamInv, ExclusiveInv, NEW d \in Drivers, Method(d)
  PROVE  fault' = fault
<1>1. CASE Open(d)
  BY <1>1 DEF Open
<1>2. CASE CreateBuffers(d) \/ CreateBuffersFails(d) \/ CreateBuffersUnderLiveThread(d)
  BY <1>2, CreateFrame
<1>3. CASE Quiet(d)
  BY <1>3, QuietFrame
<1>4. CASE StartRuns(d) \/ StopReturns(d)
  BY <1>4, RunsFrame
<1>5. CASE CleanupStarts(d) \/ CleanupWakes(d)
  BY <1>5 DEF CleanupStarts, CleanupWakes, CleanupRequest, CleanupWake
<1>6. CASE CleanupNothing(d) \/ CleanupEnds(d)
  BY <1>6, CleanupFrame
<1> QED BY <1>1, <1>2, <1>3, <1>4, <1>5, <1>6 DEF Method, MethodStep, Quiet

-----------------------------------------------------------------------------
(* The steps of the data threads and of the Wine thread.                   *)

\* A data thread in marshal_asio_callback has the manager it tested for.
LEMMA ProcessExclusive ==
  ASSUME StreamInv, ExclusiveInv, NEW d \in Drivers, Process(d)
  PROVE  ExclusiveInv'
<1>1. UNCHANGED <<asio_driver_state, asio_callbacks, app, callback_thread,
                  callback_lock, thread_should_exit, wine>>
  BY ProcessFrame, ProcessLock
<1>2. ASSUME rt[d] = "enter" PROVE callback_lock # "deleted"
  BY <1>2 DEF StreamInv, CycleInv, ExclusiveInv, HolderInv, LockInv, Buffered
<1>3. fault' \notin {"lock", "thread"}
  <2>1. ~MarshalOnDeletedLock(d)
    BY <1>2 DEF MarshalOnDeletedLock
  <2>2. fault' = fault \/ fault' = "object"
    BY <2>1 DEF Process, ProcessBegin, ProcessInput, ProcessCall, ProcessOutput,
       ProcessOnFreedDriver, Marshal, MarshalPost, MarshalSkip, MarshalSignal,
       MarshalCompleted, MarshalTimeout
  <2> QED BY <2>2 DEF ExclusiveInv, ManagerOutlivesUsers
<1> QED
  BY <1>1, <1>3 DEF ExclusiveInv, OneDriver, HolderInv, ThreadInv, LockInv, ExitInv,
                    JoinInv, ManagerOutlivesUsers

\* The Wine thread keeps to its lock, exits when told to, and after that has
\* no driver with callbacks to call.
LEMMA WineExclusive ==
  ASSUME StreamInv, ExclusiveInv, Wine \/ HostReturns
  PROVE  ExclusiveInv'
<1>1. UNCHANGED <<asio_driver_state, asio_callbacks, app, callback_thread,
                  thread_should_exit>>
  BY WineFrame
<1>2. /\ wine # "none" <=> wine' # "none"
      /\ callback_lock' = "wine" <=> wine' \in {"decided", "calling", "leave"}
      /\ callback_thread => callback_lock' # "deleted"
      /\ wine' = "exited" => thread_should_exit
      /\ fault' \in {fault, "null"}
  <2> USE DEF ExclusiveInv, ThreadInv, LockInv, ExitInv, WineMoves, managerVars, lockVars
  <2>1. CASE WineWoken \/ WinePoll
    BY <2>1 DEF WineWoken, WinePoll
  <2>2. CASE WineEnter
    BY <2>2 DEF WineEnter
  <2>3. CASE WineCall \/ WineReturn
    BY <2>3 DEF WineCall, WineReturn
  <2>4. CASE WineCallThroughNull
    BY <2>4 DEF WineCallThroughNull
  <2>5. CASE WineLeave
    BY <2>5 DEF WineLeave
  <2>6. CASE WineSignal
    BY <2>6 DEF WineSignal
  <2>7. CASE WineOnDeletedLock
    BY <2>7 DEF WineOnDeletedLock
  <2> QED
    BY <2>1, <2>2, <2>3, <2>4, <2>5, <2>6, <2>7 DEF Wine, WineStep, HostReturns
<1>3. ASSUME app.at \in {"waking", "joining"} PROVE wine' \notin {"decided", "calling"}
  <2>1. ~(callback_pending /\ request.This # NoDriver /\ asio_callbacks[request.This])
        \/ ~callback_thread
    <3>1. SUFFICES ASSUME callback_pending, callback_thread
                   PROVE  ~asio_callbacks[request.This]
      OBVIOUS
    <3>2. request.This \in Drivers /\ asio_driver_state[request.This] \in Buffered
      BY <3>1 DEF StreamInv, RequestInv, Buffered
    <3>3. app.on \in Drivers /\ asio_driver_state[app.on] \in Opened
      BY <1>3 DEF StreamInv, MethodInv, ExclusiveInv, JoinInv, Leaving, Opened
    <3>4. request.This = app.on
      BY <3>2, <3>3, OnlyOpened
    <3>5. asio_driver_state[app.on] = "Prepared"
      BY <1>3, <3>2, <3>3, <3>4 DEF StreamInv, MethodInv, Leaving, Buffered
    <3> QED BY <1>3, <3>4, <3>5 DEF ExclusiveInv, JoinInv, Cleaning
  <2>2. callback_thread \/ wine = "none"
    BY DEF ExclusiveInv, ThreadInv
  <2>3. wine \notin {"decided", "calling"}
    BY <1>3 DEF ExclusiveInv, JoinInv
  <2> QED
    BY <2>1, <2>2, <2>3 DEF Wine, WineStep, HostReturns, WineWoken, WinePoll,
       WineEnter, WineCall, WineCallThroughNull, WineReturn, WineLeave, WineSignal,
       WineOnDeletedLock, WineMoves, managerVars
<1>4. OneDriver' /\ HolderInv'
  BY <1>1 DEF ExclusiveInv, OneDriver, HolderInv
<1>5. ThreadInv' /\ LockInv' /\ ExitInv'
  BY <1>1, <1>2 DEF ExclusiveInv, ThreadInv, LockInv, ExitInv
<1>6. JoinInv'
  BY <1>1, <1>3 DEF ExclusiveInv, JoinInv
<1>7. ManagerOutlivesUsers'
  BY <1>2 DEF ExclusiveInv, ManagerOutlivesUsers
<1> QED BY <1>4, <1>5, <1>6, <1>7 DEF ExclusiveInv

-----------------------------------------------------------------------------
(* The theorems.                                                           *)

\* ExclusiveInv is inductive, relative to StreamInv.
LEMMA ExclusiveStep ==
  ASSUME Exclusive, StreamInv, ExclusiveInv, [Next]_vars
  PROVE  ExclusiveInv'
<1>1. CASE UNCHANGED vars
  BY <1>1 DEF vars, managerVars, lockVars, streamVars, driverVars, ExclusiveInv, OneDriver,
     HolderInv, ThreadInv, LockInv, ExitInv, JoinInv, ManagerOutlivesUsers
<1>2. ASSUME NEW d \in Drivers, Method(d) PROVE ExclusiveInv'
  <2>1. ManagerOutlivesUsers'
    BY <1>2, MethodFault DEF ExclusiveInv, ManagerOutlivesUsers
  <2> QED
    BY <1>2, <2>1, MethodOneDriver, MethodHolder, MethodManager, MethodJoin DEF ExclusiveInv
<1>3. CASE Step
  BY <1>2, <1>3, ProcessExclusive, WineExclusive DEF Step
<1> QED BY <1>1, <1>3 DEF Next, Halted

\* With one driver open at a time, ExclusiveInv is an invariant.
LEMMA ExclusiveInvariant ==
  ASSUME Exclusive
  PROVE  Spec => []ExclusiveInv
<1>1. Init => ExclusiveInv
  BY DEF Init, ManagerInit, ExclusiveInv, OneDriver, HolderInv, ThreadInv, LockInv, ExitInv,
     JoinInv, ManagerOutlivesUsers, Opened, Buffered, Cleaning
<1>2. StreamInv /\ ExclusiveInv /\ [Next]_vars => ExclusiveInv'
  BY ExclusiveStep
<1> QED BY <1>1, <1>2, StreamInvariant, PTL DEF Spec

\* With one driver open at a time, cleanup_asio_callback_manager never deletes
\* the lock or the memory of a thread that still uses them, for all delays: the
\* 5 s limit of its wait is never what ends it.
THEOREM CleanupIsSafe ==
  ASSUME Exclusive
  PROVE  Spec => []ManagerOutlivesUsers
<1>1. ExclusiveInv => ManagerOutlivesUsers
  BY DEF ExclusiveInv
<1> QED BY <1>1, ExclusiveInvariant, PTL

\* With one driver open at a time, a driver that runs always has a manager with
\* a live thread that has not been told to exit.
THEOREM ManagerFollowsBuffers ==
  ASSUME Exclusive
  PROVE  Spec => []RunningHasManager
<1>1. ASSUME StreamInv, ExclusiveInv PROVE RunningHasManager
  <2> SUFFICES ASSUME NEW d \in Drivers, asio_driver_state[d] = "Running"
               PROVE  callback_thread /\ ~thread_should_exit /\ wine \notin {"none", "exited"}
    BY DEF RunningHasManager
  <2>1. callback_thread
    BY <1>1 DEF ExclusiveInv, HolderInv, Buffered
  <2>2. app.at \notin {"waking", "joining"}
    <3>1. SUFFICES ASSUME app.at \in {"waking", "joining"} PROVE FALSE
      OBVIOUS
    <3>2. app.on \in Drivers /\ asio_driver_state[app.on] \in {"Initialized", "Prepared"}
      BY <1>1, <3>1 DEF ExclusiveInv, JoinInv, StreamInv, MethodInv, Leaving
    <3> QED BY <1>1, <3>2, OnlyOpened DEF Opened, Buffered
  <2> QED BY <1>1, <2>1, <2>2 DEF ExclusiveInv, ThreadInv, ExitInv
<1> QED BY <1>1, ExclusiveInvariant, StreamInvariant, PTL

\* With one driver open at a time, no Wine thread is left once DisposeBuffers or
\* Release has returned, for all delays: nothing can call the host any more.
THEOREM DisposedDriversAreQuiet ==
  ASSUME Exclusive
  PROVE  Spec => []DisposedIsQuiet
<1>1. ASSUME StreamInv, ExclusiveInv PROVE DisposedIsQuiet
  BY <1>1 DEF ExclusiveInv, HolderInv, ThreadInv, DisposedIsQuiet, Buffered
<1> QED BY <1>1, ExclusiveInvariant, StreamInvariant, PTL

-----------------------------------------------------------------------------
(* The hand-over, with one driver open at a time.  Until a wait has timed  *)
(* out since the manager was made, the request, the two events and the     *)
(* pending flag are in step with the data thread that uses them.           *)

\* The buffers are there until DisposeFrees takes them away.
BufferInv ==
  \A d \in Drivers :
    /\ asio_driver_state[d] \in Buffered
    /\ app.on = d => app.at \notin Cleaning
    => wine_buffers[d]

\* The cleanup has told the Wine thread to exit before it wakes it.
ToldInv == app.at \in {"waking", "joining"} => thread_should_exit

\* d's data thread has posted a request and has not taken the completion yet.
Asking(d) == rt[d] \in {"signal", "waiting"}

\* With no request posted, nothing of an earlier one is left in the manager: no
\* stale completion, no event but the cleanup's, no Wine thread in its loop.
RestInv ==
  (\A d \in Drivers : ~Asking(d)) =>
    /\ ~callback_pending
    /\ ~callback_completed
    /\ wine \in {"none", "wait", "exited"}
    /\ callback_event => thread_should_exit

\* A request on its way to the host: not signalled yet, or in the event, or with
\* the Wine thread.
Asked(d) ==
  /\ callback_pending
  /\ ~callback_completed
  /\ \/ rt[d] = "signal"  /\ ~callback_event /\ wine = "wait"
     \/ rt[d] = "waiting" /\ callback_event  /\ wine = "wait"
     \/ rt[d] = "waiting" /\ ~callback_event /\ wine \in {"enter", "decided", "calling"}

\* A request that the host has executed, on its way back.
Answered(d) ==
  /\ ~callback_pending
  /\ ~callback_event
  /\ rt[d] = "waiting"
  /\ \/ callback_completed  /\ wine = "wait"
     \/ ~callback_completed /\ wine \in {"leave", "signal"}

\* The request of the manager is the one of the data thread that asks.
AskInv ==
  \A d \in Drivers :
    Asking(d) =>
      /\ request = [This |-> d, buffer_index |-> half[d]]
      /\ Asked(d) \/ Answered(d)

\* A timeout ends the agreement, until the manager is made anew.
InStepInv ==
  /\ BufferInv
  /\ ToldInv
  /\ given_up \/ (RestInv /\ AskInv)
  /\ fault = "null" => given_up

-----------------------------------------------------------------------------
(* Around a process cycle in flight.                                       *)

\* The driver of the cycle is the only one that is open.
LEMMA OneCycle ==
  ASSUME StreamInv, ExclusiveInv, NEW d \in Drivers, NEW e \in Drivers,
         rt[d] # "idle", asio_driver_state[e] \in Opened
  PROVE  e = d
<1>1. asio_driver_state[d] \in Buffered
  BY DEF StreamInv, CycleInv, Buffered
<1> QED BY <1>1, OnlyOpened

\* Its manager is there and is not being cleaned up.
LEMMA CycleManager ==
  ASSUME StreamInv, ExclusiveInv, NEW d \in Drivers, rt[d] # "idle"
  PROVE  /\ callback_thread /\ ~thread_should_exit
         /\ wine \notin {"none", "exited"}
         /\ app.at \notin Leaving
<1>1. callback_thread
  BY DEF StreamInv, CycleInv, ExclusiveInv, HolderInv, Buffered
<1>2. app.at \notin Leaving
  <2>1. SUFFICES ASSUME app.at \in Leaving PROVE FALSE
    OBVIOUS
  <2>2. app.on \in Drivers
    BY <2>1 DEF ExclusiveInv, JoinInv, Leaving
  <2>3. asio_driver_state[app.on] \in Opened
    BY <2>1, <2>2 DEF StreamInv, MethodInv, Opened
  <2>4. app.on = d
    BY <2>2, <2>3, OneCycle
  <2> QED BY <2>1, <2>4 DEF StreamInv, CycleInv
<1> QED BY <1>1, <1>2 DEF ExclusiveInv, ThreadInv, ExitInv, Leaving

\* A method called meanwhile is Start or Stop: it does not touch the manager.
LEMMA CycleMethod ==
  ASSUME Exclusive, StreamInv, ExclusiveInv, NEW d \in Drivers, rt[d] # "idle",
         NEW e \in Drivers, Method(e)
  PROVE  StartClears(e) \/ StopClears(e) \/ StartRuns(e) \/ StopReturns(e)
<1>1. asio_driver_state[d] \in Buffered
  BY DEF StreamInv, CycleInv, Buffered
<1>2. asio_driver_state[e] # "Initialized"
  BY <1>1, OneCycle DEF Opened, Buffered
<1>3. ~Open(e)
  BY <1>1 DEF Open, Buffered
<1>4. ~(CreateBuffers(e) \/ CreateBuffersFails(e) \/ CreateBuffersUnderLiveThread(e)
        \/ CreateBuffersStops(e) \/ Release(e))
  BY <1>2 DEF CreateBuffers, CreateBuffersFails, CreateBuffersUnderLiveThread,
              CreateBuffersStops, Prepares, Release
<1>5. ~DisposeDisconnects(e)
  BY OneCycle DEF DisposeDisconnects, Opened
<1>6. ~(DisposeFrees(e) \/ CleanupNothing(e) \/ CleanupStarts(e) \/ CleanupWakes(e)
        \/ CleanupEnds(e))
  BY CycleManager DEF DisposeFrees, CleanupNothing, CleanupStarts, CleanupWakes,
                      CleanupEnds, Steps, Leaving
<1> QED BY <1>3, <1>4, <1>5, <1>6 DEF Method, MethodStep

-----------------------------------------------------------------------------
(* InStepInv is inductive.                                                 *)

\* A data thread that takes a step in its driver is the only one in a cycle.
LEMMA OthersIdle ==
  ASSUME StreamInv, ExclusiveInv, NEW d \in Drivers, Process(d), ~ProcessOnFreedDriver(d),
         NEW e \in Drivers, e # d
  PROVE  rt[e] = "idle"
<1>1. rt[d] # "idle" \/ asio_driver_state[d] = "Running"
  BY DEF Process, ProcessBegin, ProcessInput, ProcessCall, ProcessOutput, Marshal,
     MarshalPost, MarshalSkip, MarshalSignal, MarshalCompleted, MarshalTimeout,
     MarshalOnDeletedLock, Moves
<1>2. asio_driver_state[d] \in Opened
  BY <1>1 DEF StreamInv, CycleInv, Opened
<1> QED BY <1>2, OneCycle

\* Before a timeout, a process callback asks only an idle Wine thread, and goes
\* on only with the completion of its own request.
LEMMA AskStep ==
  ASSUME StreamInv, ExclusiveInv, RestInv, AskInv, NEW d \in Drivers, Process(d),
         ~ProcessOnFreedDriver(d), ~MarshalTimeout(d)
  PROVE  RestInv' /\ AskInv'
<1> USE DEF StreamInv, TypeOK, ManagerTypeOK, ProcessPoints
<1>2. \A e \in Drivers : e # d => rt[e] = "idle"
  BY OthersIdle
<1>3. rt[d] # "idle" => /\ callback_thread /\ ~thread_should_exit
                        /\ wine \notin {"none", "exited"} /\ callback_lock # "deleted"
  BY CycleManager DEF ExclusiveInv, LockInv
<1> USE DEF RestInv, AskInv, Asking, Asked, Answered, Moves, managerVars, lockVars,
            eventVars, requestVars
<1>6. CASE ProcessBegin(d) \/ ProcessInput(d) \/ ProcessCall(d) \/ ProcessOutput(d)
  <2>1. UNCHANGED <<managerVars, fault>> /\ ~Asking(d) /\ ~Asking(d)'
    BY <1>6 DEF ProcessBegin, ProcessInput, ProcessCall, ProcessOutput
  <2>2. \A e \in Drivers : e # d => rt'[e] = "idle"
    BY <1>2, <1>6 DEF ProcessBegin, ProcessInput, ProcessCall, ProcessOutput
  <2> QED BY <1>2, <2>1, <2>2
<1>7. CASE MarshalPost(d)
  <2>1. \A e \in Drivers : ~Asking(e)
    BY <1>2, <1>7 DEF MarshalPost
  <2>2. ~callback_completed /\ wine = "wait" /\ ~callback_event
    BY <1>3, <1>7, <2>1 DEF MarshalPost
  <2> QED BY <1>2, <1>7, <2>2 DEF MarshalPost
<1>8. ~MarshalSkip(d)
  BY <1>2 DEF MarshalSkip
<1>9. CASE MarshalSignal(d)
  BY <1>2, <1>3, <1>9 DEF MarshalSignal
<1>10. CASE MarshalCompleted(d)
  BY <1>2, <1>10 DEF MarshalCompleted
<1>11. ~MarshalOnDeletedLock(d)
  BY <1>3 DEF MarshalOnDeletedLock
<1> QED BY <1>6, <1>7, <1>8, <1>9, <1>10, <1>11 DEF Process, Marshal

\* A process callback keeps in step or gives up.
LEMMA StepProcess ==
  ASSUME StreamInv, ExclusiveInv, InStepInv, fault = "none", NEW d \in Drivers, Process(d)
  PROVE  InStepInv'
<1>1. BufferInv' /\ ToldInv'
  BY ProcessFrame DEF InStepInv, BufferInv, ToldInv
<1>2. fault' # "null" /\ (given_up => given_up')
  BY DEF Process, ProcessBegin, ProcessInput, ProcessCall, ProcessOutput,
     ProcessOnFreedDriver, Marshal, MarshalPost, MarshalSkip, MarshalSignal,
     MarshalCompleted, MarshalTimeout, MarshalOnDeletedLock, managerVars, requestVars
<1>3. CASE ProcessOnFreedDriver(d)
  BY <1>1, <1>2, <1>3 DEF ProcessOnFreedDriver, InStepInv, RestInv, AskInv, Asking, Asked,
     Answered, managerVars, eventVars, requestVars, streamVars
<1>4. CASE MarshalTimeout(d)
  BY <1>1, <1>4 DEF MarshalTimeout, InStepInv
<1>5. ASSUME ~ProcessOnFreedDriver(d), ~MarshalTimeout(d)
      PROVE  given_up' \/ (RestInv' /\ AskInv')
  BY <1>2, <1>5, AskStep DEF InStepInv
<1> QED BY <1>1, <1>2, <1>3, <1>4, <1>5 DEF InStepInv

\* The Wine thread, in step, executes the one request that is posted, for a
\* driver that still has its callbacks, and says so once.
LEMMA AnswerStep ==
  ASSUME StreamInv, ExclusiveInv, RestInv, AskInv, Wine \/ HostReturns
  PROVE  RestInv' /\ AskInv' /\ fault' = fault
<1> USE DEF StreamInv, TypeOK, ManagerTypeOK
<1>2. UNCHANGED <<rt, half, request, asio_callbacks, callback_thread, thread_should_exit>>
  BY WineFrame
<1>5. ~WineOnDeletedLock
  BY DEF ExclusiveInv, ThreadInv, LockInv, WineOnDeletedLock
<1> USE DEF WineMoves, managerVars, lockVars, eventVars, requestVars
<1>6. CASE \A e \in Drivers : ~Asking(e)
  <2>1. wine \in {"none", "wait", "exited"}
    BY <1>6 DEF RestInv
  <2>2. WineWoken \/ WinePoll
    BY <1>5, <2>1 DEF Wine, WineStep, HostReturns, WineEnter, WineCall, WineCallThroughNull,
       WineReturn, WineLeave, WineSignal
  <2> QED BY <1>2, <1>6, <2>1, <2>2 DEF WineWoken, WinePoll, RestInv, AskInv, Asking
<1>7. ASSUME NEW d \in Drivers, Asking(d) PROVE RestInv' /\ AskInv' /\ fault' = fault
  <2>1. \A e \in Drivers : Asking(e) => e = d
    BY <1>7, OneCycle DEF Asking, CycleInv, Opened
  <2>2. /\ callback_thread /\ ~thread_should_exit
        /\ asio_callbacks[d]
    BY <1>7, CycleManager DEF Asking, CycleInv
  <2>3. /\ request = [This |-> d, buffer_index |-> half[d]]
        /\ Asked(d) \/ Answered(d)
    BY <1>7 DEF AskInv
  <2>4. SUFFICES (Asked(d) \/ Answered(d))' /\ fault' = fault
    BY <1>2, <1>7, <2>1, <2>3 DEF RestInv, AskInv, Asking
  <2> USE DEF Asked, Answered
  <2>5. CASE WineWoken
    BY <1>2, <2>2, <2>3, <2>5 DEF WineWoken
  <2>6. ~WinePoll
    BY <2>2 DEF WinePoll
  <2>7. CASE WineEnter
    BY <1>2, <2>2, <2>3, <2>7, ManagerAssumption DEF WineEnter
  <2>8. CASE WineCall
    BY <1>2, <2>3, <2>8 DEF WineCall
  <2>9. ~WineCallThroughNull
    BY <2>2, <2>3 DEF WineCallThroughNull
  <2>10. CASE WineReturn
    BY <1>2, <2>3, <2>10 DEF WineReturn
  <2>11. CASE WineLeave
    BY <1>2, <2>3, <2>11 DEF WineLeave
  <2>12. CASE WineSignal
    BY <1>2, <2>2, <2>3, <2>12 DEF WineSignal
  <2> QED
    BY <1>5, <2>5, <2>6, <2>7, <2>8, <2>9, <2>10, <2>11, <2>12
       DEF Wine, WineStep, HostReturns
<1> QED BY <1>6, <1>7

\* The Wine thread keeps in step.
LEMMA StepWine ==
  ASSUME StreamInv, ExclusiveInv, InStepInv, fault = "none", Wine \/ HostReturns
  PROVE  InStepInv'
<1>1. BufferInv' /\ ToldInv' /\ given_up' = given_up
  BY WineFrame DEF InStepInv, BufferInv, ToldInv
<1>2. ~given_up => RestInv' /\ AskInv' /\ fault' = fault
  BY AnswerStep DEF InStepInv
<1> QED BY <1>1, <1>2 DEF InStepInv

\* The ways CreateBuffers ends: it creates the manager, or fails to.
LEMMA CreateCases ==
  ASSUME StreamInv, ExclusiveInv, NEW d \in Drivers,
         CreateBuffers(d) \/ CreateBuffersFails(d) \/ CreateBuffersUnderLiveThread(d)
  PROVE  /\ Prepares(d) /\ wine = "none"
         /\ \/ InitCreates(d) /\ StateOf(d, "Prepared")
            \/ /\ \E what \in Failures \cap {"events", "thread"} : InitFails(d, what)
               /\ UNCHANGED asio_driver_state
<1>1. ~callback_thread /\ wine = "none"
  BY NoManagerYet DEF CreateBuffers, CreateBuffersFails, CreateBuffersUnderLiveThread, Prepares
<1> QED
  BY <1>1 DEF CreateBuffers, CreateBuffersFails, CreateBuffersUnderLiveThread,
              InitUnderLiveThread, InitKept

\* CreateBuffers brings the buffers, DisposeFrees takes them away.
LEMMA BufferStep ==
  ASSUME StreamInv, ExclusiveInv, BufferInv, ToldInv, NEW d \in Drivers, Method(d)
  PROVE  BufferInv' /\ ToldInv'
<1> USE DEF BufferInv, ToldInv, Buffered, Cleaning, StreamInv, TypeOK, StateOf
<1>1. CASE Open(d)
  BY <1>1 DEF Open
<1>2. CASE CreateBuffers(d) \/ CreateBuffersFails(d) \/ CreateBuffersUnderLiveThread(d)
  <2>1. app' = app /\ app.at = "idle"
    BY <1>2, CreateFrame
  <2> QED BY <1>2, <2>1, CreateCases DEF Prepares
<1>3. CASE CreateBuffersStops(d)
  BY <1>3 DEF CreateBuffersStops
<1>4. CASE StartClears(d) \/ StopClears(d) \/ Release(d) \/ DisposeDisconnects(d)
  BY <1>4 DEF StartClears, StopClears, Release, DisposeDisconnects, Enters, driverVars
<1>5. CASE DisposeFrees(d)
  BY <1>5 DEF DisposeFrees, Steps
<1>6. CASE StartRuns(d) \/ StopReturns(d)
  BY <1>6 DEF StartRuns, StopReturns, Returns, MethodInv
<1>7. CASE CleanupStarts(d) \/ CleanupWakes(d)
  BY <1>7 DEF CleanupStarts, CleanupWakes, CleanupRequest, CleanupWake, Steps, driverVars
<1>8. CASE CleanupNothing(d) \/ CleanupEnds(d)
  <2>1. asio_driver_state'[d] \notin Buffered
    BY <1>8 DEF CleanupNothing, CleanupEnds, Finishes
  <2>2. \A e \in Drivers : e # d => asio_driver_state'[e] = asio_driver_state[e]
    BY <1>8 DEF CleanupNothing, CleanupEnds, Finishes
  <2> QED BY <1>8, <2>1, <2>2 DEF CleanupNothing, CleanupEnds, Finishes, Returns
<1> QED BY <1>1, <1>2, <1>3, <1>4, <1>5, <1>6, <1>7, <1>8 DEF Method, MethodStep

\* A method that touches the manager finds no data thread at it; one that makes
\* the manager anew, or deletes it, leaves nothing of a request in it.
LEMMA StepMethod ==
  ASSUME Exclusive, StreamInv, ExclusiveInv, InStepInv, fault = "none",
         NEW d \in Drivers, Method(d)
  PROVE  InStepInv'
<1> USE DEF StreamInv, TypeOK, ManagerTypeOK
<1>1. BufferInv' /\ ToldInv' /\ fault' # "null"
  BY BufferStep, MethodFault DEF InStepInv
<1>2. SUFFICES given_up' \/ (RestInv' /\ AskInv')
  BY <1>1 DEF InStepInv
<1>3. ToldInv /\ (given_up \/ (RestInv /\ AskInv))
  BY DEF InStepInv
<1> USE DEF RestInv, AskInv, Asking, Asked, Answered, managerVars, lockVars, eventVars,
            requestVars, streamVars
<1>4. CASE StartClears(d) \/ StopClears(d) \/ StartRuns(d) \/ StopReturns(d)
  BY <1>3, <1>4 DEF StartClears, StopClears, StartRuns, StopReturns
<1>5. CASE \A e \in Drivers : ~Asking(e)
  <2>1. CASE Open(d) \/ CreateBuffersStops(d) \/ Release(d) \/ DisposeDisconnects(d)
             \/ DisposeFrees(d)
    BY <1>3, <1>5, <2>1 DEF Open, CreateBuffersStops, Release, DisposeDisconnects, DisposeFrees
  <2>2. CASE CreateBuffers(d) \/ CreateBuffersFails(d) \/ CreateBuffersUnderLiveThread(d)
    BY <1>5, <2>2, CreateCases DEF Prepares, InitCreates, InitFails
  <2>3. CASE CleanupNothing(d)
    BY <1>3, <1>5, <2>3 DEF CleanupNothing, Finishes
  <2>4. CASE CleanupStarts(d)
    BY <1>3, <1>5, <2>4 DEF CleanupStarts, CleanupRequest
  <2>5. CASE CleanupWakes(d)
    BY <1>3, <1>5, <2>5 DEF CleanupWakes, CleanupWake, Steps, ToldInv
  <2>6. CASE CleanupEnds(d)
    BY <1>5, <2>6, CleanupFrame DEF CleanupEnds, CleanupReset, Finishes
  <2> QED
    BY <1>4, <2>1, <2>2, <2>3, <2>4, <2>5, <2>6 DEF Method, MethodStep
<1>6. ASSUME NEW e \in Drivers, Asking(e) PROVE given_up' \/ (RestInv' /\ AskInv')
  BY <1>4, <1>6, CycleMethod
<1> QED BY <1>5, <1>6

\* With one driver open at a time, InStepInv is an invariant.
LEMMA InStepInvariant ==
  ASSUME Exclusive
  PROVE  Spec => []InStepInv
<1>1. Init => InStepInv
  BY DEF Init, ManagerInit, InStepInv, BufferInv, ToldInv, RestInv, AskInv, Asking, Buffered
<1>2. ASSUME StreamInv, ExclusiveInv, InStepInv, [Next]_vars PROVE InStepInv'
  <2>1. CASE UNCHANGED vars
    BY <1>2, <2>1 DEF vars, managerVars, lockVars, eventVars, requestVars, streamVars,
       driverVars, InStepInv, BufferInv, ToldInv, RestInv, AskInv, Asking, Asked, Answered
  <2>2. CASE fault = "none" /\ Step
    BY <1>2, <2>2, StepProcess, StepWine, StepMethod DEF Step
  <2> QED BY <1>2, <2>1, <2>2 DEF Next, Halted
<1> QED BY <1>1, <1>2, StreamInvariant, ExclusiveInvariant, PTL DEF Spec

\* With one driver open at a time and whatever the delays: as long as no wait of
\* marshal_asio_callback has timed out since the manager was made, the process
\* callback is in its wait while the host's bufferSwitch works on a half, so that
\* it copies nothing into or out of it.
THEOREM NoHalfIsTorn ==
  ASSUME Exclusive
  PROVE  Spec => []NoTornHalf
<1>1. ASSUME StreamInv, InStepInv PROVE NoTornHalf
  <2> SUFFICES ASSUME wine = "calling", ~given_up PROVE rt[request.This] = "waiting"
    BY DEF NoTornHalf
  <2>1. PICK d \in Drivers : Asking(d)
    BY <1>1 DEF InStepInv, RestInv
  <2> QED BY <1>1, <2>1 DEF InStepInv, AskInv, Asked, Answered
<1> QED BY <1>1, InStepInvariant, StreamInvariant, PTL

\* With one driver open at a time and whatever the delays: as long as no wait has
\* timed out since the manager was made, DisposeBuffers frees no buffer that the
\* host's bufferSwitch may be using, and clears no callback table that the Wine
\* thread is about to call through: it has waited for the process cycle, and the
\* cycle for the callback.
THEOREM DisposeIsPatient ==
  ASSUME Exclusive
  PROVE  Spec => []DisposeWaitsForHost
<1>1. ASSUME StreamInv, InStepInv PROVE DisposeWaitsForHost
  <2> SUFFICES ASSUME wine = "calling", ~given_up PROVE wine_buffers[request.This]
    BY <1>1 DEF DisposeWaitsForHost, InStepInv
  <2>1. PICK d \in Drivers : Asking(d)
    BY <1>1 DEF InStepInv, RestInv
  <2>2. request.This = d
    BY <1>1, <2>1 DEF InStepInv, AskInv
  <2>3. asio_driver_state[d] \in Buffered /\ (app.on = d => app.at \notin Leaving)
    BY <1>1, <2>1 DEF StreamInv, CycleInv, Asking, Buffered
  <2> QED BY <1>1, <2>2, <2>3 DEF InStepInv, BufferInv, Leaving, Cleaning
<1> QED BY <1>1, InStepInvariant, StreamInvariant, PTL

\* With one driver open at a time and whatever the delays: the first wait that
\* returns with an answer to an earlier request comes after one that timed out.
\* Until then marshal_asio_callback returns successfully only when the host has
\* executed the request it posted.
THEOREM CompletionsAreServed ==
  ASSUME Exclusive
  PROVE  Spec => [][\A d \in Drivers :
                      MarshalCompleted(d) /\ ~given_up => ~(callback_pending /\ request.This = d)]_vars
<1>1. ASSUME InStepInv, ~given_up, NEW d \in Drivers, MarshalCompleted(d)
      PROVE  ~callback_pending
  BY <1>1 DEF InStepInv, AskInv, Asking, Asked, Answered, MarshalCompleted, Moves
<1>2. InStepInv =>
        [\A d \in Drivers :
           MarshalCompleted(d) /\ ~given_up => ~(callback_pending /\ request.This = d)]_vars
  BY <1>1
<1> QED BY <1>2, InStepInvariant, PTL

-----------------------------------------------------------------------------
(* A Wine thread that answers in time.  If it is never late, if one driver *)
(* is open at a time, and if CreateBuffers fails at most before its filter *)
(* is connected, then no wait times out.                                   *)

Prompt == Exclusive /\ Late = {} /\ Failures \subseteq {"connect"}

\* A filter that calls back belongs to a driver that still has its buffers.
FilterInv ==
  \A d \in Drivers : pw_filter[d] = "connected" => asio_driver_state[d] \in Buffered

PromptInv ==
  /\ InStepInv
  /\ ~given_up
  /\ FilterInv
  /\ NoFault

\* A process callback always has its answer in time.
LEMMA PromptProcess ==
  ASSUME Prompt, StreamInv, ExclusiveInv, PromptInv, NEW d \in Drivers, Process(d)
  PROVE  PromptInv'
<1>1. InStepInv' /\ FilterInv'
  BY StepProcess, ProcessFrame DEF PromptInv, NoFault, FilterInv
<1>2. ~MarshalTimeout(d) /\ ~MarshalOnDeletedLock(d)
  BY CycleManager DEF MarshalTimeout, MarshalOnDeletedLock, Moves, Prompt, ExclusiveInv, LockInv
<1>3. ~ProcessOnFreedDriver(d)
  BY DEF PromptInv, FilterInv, ProcessOnFreedDriver, Buffered
<1>4. UNCHANGED <<given_up, fault>>
  BY <1>2, <1>3 DEF Process, ProcessBegin, ProcessInput, ProcessCall, ProcessOutput, Marshal,
     MarshalPost, MarshalSkip, MarshalSignal, MarshalCompleted, managerVars, requestVars
<1> QED BY <1>1, <1>4 DEF PromptInv, NoFault

\* The Wine thread finds the callbacks that it has tested.
LEMMA PromptWine ==
  ASSUME Prompt, StreamInv, ExclusiveInv, PromptInv, Wine \/ HostReturns
  PROVE  PromptInv'
<1>1. InStepInv' /\ FilterInv' /\ ~given_up'
  BY StepWine, WineFrame DEF PromptInv, NoFault, FilterInv
<1>2. NoFault'
  BY AnswerStep DEF PromptInv, InStepInv, NoFault
<1> QED BY <1>1, <1>2 DEF PromptInv

\* A released driver has no filter that is connected.
LEMMA PromptFilter ==
  ASSUME Prompt, StreamInv, ExclusiveInv, FilterInv, NEW d \in Drivers, Method(d)
  PROVE  FilterInv'
<1> USE DEF FilterInv, Buffered, StreamInv, TypeOK, StateOf
<1>1. CASE Open(d)
  BY <1>1 DEF Open
<1>2. CASE CreateBuffers(d) \/ CreateBuffersFails(d) \/ CreateBuffersUnderLiveThread(d)
  BY <1>2, CreateCases DEF Prepares, Prompt
<1>3. CASE CreateBuffersStops(d)
  BY <1>3 DEF CreateBuffersStops, Prompt
<1>4. CASE StartClears(d) \/ StopClears(d) \/ Release(d) \/ CleanupStarts(d)
           \/ CleanupWakes(d) \/ DisposeFrees(d)
  BY <1>4 DEF StartClears, StopClears, Release, CleanupStarts, CleanupWakes,
              DisposeFrees, driverVars
<1>5. CASE StartRuns(d) \/ StopReturns(d)
  BY <1>5 DEF StartRuns, StopReturns
<1>6. CASE DisposeDisconnects(d)
  BY <1>6 DEF DisposeDisconnects
<1>7. CASE CleanupNothing(d) \/ CleanupEnds(d)
  <2>1. pw_filter[d] # "connected"
    BY <1>7 DEF CleanupNothing, CleanupEnds, MethodInv, Leaving
  <2> QED BY <1>7, <2>1 DEF CleanupNothing, CleanupEnds, Finishes
<1> QED BY <1>1, <1>2, <1>3, <1>4, <1>5, <1>6, <1>7 DEF Method, MethodStep

\* No method makes a wait time out.
LEMMA PromptMethod ==
  ASSUME Prompt, StreamInv, ExclusiveInv, PromptInv, NEW d \in Drivers, Method(d)
  PROVE  PromptInv'
<1>1. InStepInv' /\ FilterInv' /\ NoFault'
  BY StepMethod, PromptFilter, MethodFault DEF PromptInv, NoFault, Prompt
<1>2. ~given_up'
  <2> USE DEF managerVars, requestVars, PromptInv
  <2>1. CASE CreateBuffers(d) \/ CreateBuffersFails(d) \/ CreateBuffersUnderLiveThread(d)
    BY <2>1, CreateCases DEF InitCreates, InitFails
  <2>2. CASE CleanupEnds(d)
    BY <2>2 DEF CleanupEnds, CleanupReset
  <2> QED
    BY <2>1, <2>2 DEF Method, MethodStep, Open, CreateBuffersStops, StartClears, StopClears,
       DisposeDisconnects, Release, StartRuns, StopReturns, DisposeFrees, CleanupNothing,
       CleanupStarts, CleanupWakes, CleanupRequest, CleanupWake
<1> QED BY <1>1, <1>2 DEF PromptInv

\* With a prompt Wine thread, PromptInv is an invariant.
LEMMA PromptInvariant ==
  ASSUME Prompt
  PROVE  Spec => []PromptInv
<1>1. Init => PromptInv
  BY DEF Init, ManagerInit, PromptInv, InStepInv, FilterInv, BufferInv, ToldInv, RestInv,
     AskInv, Asking, NoFault, Buffered
<1>2. ASSUME StreamInv, ExclusiveInv, PromptInv, [Next]_vars PROVE PromptInv'
  <2>1. CASE UNCHANGED vars
    BY <1>2, <2>1 DEF vars, managerVars, lockVars, eventVars, requestVars, streamVars,
       driverVars, PromptInv, InStepInv, FilterInv, BufferInv, ToldInv, RestInv, AskInv,
       Asking, Asked, Answered, NoFault
  <2>2. CASE Step
    BY <1>2, <2>2, PromptProcess, PromptWine, PromptMethod DEF Step
  <2> QED BY <1>2, <2>1, <2>2 DEF Next, Halted
<1>3. Exclusive
  BY DEF Prompt
<1> QED BY <1>1, <1>2, <1>3, StreamInvariant, ExclusiveInvariant, PTL DEF Spec

-----------------------------------------------------------------------------
(* The marshalled callback is a synchronous call, step by step.            *)

HostCall == IF wine = "calling" THEN request ELSE [This |-> NoDriver, buffer_index |-> 0]

\* A cycle that is alone moves from one phase to another.
LEMMA PhaseAdvances ==
  ASSUME NEW d \in Drivers,
         \A e \in Drivers : e # d => rt[e] = "idle" /\ rt'[e] = "idle",
         NEW from, NEW to, PhaseOf(d) = from, PhaseOf(d)' = to
  PROVE  Synchronous!Advance(d, from, to)
<1>1. \A e \in Drivers : e # d => PhaseOf(e) = "idle" /\ PhaseOf(e)' = "idle"
  BY DEF PhaseOf
<1>2. [e \in Drivers |-> PhaseOf(e)]' = [e \in Drivers |-> PhaseOf(e)']
  OBVIOUS
<1> QED BY <1>1, <1>2 DEF Synchronous!Advance

\* Steps that move no data thread and serve no request keep the phases.
LEMMA PhasesKept ==
  ASSUME rt' = rt, request' = request \/ (\A e \in Drivers : rt[e] # "waiting"),
         callback_pending' = callback_pending \/ (\A e \in Drivers : rt[e] # "waiting")
  PROVE  [e \in Drivers |-> PhaseOf(e)]' = [e \in Drivers |-> PhaseOf(e)]
<1>1. \A e \in Drivers : PhaseOf(e)' = PhaseOf(e)
  BY DEF PhaseOf, Unserved
<1> QED BY <1>1

\* A step of a data thread begins a cycle, asks for the call, takes its answer
\* or ends the cycle; or it is a detail of the hand-over.
LEMMA ProcessIsSynchronous ==
  ASSUME Prompt, StreamInv, ExclusiveInv, PromptInv, NEW d \in Drivers, Process(d)
  PROVE  [Synchronous!Next]_(Synchronous!vars)
<1> USE DEF StreamInv, TypeOK, ManagerTypeOK, ProcessPoints, Moves
<1>13. ~ProcessOnFreedDriver(d)
  BY DEF PromptInv, FilterInv, ProcessOnFreedDriver, Buffered
<1>1. \A e \in Drivers : e # d => rt[e] = "idle"
  BY <1>13, OthersIdle
<1>2. \A e \in Drivers : e # d => rt'[e] = "idle"
  BY <1>1 DEF Process, ProcessBegin, ProcessInput, ProcessCall, ProcessOutput,
     ProcessOnFreedDriver, Marshal, MarshalPost, MarshalSkip, MarshalSignal,
     MarshalCompleted, MarshalTimeout, MarshalOnDeletedLock, streamVars
<1>3. wine' = wine /\ (rt[d] # "idle" => callback_thread /\ wine \notin {"none", "exited"})
  BY ProcessFrame, CycleManager
<1>4. RestInv /\ AskInv
  BY DEF PromptInv, InStepInv
<1>5. rt[d] = "enter" => wine = "wait" /\ ~callback_pending
  BY <1>1, <1>3, <1>4 DEF RestInv, Asking
<1> USE DEF managerVars, requestVars, eventVars, lockVars
<1>6. CASE ProcessBegin(d)
  <2>1. Synchronous!Advance(d, "idle", "in")
    BY <1>1, <1>2, <1>6, PhaseAdvances DEF ProcessBegin, PhaseOf
  <2>2. HostCall' = HostCall /\ \E h \in {0, 1} : half' = [half EXCEPT ![d] = h]
    BY <1>6 DEF ProcessBegin, HostCall
  <2> QED BY <2>1, <2>2 DEF Synchronous!Next, Synchronous!Begin, HostCall
<1>7. CASE ProcessInput(d) \/ MarshalPost(d) \/ MarshalSignal(d)
  <2>1. UNCHANGED half /\ HostCall' = HostCall
    BY <1>5, <1>7 DEF ProcessInput, MarshalPost, MarshalSignal, HostCall
  <2>2. PhaseOf(d)' = PhaseOf(d)
    BY <1>4, <1>7 DEF ProcessInput, MarshalPost, MarshalSignal, PhaseOf, Unserved,
       AskInv, Asking, Asked, Answered
  <2>3. \A e \in Drivers : PhaseOf(e)' = PhaseOf(e)
    BY <1>1, <1>2, <2>2, ZenonT(60) DEF PhaseOf
  <2> QED BY <2>1, <2>3 DEF Synchronous!vars, HostCall
<1>8. CASE ProcessCall(d)
  <2>1. Synchronous!Advance(d, "in", "called")
    BY <1>1, <1>2, <1>3, <1>8, PhaseAdvances DEF ProcessCall, PhaseOf
  <2>2. HostCall' = HostCall /\ \E h \in {0, 1} : half' = [half EXCEPT ![d] = h]
    BY <1>8 DEF ProcessCall, HostCall
  <2> QED BY <2>1, <2>2 DEF Synchronous!Next, Synchronous!Cycle, Synchronous!Call, HostCall
<1>9. CASE MarshalCompleted(d)
  <2>1. PhaseOf(d) = "answered" /\ PhaseOf(d)' = "out"
    BY <1>4, <1>9 DEF MarshalCompleted, PhaseOf, Unserved, AskInv, Asking, Asked, Answered
  <2>2. Synchronous!Advance(d, "answered", "out")
    BY <1>1, <1>2, <2>1, PhaseAdvances
  <2>3. UNCHANGED half /\ HostCall' = HostCall
    BY <1>9 DEF MarshalCompleted, HostCall
  <2> QED BY <2>2, <2>3 DEF Synchronous!Next, Synchronous!Cycle, Synchronous!Resume, HostCall
<1>10. CASE ProcessOutput(d)
  <2>1. Synchronous!Advance(d, "out", "idle")
    BY <1>1, <1>2, <1>10, PhaseAdvances DEF ProcessOutput, PhaseOf
  <2>2. UNCHANGED half /\ HostCall' = HostCall
    BY <1>10 DEF ProcessOutput, HostCall
  <2> QED BY <2>1, <2>2 DEF Synchronous!Next, Synchronous!Cycle, Synchronous!End, HostCall
<1>11. ~MarshalSkip(d)
  BY <1>5 DEF MarshalSkip
<1>12. ~MarshalTimeout(d) /\ ~MarshalOnDeletedLock(d)
  BY <1>3 DEF MarshalTimeout, MarshalOnDeletedLock, Prompt, ExclusiveInv, LockInv
<1> QED
  BY <1>6, <1>7, <1>8, <1>9, <1>10, <1>11, <1>12, <1>13 DEF Process, Marshal

\* The Wine thread enters and leaves the host for the cycle that waits for it.
LEMMA WineIsSynchronous ==
  ASSUME Prompt, StreamInv, ExclusiveInv, PromptInv, Wine \/ HostReturns
  PROVE  [Synchronous!Next]_(Synchronous!vars)
<1> USE DEF StreamInv, TypeOK, ManagerTypeOK, WineMoves, managerVars, requestVars,
            eventVars, lockVars, streamVars
<1>1. UNCHANGED <<rt, half, request>>
  BY WineFrame
<1>2. RestInv /\ AskInv /\ NoFault'
  BY PromptWine DEF PromptInv, InStepInv
<1>3. CASE WineCall
  <2>1. PICK d \in Drivers : Asking(d)
    BY <1>2, <1>3 DEF RestInv, WineCall
  <2>2. request = [This |-> d, buffer_index |-> half[d]] /\ rt[d] = "waiting" /\ Unserved(d)
    BY <1>2, <1>3, <2>1 DEF AskInv, Asked, Answered, WineCall, Unserved
  <2>3. [e \in Drivers |-> PhaseOf(e)]' = [e \in Drivers |-> PhaseOf(e)]
    BY <1>1, <1>3, PhasesKept DEF WineCall
  <2>4. PhaseOf(d) = "called"
    BY <2>2 DEF PhaseOf
  <2>5. HostCall = Synchronous!NoCall /\ HostCall' = [This |-> d, buffer_index |-> half[d]]
    BY <1>1, <1>3, <2>2 DEF WineCall, HostCall, Synchronous!NoCall
  <2>6. Synchronous!HostEnters(d)
    BY <1>1, <2>3, <2>4, <2>5 DEF Synchronous!HostEnters, HostCall
  <2> QED BY <2>6 DEF Synchronous!Next, Synchronous!Cycle
<1>4. CASE WineReturn
  <2>1. PICK d \in Drivers : Asking(d)
    BY <1>2, <1>4 DEF RestInv, WineReturn
  <2>2. request = [This |-> d, buffer_index |-> half[d]] /\ rt[d] = "waiting" /\ Unserved(d)
    BY <1>2, <1>4, <2>1 DEF AskInv, Asked, Answered, WineReturn, Unserved
  <2>3. \A e \in Drivers : e # d => rt[e] = "idle"
    BY <2>2, OneCycle DEF CycleInv, Opened
  <2>4. PhaseOf(d) = "called" /\ PhaseOf(d)' = "answered"
    BY <1>1, <1>4, <2>2 DEF PhaseOf, WineReturn, Unserved
  <2>5. Synchronous!Advance(d, "called", "answered")
    BY <1>1, <2>3, <2>4, PhaseAdvances
  <2>6. HostCall.This = d /\ HostCall' = Synchronous!NoCall
    BY <1>4, <2>2 DEF WineReturn, HostCall, Synchronous!NoCall
  <2>7. Synchronous!HostReturns(d)
    BY <1>1, <2>5, <2>6 DEF Synchronous!HostReturns, HostCall
  <2> QED BY <2>7 DEF Synchronous!Next, Synchronous!Cycle
<1>5. CASE WineWoken \/ WinePoll \/ WineEnter \/ WineLeave \/ WineSignal
  <2>1. callback_pending' = callback_pending /\ HostCall' = HostCall
    BY <1>1, <1>5 DEF WineWoken, WinePoll, WineEnter, WineLeave, WineSignal, HostCall
  <2> QED BY <1>1, <2>1, PhasesKept DEF Synchronous!vars, HostCall
<1>6. ~WineCallThroughNull /\ ~WineOnDeletedLock
  BY <1>2 DEF WineCallThroughNull, WineOnDeletedLock, NoFault
<1> QED BY <1>3, <1>4, <1>5, <1>6 DEF Wine, WineStep, HostReturns

\* Methods are no part of the call: those that touch the manager find it at rest.
LEMMA MethodIsSynchronous ==
  ASSUME Prompt, StreamInv, ExclusiveInv, PromptInv, NEW d \in Drivers, Method(d)
  PROVE  UNCHANGED Synchronous!vars
<1>1. UNCHANGED <<rt, half>>
  BY DEF Method, MethodStep, Open, CreateBuffers, CreateBuffersStops, CreateBuffersFails,
     CreateBuffersUnderLiveThread, Prepares, StartClears, StopClears, DisposeDisconnects,
     Release, StartRuns, StopReturns, DisposeFrees, CleanupNothing, CleanupStarts,
     CleanupWakes, CleanupEnds, Finishes, streamVars
<1>2. CASE \E e \in Drivers : Asking(e)
  <2>1. UNCHANGED managerVars
    BY <1>2, CycleMethod DEF Prompt, Asking, StartClears, StopClears, StartRuns, StopReturns
  <2> QED BY <1>1, <2>1, PhasesKept DEF managerVars, requestVars, Synchronous!vars
<1>3. CASE \A e \in Drivers : ~Asking(e)
  <2>1. (\A e \in Drivers : ~Asking(e))' /\ PromptInv'
    BY <1>1, <1>3, PromptMethod DEF Asking
  <2>2. wine # "calling" /\ wine' # "calling"
    BY <1>3, <2>1 DEF PromptInv, InStepInv, RestInv
  <2>3. [e \in Drivers |-> PhaseOf(e)]' = [e \in Drivers |-> PhaseOf(e)]
    BY <1>1, <1>3, PhasesKept DEF Asking
  <2> QED BY <1>1, <2>2, <2>3 DEF Synchronous!vars
<1> QED BY <1>2, <1>3

-----------------------------------------------------------------------------
(* The theorems about a prompt Wine thread.                                *)

\* No undefined behaviour: beyond the lock and the memory of the manager, the
\* Wine thread never calls through the callback table that DisposeBuffers
\* clears without the lock, and no released driver is processed.
THEOREM NoFaultHappens ==
  ASSUME Prompt
  PROVE  Spec => []NoFault
<1>1. PromptInv => NoFault
  BY DEF PromptInv
<1> QED BY <1>1, PromptInvariant, PTL

\* The refinement but for its fairness: events, lock, pending flag and Wine
\* thread implement a direct call of bufferSwitch by the process callback, on
\* the half that the cycle then copies out.
THEOREM ImplementsSynchronousCall ==
  ASSUME Prompt
  PROVE  Spec => Synchronous!Init /\ [][Synchronous!Next]_(Synchronous!vars)
<1>1. Init => Synchronous!Init
  BY DEF Init, ManagerInit, PhaseOf, Synchronous!Init, Synchronous!NoCall
<1>2. ASSUME StreamInv, ExclusiveInv, PromptInv, [Next]_vars
      PROVE  [Synchronous!Next]_(Synchronous!vars)
  <2>1. CASE UNCHANGED vars
    <3>1. UNCHANGED <<rt, half, wine, request, callback_pending>>
      BY <2>1 DEF vars, managerVars, requestVars, streamVars
    <3> QED BY <3>1, PhasesKept DEF Synchronous!vars
  <2>2. CASE Step
    BY <1>2, <2>2, ProcessIsSynchronous, WineIsSynchronous, MethodIsSynchronous DEF Step
  <2> QED BY <1>2, <2>1, <2>2 DEF Next, Halted
<1>3. Exclusive
  BY DEF Prompt
<1> QED
  BY <1>1, <1>2, <1>3, StreamInvariant, ExclusiveInvariant, PromptInvariant, PTL DEF Spec
=============================================================================
