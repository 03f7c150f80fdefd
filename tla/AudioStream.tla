---------------------------- MODULE AudioStream ----------------------------
(***************************************************************************)
(* The audio path of the driver: the process callback of each driver       *)
(* object, run by PipeWire's data thread, the callback manager with its    *)
(* Wine thread, and the methods that open, prepare, start, stop, dispose   *)
(* and release a driver, called one at a time by the application's thread. *)
(*                                                                         *)
(* A driver has two halves of every channel buffer.  A process cycle       *)
(* copies the inputs into the half asio_buffer_index, has the host's       *)
(* bufferSwitch run on that half, copies the outputs out of it and flips   *)
(* the index.  The samples are abstracted to what clear_audio_buffers is   *)
(* about: whether a half has been written since it was last zeroed.        *)
(*                                                                         *)
(* A method called in a state that implies another one first (Release and  *)
(* DisposeBuffers of a running driver) is the sequence of those methods.   *)
(***************************************************************************)
EXTENDS CallbackManager, Naturals, FiniteSets

CONSTANTS
  Exclusive,  \* the application releases a driver before it opens another
  Failures    \* what CreateBuffers may fail at

ASSUME StreamAssumption ==
  /\ Exclusive \in BOOLEAN
  /\ Failures \subseteq {"connect", "paused", "events", "thread"}

VARIABLES
  asio_driver_state,  \* per driver: "closed" before Init and after Release
  pw_filter,          \* "none", "present" or "connected"
  asio_buffer_index,  \* the half of the next process cycle
  wine_buffers,       \* the channel buffers are allocated
  app                 \* where the application's thread is, and in which driver

driverVars == <<asio_driver_state, pw_filter, asio_buffer_index, wine_buffers>>
vars == <<managerVars, streamVars, fault, driverVars, app>>

DriverStates == {"closed", "Initialized", "Prepared", "Running"}
AppPoints == {"idle", "starting", "stopping", "dropping", "cleanup", "waking", "joining"}

Init ==
  /\ ManagerInit
  /\ rt = [d \in Drivers |-> "idle"]
  /\ half = [d \in Drivers |-> 0]
  /\ asio_callbacks = [d \in Drivers |-> FALSE]
  /\ fault = "none"
  /\ asio_driver_state = [d \in Drivers |-> "closed"]
  /\ pw_filter = [d \in Drivers |-> "none"]
  /\ asio_buffer_index = [d \in Drivers |-> 0]
  /\ wine_buffers = [d \in Drivers |-> FALSE]
  /\ app = [at |-> "idle", on |-> NoDriver]

TypeOK ==
  /\ ManagerTypeOK
  /\ asio_driver_state \in [Drivers -> DriverStates]
  /\ pw_filter \in [Drivers -> {"none", "present", "connected"}]
  /\ asio_buffer_index \in [Drivers -> {0, 1}]
  /\ wine_buffers \in [Drivers -> BOOLEAN]
  /\ app \in [at : AppPoints, on : Drivers \cup {NoDriver}]

\* A method of driver d is entered, moves on, or returns.
Enters(d, to)    == app.at = "idle" /\ app' = [at |-> to, on |-> d]
Steps(d, from, to) == app = [at |-> from, on |-> d] /\ app' = [at |-> to, on |-> d]
Returns          == app' = [at |-> "idle", on |-> NoDriver]
StateOf(d, s)    == asio_driver_state' = [asio_driver_state EXCEPT ![d] = s]

-----------------------------------------------------------------------------
(* Plausible slips, as in CallbackManager.                                 *)

\* The buffer index is counted up instead of flipped.
OutputCountsUp(d) ==
  /\ Moves(d, "output", "idle")
  /\ asio_buffer_index' = [asio_buffer_index EXCEPT ![d] = @ + 1]
  /\ UNCHANGED <<managerVars, half, asio_callbacks, fault, asio_driver_state,
                 pw_filter, wine_buffers, app>>

\* DisposeBuffers does not disconnect the filter before it goes on.
DisposeWithoutDisconnect(d) ==
  /\ asio_driver_state[d] = "Prepared"
  /\ Enters(d, "dropping")
  /\ pw_filter' = [pw_filter EXCEPT ![d] = "none"]
  /\ UNCHANGED <<managerVars, streamVars, fault, asio_driver_state,
                 asio_buffer_index, wine_buffers>>

\* DisposeBuffers frees the buffers but keeps the callback table.
FreesKeepingCallbacks(d) ==
  /\ Steps(d, "dropping", "cleanup")
  /\ wine_buffers' = [wine_buffers EXCEPT ![d] = FALSE]
  /\ UNCHANGED <<managerVars, rt, half, asio_callbacks, fault, asio_driver_state,
                 pw_filter, asio_buffer_index>>

-----------------------------------------------------------------------------
(* The process callback, around marshal_asio_callback.                     *)

\* Any other state of the driver makes the cycle a silent one: no step here.
ProcessBegin(d) ==
  /\ pw_filter[d] = "connected"
  /\ asio_driver_state[d] = "Running"
  /\ asio_callbacks[d]
  /\ Moves(d, "idle", "input")
  /\ half' = [half EXCEPT ![d] = asio_buffer_index[d]]
  /\ UNCHANGED <<managerVars, asio_callbacks, fault, driverVars, app>>

\* Sound is not modelled, only who works on which half.
ProcessInput(d) ==
  /\ Moves(d, "input", "call")
  /\ UNCHANGED <<managerVars, half, asio_callbacks, fault, driverVars, app>>

\* The index is read a second time, after the inputs were copied.
ProcessCall(d) ==
  /\ Moves(d, "call", IF callback_thread THEN "enter" ELSE "output")
  /\ half' = [half EXCEPT ![d] = asio_buffer_index[d]]
  /\ UNCHANGED <<managerVars, asio_callbacks, fault, driverVars, app>>

ProcessOutput(d) ==
  /\ Moves(d, "output", "idle")
  /\ asio_buffer_index' = [asio_buffer_index EXCEPT ![d] = 1 - @]
  /\ UNCHANGED <<managerVars, half, asio_callbacks, fault, asio_driver_state,
                 pw_filter, wine_buffers, app>>

\* Release frees a driver whose CreateBuffers failed after the filter was
\* connected, and leaves the filter with its listener behind.
ProcessOnFreedDriver(d) ==
  /\ asio_driver_state[d] = "closed"
  /\ pw_filter[d] = "connected"
  /\ fault' = "object"
  /\ UNCHANGED <<managerVars, streamVars, driverVars, app>>

-----------------------------------------------------------------------------
(* The driver methods.                                                     *)

\* WineASIOCreateInstance and Init.  A driver object may take the place of one
\* that was released, unless that one's filter still refers to it.
Open(d) ==
  /\ app.at = "idle"
  /\ asio_driver_state[d] = "closed"
  /\ pw_filter[d] # "connected"
  /\ Exclusive => \A e \in Drivers : asio_driver_state[e] = "closed"
  /\ StateOf(d, "Initialized")
  /\ pw_filter' = [pw_filter EXCEPT ![d] = "present"]
  /\ asio_callbacks' = [asio_callbacks EXCEPT ![d] = FALSE]
  /\ wine_buffers' = [wine_buffers EXCEPT ![d] = FALSE]
  /\ asio_buffer_index' = [asio_buffer_index EXCEPT ![d] = 0]
  /\ UNCHANGED <<managerVars, rt, half, fault, app>>

\* CreateBuffers fails before it has buffers: there is no filter since
\* DisposeBuffers, it does not connect, or it is not paused (or, with the same
\* outcome, a buffer not allocated) in time.  The callback table stays.
CreateBuffersStops(d) ==
  /\ app.at = "idle"
  /\ asio_driver_state[d] = "Initialized"
  /\ asio_callbacks' = [asio_callbacks EXCEPT ![d] = TRUE]
  /\ \/ /\ pw_filter[d] = "none" \/ (pw_filter[d] = "present" /\ "connect" \in Failures)
        /\ UNCHANGED pw_filter
     \/ /\ pw_filter[d] # "none"
        /\ "paused" \in Failures
        /\ pw_filter' = [pw_filter EXCEPT ![d] = "connected"]
  /\ UNCHANGED <<managerVars, rt, half, fault, asio_driver_state,
                 asio_buffer_index, wine_buffers, app>>

\* What CreateBuffers does before it needs the manager.
Prepares(d) ==
  /\ app.at = "idle"
  /\ asio_driver_state[d] = "Initialized"
  /\ pw_filter[d] # "none"
  /\ pw_filter' = [pw_filter EXCEPT ![d] = "connected"]
  /\ asio_callbacks' = [asio_callbacks EXCEPT ![d] = TRUE]
  /\ wine_buffers' = [wine_buffers EXCEPT ![d] = TRUE]
  /\ UNCHANGED <<rt, half, asio_buffer_index, app>>

CreateBuffers(d) ==
  /\ Prepares(d)
  /\ InitKept \/ InitCreates(d)
  /\ StateOf(d, "Prepared")

\* Plausible slip: the result of init_asio_callback_manager is not looked at.
PreparedWithoutManager(d) ==
  /\ Prepares(d)
  /\ \E what \in Failures \cap {"events", "thread"} : InitFails(d, what)
  /\ StateOf(d, "Prepared")

CreateBuffersFails(d) ==
  /\ Prepares(d)
  /\ \E what \in Failures \cap {"events", "thread"} : InitFails(d, what)
  /\ UNCHANGED asio_driver_state

CreateBuffersUnderLiveThread(d) ==
  /\ Prepares(d)
  /\ InitUnderLiveThread
  /\ UNCHANGED asio_driver_state

\* Between the zeroing of the buffers and the new state, a cycle may run.
StartClears(d) ==
  /\ asio_driver_state[d] = "Prepared"
  /\ Enters(d, "starting")
  /\ UNCHANGED <<managerVars, streamVars, fault, driverVars>>

StartRuns(d) ==
  /\ app = [at |-> "starting", on |-> d]
  /\ asio_buffer_index' = [asio_buffer_index EXCEPT ![d] = 0]
  /\ StateOf(d, "Running")
  /\ Returns
  /\ UNCHANGED <<managerVars, streamVars, fault, pw_filter, wine_buffers>>

\* pw_filter_set_active(FALSE) does not wait for the process callback.
StopClears(d) ==
  /\ asio_driver_state[d] = "Running"
  /\ Enters(d, "stopping")
  /\ UNCHANGED <<managerVars, streamVars, fault, driverVars>>

StopReturns(d) ==
  /\ app = [at |-> "stopping", on |-> d]
  /\ asio_buffer_index' = [asio_buffer_index EXCEPT ![d] = 0]
  /\ StateOf(d, "Prepared")
  /\ Returns
  /\ UNCHANGED <<managerVars, streamVars, fault, pw_filter, wine_buffers>>

\* pw_filter_disconnect leaves the data loop: it waits for a cycle in flight.
DisposeDisconnects(d) ==
  /\ asio_driver_state[d] = "Prepared"
  /\ rt[d] = "idle"
  /\ Enters(d, "dropping")
  /\ pw_filter' = [pw_filter EXCEPT ![d] = "none"]
  /\ UNCHANGED <<managerVars, streamVars, fault, asio_driver_state,
                 asio_buffer_index, wine_buffers>>

DisposeFrees(d) ==
  /\ Steps(d, "dropping", "cleanup")
  /\ asio_callbacks' = [asio_callbacks EXCEPT ![d] = FALSE]
  /\ wine_buffers' = [wine_buffers EXCEPT ![d] = FALSE]
  /\ UNCHANGED <<managerVars, rt, half, fault, asio_driver_state, pw_filter,
                 asio_buffer_index>>

\* The last Release of a driver without buffers goes straight to the cleanup.
Release(d) ==
  /\ asio_driver_state[d] = "Initialized"
  /\ Enters(d, "cleanup")
  /\ UNCHANGED <<managerVars, streamVars, fault, driverVars>>

\* DisposeBuffers and Release end with cleanup_asio_callback_manager.
Finishes(d) ==
  /\ StateOf(d, IF asio_driver_state[d] = "Prepared" THEN "Initialized" ELSE "closed")
  /\ Returns
  /\ UNCHANGED <<streamVars, pw_filter, asio_buffer_index, wine_buffers>>

CleanupNothing(d) ==
  /\ app = [at |-> "cleanup", on |-> d]
  /\ ~callback_thread
  /\ Finishes(d)
  /\ UNCHANGED <<managerVars, fault>>

CleanupStarts(d) ==
  /\ Steps(d, "cleanup", "waking")
  /\ CleanupRequest
  /\ UNCHANGED <<streamVars, driverVars>>

CleanupWakes(d) ==
  /\ Steps(d, "waking", "joining")
  /\ CleanupWake
  /\ UNCHANGED <<streamVars, driverVars>>

CleanupEnds(d) ==
  /\ app = [at |-> "joining", on |-> d]
  /\ CleanupReset
  /\ Finishes(d)

-----------------------------------------------------------------------------
Marshal(d) ==
  \/ MarshalPost(d) \/ MarshalSkip(d) \/ MarshalSignal(d)
  \/ MarshalCompleted(d) \/ MarshalTimeout(d) \/ MarshalOnDeletedLock(d)

Process(d) ==
  \/ ProcessBegin(d) \/ ProcessInput(d) \/ ProcessCall(d) \/ ProcessOutput(d)
  \/ ProcessOnFreedDriver(d)
  \/ Marshal(d) /\ UNCHANGED <<driverVars, app>>

WineStep ==
  \/ WineWoken \/ WinePoll \/ WineEnter \/ WineCall \/ WineCallThroughNull
  \/ WineLeave \/ WineSignal \/ WineOnDeletedLock

\* Every step of the Wine thread but the return of the host's callback.
Wine == WineStep /\ UNCHANGED <<driverVars, app>>
HostReturns == WineReturn /\ UNCHANGED <<driverVars, app>>

MethodStep(d) ==
  \/ StartRuns(d) \/ StopReturns(d) \/ DisposeFrees(d) \/ CleanupNothing(d)
  \/ CleanupStarts(d) \/ CleanupWakes(d) \/ CleanupEnds(d)

Method(d) ==
  \/ Open(d) \/ CreateBuffers(d) \/ CreateBuffersStops(d) \/ CreateBuffersFails(d)
  \/ CreateBuffersUnderLiveThread(d)
  \/ StartClears(d) \/ StopClears(d) \/ DisposeDisconnects(d) \/ Release(d)
  \/ MethodStep(d)

\* The program has run into a fault.
Halted == fault # "none" /\ UNCHANGED vars

Step == Wine \/ HostReturns \/ \E d \in Drivers : Process(d) \/ Method(d)

Next == (fault = "none" /\ Step) \/ Halted

\* A data thread that is in a cycle and the Wine thread are scheduled, and the
\* application's thread goes on inside a method it has called.  No fairness
\* makes PipeWire begin a cycle or the application call a method.
ThreadsRun ==
  /\ WF_vars(fault = "none" /\ Wine)
  /\ \A d \in Drivers :
       /\ WF_vars(fault = "none" /\ rt[d] # "idle" /\ Process(d))
       /\ WF_vars(fault = "none" /\ MethodStep(d))

\* The host's bufferSwitch returns, late or not.
HostIsFair == WF_vars(fault = "none" /\ HostReturns)

Spec == Init /\ [][Next]_vars
FairSpec == Spec /\ ThreadsRun /\ HostIsFair

\* The same program under a host whose bufferSwitch need not return.
HungHostSpec == Spec /\ ThreadsRun

-----------------------------------------------------------------------------
(* Safety.                                                                 *)

\* None of the watched undefined behaviours happens: no lock is used after
\* DeleteCriticalSection, no NULL callback table is called through, no freed
\* driver is processed and no Wine thread survives its manager.
NoFault == fault = "none"

\* cleanup_asio_callback_manager never deletes the lock or the memory that a
\* thread still uses, even when it would stop waiting for the thread: in
\* DisposeBuffers the callbacks are gone before the lock is asked for.
ManagerOutlivesUsers == fault \notin {"lock", "thread"}

\* marshal_asio_callback returns with WAIT_OBJECT_0 only after the callback
\* that it posted has been executed.
CompletionMeansServed ==
  [][\A d \in Drivers :
       MarshalCompleted(d) => ~(callback_pending /\ request.This = d)]_vars

\* The process callback copies into or out of a half while the host's
\* bufferSwitch works on the same half only after a wait for that host, or for
\* the Wine thread, has timed out under the same manager: one late answer may
\* tear every later cycle, but a manager that is made anew starts in step.
NoTornHalf ==
  wine = "calling" /\ ~given_up =>
    LET d == request.This IN
      rt[d] \in {"input", "output"} => half[d] # request.buffer_index

\* Only after such a timeout DisposeBuffers frees the buffers under a bufferSwitch
\* in progress, or clears the callback table that the Wine thread has tested and
\* is about to call through: as long as no wait is given up, a DisposeBuffers that
\* takes no lock is kept back by pw_filter_disconnect until the host has returned.
DisposeWaitsForHost ==
  ~given_up =>
    /\ wine = "calling" => wine_buffers[request.This]
    /\ fault # "null"

\* No request is left behind: while one is pending, somebody is about to set
\* the event, or it is set, or the Wine thread has consumed it and has not
\* executed the request yet; unless the driver has given up its callbacks, or
\* the manager is being cleaned up or is gone.
RequestIsWoken ==
  callback_pending =>
    \/ rt[request.This] = "signal"
    \/ callback_event
    \/ wine \in {"enter", "decided", "calling"}
    \/ ~asio_callbacks[request.This]
    \/ thread_should_exit
    \/ ~callback_thread

\* With no driver between CreateBuffers and DisposeBuffers and no method in
\* progress, there is no Wine thread left that could call the host.
DisposedIsQuiet ==
  /\ app.at = "idle"
  /\ \A d \in Drivers : asio_driver_state[d] \in {"closed", "Initialized"}
  => wine \in {"none", "exited"}

\* While a driver runs, the manager its process callback depends on is there,
\* with a thread that has not been told to exit.
RunningHasManager ==
  \A d \in Drivers :
    asio_driver_state[d] = "Running" =>
      /\ callback_thread
      /\ ~thread_should_exit
      /\ wine \notin {"none", "exited"}

-----------------------------------------------------------------------------
(* Refinement: with a Wine thread that is never late and one driver at a   *)
(* time, the marshalled callback is a synchronous call.                    *)

Unserved(d) == callback_pending /\ request.This = d

PhaseOf(d) ==
  CASE rt[d] = "idle" -> "idle"
    [] rt[d] \in {"input", "call"} -> "in"
    [] rt[d] \in {"enter", "signal"} \/ (rt[d] = "waiting" /\ Unserved(d)) -> "called"
    [] rt[d] = "waiting" /\ ~Unserved(d) -> "answered"
    [] rt[d] = "output" -> "out"

Synchronous == INSTANCE SynchronousCall WITH
  phase <- [d \in Drivers |-> PhaseOf(d)],
  host <- IF wine = "calling" THEN request ELSE [This |-> NoDriver, buffer_index |-> 0]

\* Every cycle that gets past the state test has the host called exactly once,
\* on the half it then plays, and every call is of a cycle that waits for it.
CallsAreSynchronous == Synchronous!Spec

-----------------------------------------------------------------------------
(* Liveness.                                                               *)

\* Every process callback that PipeWire enters returns to PipeWire.
ProcessReturns ==
  \A d \in Drivers : rt[d] # "idle" ~> (rt[d] = "idle" \/ fault # "none")

\* Every driver method returns to the application; in particular the cleanup
\* gets the lock and the Wine thread exits.
MethodReturns == app.at # "idle" ~> (app.at = "idle" \/ fault # "none")

\* A posted request does not stay pending: it is executed, or dropped by the
\* cleanup.
RequestIsServed == callback_pending ~> (~callback_pending \/ fault # "none")

-----------------------------------------------------------------------------
(* What comments of asio.c say and the code does not do.                   *)

\* Stop: "BufferSwitch() must not called after returning".
NoCallAfterStop ==
  [][WineCall => asio_driver_state[request.This] = "Running"]_vars
=============================================================================
