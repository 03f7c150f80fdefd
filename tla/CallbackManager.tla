-------------------------- MODULE CallbackManager --------------------------
(***************************************************************************)
(* The callback manager of asio.c: how a PipeWire data thread has the ASIO *)
(* host's bufferSwitch executed by a Wine thread.                          *)
(*                                                                         *)
(* One manager, the global g_callback_manager, serves every driver object  *)
(* of the process.  A process callback posts a request under               *)
(* callback_lock, sets callback_event and waits at most 100 ms for         *)
(* callback_completed.  The Wine thread waits for callback_event, runs the *)
(* request while it HOLDS callback_lock, releases the lock and sets        *)
(* callback_completed.  Both events are auto-reset: a successful wait      *)
(* clears them, and setting a set event changes nothing.                   *)
(*                                                                         *)
(* This module declares the state of the manager, of the Wine thread and   *)
(* of the marshalling data threads, with one action per step between two   *)
(* points where another thread can act.  AudioStream composes them with    *)
(* the process callback and the driver methods.                            *)
(***************************************************************************)
CONSTANTS
  Drivers,    \* driver objects (IWineASIOImpl), each with its own data thread
  NoDriver,   \* the NULL driver
  Late,       \* points at which the Wine thread may be for more than 100 ms
  Stuck       \* the same for 5 s: of these, only the host's callback is unbounded

\* Where the Wine thread is in asio_callback_thread_proc.
WinePoints == {"none", "wait", "enter", "decided", "calling", "leave",
               "signal", "exited"}

\* Where a data thread is in pipewire_process_callback.
ProcessPoints == {"idle", "input", "call", "enter", "signal", "waiting", "output"}

\* The undefined behaviours the model watches for; each one ends the behaviour.
Faults == {"none", "lock", "null", "object", "thread"}

ASSUME ManagerAssumption ==
  /\ NoDriver \notin Drivers
  /\ Late \subseteq WinePoints
  /\ Stuck \subseteq Late \cap {"calling"}

VARIABLES
  callback_thread,     \* g_callback_manager.callback_thread is not NULL
  callback_lock,       \* "free", "wine" (held by the Wine thread) or "deleted"
  callback_event,      \* auto-reset event: a request was posted
  callback_completed,  \* auto-reset event: the Wine thread went round once
  callback_pending,
  thread_should_exit,
  request,             \* callback_data: which driver (This) and buffer_index
  given_up,            \* history: a wait has timed out since the manager was made
  wine,                \* point of the Wine thread
  rt,                  \* rt[d]: point of d's data thread
  half,                \* half[d]: current_buffer_index of d's process callback
  asio_callbacks,      \* asio_callbacks[d]: d's callback table is not NULL
  fault

lockVars    == <<callback_thread, callback_lock>>
eventVars   == <<callback_event, callback_completed>>
requestVars == <<callback_pending, request, given_up>>
managerVars == <<lockVars, eventVars, requestVars, thread_should_exit, wine>>
streamVars  == <<rt, half, asio_callbacks>>

ManagerInit ==
  /\ callback_thread = FALSE
  /\ callback_lock = "deleted"
  /\ callback_event = FALSE
  /\ callback_completed = FALSE
  /\ callback_pending = FALSE
  /\ thread_should_exit = FALSE
  /\ request = [This |-> NoDriver, buffer_index |-> 0]
  /\ given_up = FALSE
  /\ wine = "none"

ManagerTypeOK ==
  /\ callback_thread \in BOOLEAN
  /\ callback_lock \in {"free", "wine", "deleted"}
  /\ callback_event \in BOOLEAN
  /\ callback_completed \in BOOLEAN
  /\ callback_pending \in BOOLEAN
  /\ thread_should_exit \in BOOLEAN
  /\ request \in [This : Drivers \cup {NoDriver}, buffer_index : {0, 1}]
  /\ given_up \in BOOLEAN
  /\ wine \in WinePoints
  /\ rt \in [Drivers -> ProcessPoints]
  /\ half \in [Drivers -> {0, 1}]
  /\ asio_callbacks \in [Drivers -> BOOLEAN]
  /\ fault \in Faults

Moves(d, from, to) == rt[d] = from /\ rt' = [rt EXCEPT ![d] = to]
WineMoves(from, to) == wine = from /\ wine' = to

-----------------------------------------------------------------------------
(* Plausible slips in the code below, each the mutated form of an action:  *)
(* they show that the properties of AudioStream can fail.                  *)

\* The request is published but the event is never set.
PostWithoutEvent(d) ==
  /\ callback_lock = "free"
  /\ ~callback_pending
  /\ Moves(d, "enter", "waiting")
  /\ request' = [This |-> d, buffer_index |-> half[d]]
  /\ callback_pending' = TRUE
  /\ UNCHANGED <<lockVars, eventVars, given_up, thread_should_exit, wine, half,
                 asio_callbacks, fault>>

\* The data thread does not wait for the completion.
SignalWithoutWait(d) ==
  /\ Moves(d, "signal", "output")
  /\ callback_event' = callback_thread
  /\ UNCHANGED <<lockVars, callback_completed, requestVars, thread_should_exit,
                 wine, half, asio_callbacks, fault>>

\* callback_event is created as a manual-reset event.
WokenByManualReset ==
  /\ callback_event
  /\ WineMoves("wait", IF thread_should_exit THEN "exited" ELSE "enter")
  /\ UNCHANGED <<lockVars, eventVars, requestVars, thread_should_exit,
                 streamVars, fault>>

\* callback_pending is not reset after the callback.
ReturnStillPending ==
  /\ WineMoves("calling", "leave")
  /\ UNCHANGED <<lockVars, eventVars, requestVars, thread_should_exit, streamVars,
                 fault>>

\* A path of the loop forgets LeaveCriticalSection.
LeaveKeepsLock ==
  /\ callback_lock = "wine"
  /\ WineMoves("leave", "signal")
  /\ UNCHANGED <<lockVars, eventVars, requestVars, thread_should_exit,
                 streamVars, fault>>

\* Initializing again replaces the event of the manager that is there.
InitReplacesEvent ==
  /\ callback_thread
  /\ callback_event' = FALSE
  /\ UNCHANGED <<lockVars, callback_completed, requestVars, thread_should_exit,
                 wine, fault>>

\* The cleanup does not tell the thread to exit.
RequestNoExit ==
  /\ callback_thread
  /\ callback_lock = "free"
  /\ UNCHANGED <<managerVars, fault>>

\* The cleanup does not wait for the thread.
ResetWithoutJoin ==
  /\ callback_thread' = FALSE
  /\ callback_lock' = "deleted"
  /\ callback_event' = FALSE
  /\ callback_completed' = FALSE
  /\ callback_pending' = FALSE
  /\ thread_should_exit' = FALSE
  /\ request' = [This |-> NoDriver, buffer_index |-> 0]
  /\ given_up' = FALSE
  /\ wine' = IF wine = "exited" THEN "none" ELSE wine
  /\ UNCHANGED fault

-----------------------------------------------------------------------------
(* The data thread: marshal_asio_callback.                                 *)

\* The request is published in one critical section; nothing in it blocks.
MarshalPost(d) ==
  /\ callback_lock = "free"
  /\ ~callback_pending
  /\ Moves(d, "enter", "signal")
  /\ request' = [This |-> d, buffer_index |-> half[d]]
  /\ callback_pending' = TRUE
  /\ UNCHANGED <<lockVars, eventVars, given_up, thread_should_exit, wine, half,
                 asio_callbacks, fault>>

\* "Previous ASIO callback still pending, skipping": return without waiting.
MarshalSkip(d) ==
  /\ callback_lock = "free"
  /\ callback_pending
  /\ Moves(d, "enter", "output")
  /\ UNCHANGED <<managerVars, half, asio_callbacks, fault>>

\* The handle was tested before the lock: cleanup may have come in between.
MarshalOnDeletedLock(d) ==
  /\ callback_lock = "deleted"
  /\ rt[d] = "enter"
  /\ fault' = "lock"
  /\ UNCHANGED <<managerVars, streamVars>>

\* SetEvent(callback_event); on a closed handle it fails and does nothing.
MarshalSignal(d) ==
  /\ Moves(d, "signal", "waiting")
  /\ callback_event' = callback_thread
  /\ UNCHANGED <<lockVars, callback_completed, requestVars, thread_should_exit,
                 wine, half, asio_callbacks, fault>>

\* The wait returns WAIT_OBJECT_0, whoever the completion was meant for.
MarshalCompleted(d) ==
  /\ callback_completed
  /\ Moves(d, "waiting", "output")
  /\ callback_completed' = FALSE
  /\ UNCHANGED <<lockVars, callback_event, requestVars, thread_should_exit,
                 wine, half, asio_callbacks, fault>>

\* 100 ms pass: the Wine thread is late, or there is none left to answer.
MarshalTimeout(d) ==
  /\ ~callback_completed
  /\ wine \in Late \cup {"none", "exited"}
  /\ Moves(d, "waiting", "output")
  /\ given_up' = TRUE
  /\ UNCHANGED <<lockVars, eventVars, callback_pending, request, thread_should_exit,
                 wine, half, asio_callbacks, fault>>

-----------------------------------------------------------------------------
(* The Wine thread: asio_callback_thread_proc.                             *)

\* The wait ends with callback_event; the exit flag is tested before anything.
WineWoken ==
  /\ callback_event
  /\ WineMoves("wait", IF thread_should_exit THEN "exited" ELSE "enter")
  /\ callback_event' = FALSE
  /\ UNCHANGED <<lockVars, callback_completed, requestVars, thread_should_exit,
                 streamVars, fault>>

\* The 1 s timeout of the wait: only the exit flag is looked at.
WinePoll ==
  /\ ~callback_event
  /\ thread_should_exit
  /\ WineMoves("wait", "exited")
  /\ UNCHANGED <<lockVars, eventVars, requestVars, thread_should_exit,
                 streamVars, fault>>

\* Take the lock and test for a request of a driver with callbacks.
WineEnter ==
  /\ callback_lock = "free"
  /\ callback_lock' = "wine"
  /\ WineMoves("enter",
       IF callback_pending /\ request.This # NoDriver /\ asio_callbacks[request.This]
         THEN "decided" ELSE "leave")
  /\ UNCHANGED <<callback_thread, eventVars, requestVars, thread_should_exit,
                 streamVars, fault>>

\* Load This->asio_callbacks again and call bufferSwitch.  DisposeBuffers
\* clears the pointer without the lock.
WineCall ==
  /\ WineMoves("decided", "calling")
  /\ asio_callbacks[request.This]
  /\ UNCHANGED <<lockVars, eventVars, requestVars, thread_should_exit,
                 streamVars, fault>>

WineCallThroughNull ==
  /\ wine = "decided"
  /\ ~asio_callbacks[request.This]
  /\ fault' = "null"
  /\ UNCHANGED <<managerVars, streamVars>>

\* The host's bufferSwitch returns.
WineReturn ==
  /\ WineMoves("calling", "leave")
  /\ callback_pending' = FALSE
  /\ UNCHANGED <<lockVars, eventVars, request, given_up, thread_should_exit,
                 streamVars, fault>>

WineLeave ==
  /\ callback_lock = "wine"
  /\ callback_lock' = "free"
  /\ WineMoves("leave", "signal")
  /\ UNCHANGED <<callback_thread, eventVars, requestVars, thread_should_exit,
                 streamVars, fault>>

\* SetEvent(callback_completed) and the test of the loop.
WineSignal ==
  /\ WineMoves("signal", IF thread_should_exit THEN "exited" ELSE "wait")
  /\ callback_completed' = callback_thread
  /\ UNCHANGED <<lockVars, callback_event, requestVars, thread_should_exit,
                 streamVars, fault>>

\* The Wine thread outlived a cleanup that gave up waiting for it.
WineOnDeletedLock ==
  /\ callback_lock = "deleted"
  /\ wine \in {"enter", "leave"}
  /\ fault' = "lock"
  /\ UNCHANGED <<managerVars, streamVars>>

-----------------------------------------------------------------------------
(* The application's thread: init_ and cleanup_asio_callback_manager.      *)

\* A manager that is already there is kept as it is.
InitKept ==
  /\ callback_thread
  /\ UNCHANGED <<managerVars, fault>>

InitCreates(d) ==
  /\ ~callback_thread
  /\ wine \in {"none", "exited"}
  /\ callback_thread' = TRUE
  /\ callback_lock' = "free"
  /\ callback_event' = FALSE
  /\ callback_completed' = FALSE
  /\ callback_pending' = FALSE
  /\ thread_should_exit' = FALSE
  /\ request' = [request EXCEPT !.This = d]
  /\ given_up' = FALSE
  /\ wine' = "wait"
  /\ UNCHANGED fault

\* A thread of an earlier manager is still alive in the memory of this one.
InitUnderLiveThread ==
  /\ ~callback_thread
  /\ wine \notin {"none", "exited"}
  /\ fault' = "thread"
  /\ UNCHANGED managerVars

\* CreateEventW fails: the critical section stays initialized, nothing is
\* undone.  CreateThread fails: everything is undone.
InitFails(d, what) ==
  /\ ~callback_thread
  /\ callback_lock' = IF what = "events" THEN "free" ELSE "deleted"
  /\ callback_event' = FALSE
  /\ callback_completed' = FALSE
  /\ callback_pending' = FALSE
  /\ thread_should_exit' = FALSE
  /\ request' = [request EXCEPT !.This = d]
  /\ UNCHANGED <<callback_thread, given_up, wine, fault>>

CleanupRequest ==
  /\ callback_thread
  /\ callback_lock = "free"
  /\ thread_should_exit' = TRUE
  /\ UNCHANGED <<lockVars, eventVars, requestVars, wine, fault>>

CleanupWake ==
  /\ callback_event' = TRUE
  /\ UNCHANGED <<lockVars, callback_completed, requestVars, thread_should_exit,
                 wine, fault>>

\* The wait for the thread ends when it exits, or after 5 s; either way the
\* handles are closed, the lock is deleted and the manager is zeroed.
CleanupReset ==
  /\ wine \in {"exited"} \cup Stuck
  /\ callback_thread' = FALSE
  /\ callback_lock' = "deleted"
  /\ callback_event' = FALSE
  /\ callback_completed' = FALSE
  /\ callback_pending' = FALSE
  /\ thread_should_exit' = FALSE
  /\ request' = [This |-> NoDriver, buffer_index |-> 0]
  /\ given_up' = FALSE
  /\ wine' = IF wine = "exited" THEN "none" ELSE wine
  /\ UNCHANGED fault
=============================================================================
