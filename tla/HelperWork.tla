----------------------------- MODULE HelperWork -----------------------------
(***************************************************************************)
(* The work that threads of the process have PipeWire's loop thread do.    *)
(* A thread schedules an operation: it stores it in the helper, takes it   *)
(* out again, hands it to the loop and waits until the loop has executed   *)
(* it.  The one operation there is connects the driver's filter, for which *)
(* PipeWire may create its data thread (ThreadCreator).  Meanwhile the     *)
(* server gives the filter buffers and changes its state, and threads wait *)
(* for a state with a time limit.                                          *)
(*                                                                         *)
(* The lock of the loop is held by the loop thread while it dispatches.    *)
(* Whatever another thread does under it is one step here, taken while the *)
(* loop polls; pw_loop_invoke releases it while it waits.                  *)
(***************************************************************************)
EXTENDS Naturals, Sequences, ThreadCreator

CONSTANTS
  Clients,       \* threads that call the helper
  MaxCalls,      \* calls of the clients, the bound of the model
  Ports,         \* ports of the filter
  LeftToInit,    \* values that asio_buffers_left_to_init may begin with
  MayHang        \* CreateThread may fail and the barrier may block

ASSUME WorkAssumption ==
  /\ MaxCalls \in Nat
  /\ LeftToInit \subseteq Nat
  /\ MayHang \in BOOLEAN

Operations == {"PW_OP_CONNECT_FILTER", "PW_OP_CREATE_PORTS"}
\* "settled" is the state that a client waits for, or PW_FILTER_STATE_ERROR.
FilterStates == {"moving", "settled"}

VARIABLES
  g_worker_callback,   \* somebody has registered a callback
  pending_operation,   \* an operation, or "none" for PW_OP_NONE
  operation_userdata,  \* whether its userdata is not NULL
  client,              \* client[c]: where c is
  task,                \* task[c]: the operation c has taken out, or "none"
  calls,               \* how many calls the clients have begun
  queue,               \* clients whose operation the loop is to execute
  loop,                \* "polling", "executing", "creating" a thread, or "hung"
  filter,              \* the state of the filter
  buffers,             \* buffers[p]: how many of the two buffers[] of p are set
  asio_buffers_left_to_init

helperVars == <<g_worker_callback, pending_operation, operation_userdata>>
clientVars == <<client, task, calls>>
filterVars == <<filter, buffers, asio_buffers_left_to_init>>
vars == <<helperVars, clientVars, queue, loop, filterVars, threadVars>>

Init ==
  /\ g_worker_callback = FALSE
  /\ pending_operation = "none"
  /\ operation_userdata = FALSE
  /\ client = [c \in Clients |-> "idle"]
  /\ task = [c \in Clients |-> "none"]
  /\ calls = 0
  /\ queue = <<>>
  /\ loop = "polling"
  /\ filter = "moving"
  /\ buffers = [p \in Ports |-> 0]
  /\ asio_buffers_left_to_init \in LeftToInit
  /\ ThreadInit

TypeOK ==
  /\ g_worker_callback \in BOOLEAN
  /\ pending_operation \in Operations \cup {"none"}
  /\ operation_userdata \in BOOLEAN
  /\ client \in [Clients -> {"idle", "scheduled", "taken", "queued", "executed",
                        "waiting", "triggering"}]
  /\ task \in [Clients -> Operations \cup {"none"}]
  /\ calls \in 0..MaxCalls
  /\ queue \in Seq(Clients)
  /\ loop \in {"polling", "executing", "creating", "hung"}
  /\ filter \in FilterStates
  /\ buffers \in [Ports -> 0..2]
  /\ asio_buffers_left_to_init \in Nat
  /\ ThreadTypeOK

Goes(c, from, to) == client[c] = from /\ client' = [client EXCEPT ![c] = to]
Calls == calls < MaxCalls /\ calls' = calls + 1

-----------------------------------------------------------------------------
(* Scheduling.                                                             *)

SetWorkerCallback ==
  /\ g_worker_callback' = TRUE
  /\ UNCHANGED <<pending_operation, operation_userdata, clientVars, queue, loop, filterVars, threadVars>>

\* user_pw_schedule_work under worker_mutex: -2 when another one is pending.
ScheduleWork(c) ==
  /\ Calls
  /\ pending_operation = "none"
  /\ Goes(c, "idle", "scheduled")
  /\ pending_operation' \in Operations
  /\ operation_userdata' \in BOOLEAN
  /\ UNCHANGED <<g_worker_callback, task, queue, loop, filterVars, threadVars>>

ScheduleRefused(c) ==
  /\ Calls
  /\ client[c] = "idle"
  /\ pending_operation # "none"
  /\ UNCHANGED <<helperVars, client, task, queue, loop, filterVars, threadVars>>

\* Plausible slip: tests the callback before it takes the operation out.
TakesWithCallbackOnly(c) ==
  /\ client[c] = "scheduled"
  /\ pending_operation # "none" /\ operation_userdata
  /\ IF g_worker_callback
       THEN /\ pending_operation' = "none" /\ operation_userdata' = FALSE
            /\ Goes(c, "scheduled", "taken")
            /\ task' = [task EXCEPT ![c] = pending_operation]
       ELSE Goes(c, "scheduled", "idle") /\ UNCHANGED <<task, pending_operation, operation_userdata>>
  /\ UNCHANGED <<g_worker_callback, calls, queue, loop, filterVars, threadVars>>

\* process_pending_operations, under worker_mutex again, up to the test of the
\* callback.
TakeOperation(c) ==
  /\ client[c] = "scheduled"
  /\ pending_operation # "none" /\ operation_userdata
  /\ pending_operation' = "none"
  /\ operation_userdata' = FALSE
  /\ IF g_worker_callback
       THEN /\ Goes(c, "scheduled", "taken")
            /\ task' = [task EXCEPT ![c] = pending_operation]
       ELSE Goes(c, "scheduled", "idle") /\ UNCHANGED task
  /\ UNCHANGED <<g_worker_callback, calls, queue, loop, filterVars, threadVars>>

\* Without userdata nothing is taken out and the operation stays pending.
TakeNothing(c) ==
  /\ pending_operation = "none" \/ ~operation_userdata
  /\ Goes(c, "scheduled", "idle")
  /\ UNCHANGED <<helperVars, task, calls, queue, loop, filterVars, threadVars>>

\* Takes the lock of the loop and queues the operation.
Invoke(c) ==
  /\ loop = "polling"
  /\ Goes(c, "taken", "queued")
  /\ queue' = Append(queue, c)
  /\ UNCHANGED <<helperVars, task, calls, loop, filterVars, threadVars>>

\* Plausible slip: does not wait for the loop.
ResumesAtOnce(c) ==
  /\ client[c] \in {"queued", "executed"}
  /\ loop = "polling"
  /\ client' = [client EXCEPT ![c] = "idle"]
  /\ task' = [task EXCEPT ![c] = "none"]
  /\ UNCHANGED <<helperVars, calls, queue, loop, filterVars, threadVars>>

\* Has the lock of the loop again and gives it back; the result is dropped.
Resume(c) ==
  /\ loop = "polling"
  /\ Goes(c, "executed", "idle")
  /\ task' = [task EXCEPT ![c] = "none"]
  /\ UNCHANGED <<helperVars, calls, queue, loop, filterVars, threadVars>>

-----------------------------------------------------------------------------
(* The loop thread, holding its lock.                                      *)

LoopTakes ==
  /\ loop = "polling"
  /\ queue # <<>>
  /\ loop' = "executing"
  /\ UNCHANGED <<helperVars, clientVars, queue, filterVars, threadVars>>

\* pipewire_worker_callback is over for the first client of the queue.
Completes ==
  /\ client' = [client EXCEPT ![Head(queue)] = "executed"]
  /\ queue' = Tail(queue)
  /\ loop' = "polling"

WorkerConnect ==
  /\ loop = "executing"
  /\ task[Head(queue)] = "PW_OP_CONNECT_FILTER"
  /\ creator = "idle"
  /\ Completes
  /\ UNCHANGED <<helperVars, task, calls, filterVars, threadVars>>

\* Plausible slip: executes an unknown operation without completing it.
UnknownIsDropped ==
  /\ loop = "executing"
  /\ task[Head(queue)] # "PW_OP_CONNECT_FILTER"
  /\ queue' = Tail(queue)
  /\ loop' = "polling"
  /\ UNCHANGED <<helperVars, clientVars, filterVars, threadVars>>

\* The operation is one that the callback does not know.
WorkerUnknown ==
  /\ loop = "executing"
  /\ task[Head(queue)] # "PW_OP_CONNECT_FILTER"
  /\ Completes
  /\ UNCHANGED <<helperVars, task, calls, filterVars, threadVars>>

\* impl_create passes the creator on to PipeWire, which calls it.
CreateThread ==
  /\ loop = "executing"
  /\ task[Head(queue)] = "PW_OP_CONNECT_FILTER"
  /\ StoreFunction
  /\ loop' = "creating"
  /\ UNCHANGED <<helperVars, clientVars, queue, filterVars>>

CreateThreadGoesOn ==
  /\ loop = "creating"
  /\ StartThread
  /\ UNCHANGED <<helperVars, clientVars, queue, loop, filterVars>>

CreateThreadHangs ==
  /\ MayHang
  /\ loop = "creating"
  /\ StartThreadFails
  /\ loop' = "hung"
  /\ UNCHANGED <<helperVars, clientVars, queue, filterVars>>

CreateThreadReturns ==
  /\ loop = "creating"
  /\ ReturnId
  /\ loop' = "executing"
  /\ UNCHANGED <<helperVars, clientVars, queue, filterVars>>

HelperRuns(k) ==
  /\ Helper(k)
  /\ UNCHANGED <<helperVars, clientVars, queue, loop, filterVars>>

\* The server changes the state of the filter, which the driver only prints.
StateChanged ==
  /\ loop = "polling"
  /\ filter' \in FilterStates
  /\ UNCHANGED <<helperVars, clientVars, queue, loop, buffers, asio_buffers_left_to_init, threadVars>>

\* Plausible slip: does not look whether both buffers[] are set.
AddBufferUnchecked(p) ==
  /\ loop = "polling"
  /\ buffers' = [buffers EXCEPT ![p] = @ + 1]
  /\ UNCHANGED <<helperVars, clientVars, queue, loop, filter, asio_buffers_left_to_init, threadVars>>

\* pipewire_add_buffer_callback.  The counter is never set: a counter at 0
\* wraps around and does not come back to 0 in any time that matters.  At 0
\* the loop waits at a barrier that nobody has initialized.
AddBuffer(p) ==
  /\ loop = "polling"
  /\ buffers[p] < 2
  /\ buffers' = [buffers EXCEPT ![p] = @ + 1]
  /\ asio_buffers_left_to_init' =
       IF asio_buffers_left_to_init = 0 THEN 0 ELSE asio_buffers_left_to_init - 1
  /\ loop' \in IF asio_buffers_left_to_init = 1 /\ MayHang THEN {"polling", "hung"}
               ELSE {"polling"}
  /\ UNCHANGED <<helperVars, clientVars, queue, filter, threadVars>>

\* CreateBuffers and DisposeBuffers clear what remove_buffer does not.
ClearBuffers(p) ==
  /\ buffers[p] = 2
  /\ buffers' = [buffers EXCEPT ![p] = 0]
  /\ UNCHANGED <<helperVars, clientVars, queue, loop, filter, asio_buffers_left_to_init, threadVars>>

-----------------------------------------------------------------------------
(* wait_for_filter_state_transition.  Rounds of the wait trigger event     *)
(* processing, for which they take the lock of the loop.                   *)

WaitForFilterState(c) ==
  /\ Calls
  /\ Goes(c, "idle", "waiting")
  /\ UNCHANGED <<helperVars, task, queue, loop, filterVars, threadVars>>

FilterStateKnown(c) ==
  /\ filter = "settled"
  /\ Goes(c, "waiting", "idle")
  /\ UNCHANGED <<helperVars, task, calls, queue, loop, filterVars, threadVars>>

FilterStateTimeout(c) ==
  /\ Goes(c, "waiting", "idle")
  /\ UNCHANGED <<helperVars, task, calls, queue, loop, filterVars, threadVars>>

TriggerEventProcessing(c) ==
  /\ filter = "moving"
  /\ Goes(c, "waiting", "triggering")
  /\ UNCHANGED <<helperVars, task, calls, queue, loop, filterVars, threadVars>>

EventProcessingTriggered(c) ==
  /\ loop = "polling"
  /\ Goes(c, "triggering", "waiting")
  /\ UNCHANGED <<helperVars, task, calls, queue, loop, filterVars, threadVars>>

-----------------------------------------------------------------------------
Call(c) == TakeOperation(c) \/ TakeNothing(c) \/ FilterStateKnown(c)
Locked(c) == Invoke(c) \/ Resume(c) \/ EventProcessingTriggered(c)
Client(c) ==
  ScheduleWork(c) \/ ScheduleRefused(c) \/ WaitForFilterState(c) \/ Call(c) \/ Locked(c)
    \/ FilterStateTimeout(c) \/ TriggerEventProcessing(c)

Loop ==
  LoopTakes \/ WorkerConnect \/ WorkerUnknown
    \/ CreateThreadGoesOn \/ CreateThreadHangs \/ CreateThreadReturns

Next ==
  \/ SetWorkerCallback
  \/ \E c \in Clients : Client(c)
  \/ Loop
  \/ CreateThread
  \/ \E k \in Numbers : HelperRuns(k)
  \/ StateChanged
  \/ \E p \in Ports : AddBuffer(p) \/ ClearBuffers(p)

Spec == Init /\ [][Next]_vars

(* Threads that are in a call go on, and so do the loop and new threads.    *)
(* The lock of the loop is free again and again, so that a thread that      *)
(* wants it gets it, and a wait that comes back to its test again and       *)
(* again finds its time over.  Nothing forces a call, a connect that        *)
(* creates a thread, or what the server does.                               *)
FairSpec ==
  /\ Spec
  /\ WF_vars(Loop)
  /\ \A c \in Clients :
       WF_vars(Call(c)) /\ SF_vars(Locked(c)) /\ SF_vars(FilterStateTimeout(c))
  /\ \A k \in Numbers : WF_vars(HelperRuns(k))

-----------------------------------------------------------------------------
(* An accepted operation that has userdata is on its way: the thread that   *)
(* scheduled it is about to take it out.  One without userdata stays, and   *)
(* all later ones are refused.                                              *)
PendingIsOwned ==
  pending_operation # "none" /\ operation_userdata =>
    \E c \in Clients : client[c] = "scheduled"

\* The loop thread is in the callback for c.
InCallback(c) ==
  /\ queue # <<>>
  /\ Head(queue) = c
  /\ loop \in {"executing", "creating"} \/ creator = "hung"

Deferred == INSTANCE DeferredCall WITH
  call <- [c \in Clients |->
    CASE client[c] = "executed" -> "executed"
      [] InCallback(c) -> "executing"
      [] client[c] \in {"scheduled", "taken", "queued"} /\ ~InCallback(c) -> "accepted"
      [] OTHER -> "none"]

(* An operation is executed by the loop thread once, while nothing else is, *)
(* and before the call that scheduled it returns.                           *)
ExecutesOnce == Deferred!Spec

(* Every call of the helper returns, also a wait for a state that never     *)
(* comes, unless the loop thread hangs in the creation of a thread or at    *)
(* the barrier of add_buffer.                                               *)
CallsReturn ==
  \A c \in Clients : client[c] # "idle" ~> (client[c] = "idle" \/ loop = "hung")
=============================================================================
