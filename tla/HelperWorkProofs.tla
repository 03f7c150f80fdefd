-------------------------- MODULE HelperWorkProofs --------------------------
(***************************************************************************)
(* A deferred operation is executed once, by the loop thread, before the   *)
(* call that scheduled it returns; and threads that PipeWire has created   *)
(* through one global structure are told apart although a new thread reads *)
(* its function after its creator has gone on.  Proved for any number of   *)
(* clients, calls, ports and threads.                                      *)
(***************************************************************************)
EXTENDS HelperWork, TLAPS

-----------------------------------------------------------------------------
(* Thread creation.                                                        *)

privates == jack_thread_creator_privates
Told == {"looking", "running"}

\* The structure belongs to the last creation, or is about to.
PrivatesInv ==
  /\ creator # "idle" => created > 0
  /\ privates.fn = created
  /\ privates.arg = IF creator = "stored" THEN created - 1 ELSE created
  /\ privates.event = privates.arg

\* Only the thread of a creation under way has not set its event yet.
HelpersInv ==
  \A k \in Numbers :
    /\ helper[k].at # "none" => k <= privates.arg
    /\ helper[k].at \in {"started", "announced"} => creator = "waiting" /\ k = created

EventInv ==
  /\ creator # "waiting" => signalled = {}
  /\ signalled \subseteq {created}
  /\ created \in signalled => helper[created].at \in Told
  /\ creator = "waiting" /\ helper[created].at # "started" => privates.id = created
  /\ creator = "waiting" => helper[created].at # "none"
  /\ creator = "idle" => thread_id = created

\* What a thread has read is its own or later.
ReadInv ==
  \A k \in Numbers :
    /\ helper[k].fn # 0 => helper[k].fn >= k
    /\ helper[k].arg # 0 => helper[k].arg >= k
    /\ helper[k].at = "running" => helper[k].fn # 0 /\ helper[k].arg # 0

\* Until a later creation begins, the structure is that of the thread that reads.
OvertakenInv ==
  \A k \in Numbers \ overtaken :
    /\ helper[k].at \notin {"none", "running"} => k = created /\ creator # "stored"
    /\ helper[k].fn \in {0, k} /\ helper[k].arg \in {0, k}

ThreadInv ==
  ThreadTypeOK /\ PrivatesInv /\ HelpersInv /\ EventInv /\ ReadInv /\ OvertakenInv

LEMMA ThreadInvInit == ASSUME ThreadInit PROVE ThreadInv
<1>1. ThreadTypeOK
  BY ThreadAssumption DEF ThreadInit, ThreadTypeOK, Numbers, NoThread
<1>2. PrivatesInv /\ HelpersInv
  BY ThreadAssumption DEF ThreadInit, PrivatesInv, HelpersInv, NoThread, privates
<1>3. EventInv /\ ReadInv /\ OvertakenInv
  BY ThreadAssumption DEF ThreadInit, EventInv, ReadInv, OvertakenInv, NoThread
<1> QED BY <1>1, <1>2, <1>3 DEF ThreadInv

LEMMA StoreFunctionStep == ASSUME ThreadInv, StoreFunction PROVE ThreadInv'
<1> USE ThreadAssumption
<1>1. ThreadTypeOK'
  <2>1. created' \in 0..MaxThreads
    BY DEF ThreadInv, StoreFunction, ThreadTypeOK
  <2>2. jack_thread_creator_privates' \in [fn : 0..MaxThreads, arg : 0..MaxThreads,
                                           id : 0..MaxThreads, event : 0..MaxThreads]
    BY <2>1 DEF ThreadInv, StoreFunction, ThreadTypeOK
  <2>3. overtaken' \subseteq Numbers
    BY DEF ThreadInv, StoreFunction, ThreadTypeOK
  <2> QED BY <2>1, <2>2, <2>3 DEF ThreadInv, StoreFunction, ThreadTypeOK
<1>2. PrivatesInv' /\ HelpersInv'
  BY DEF ThreadInv, StoreFunction, ThreadTypeOK, PrivatesInv, HelpersInv, privates, Numbers
<1>3. EventInv' /\ ReadInv'
  BY DEF ThreadInv, StoreFunction, EventInv, ReadInv, Numbers
<1>4. OvertakenInv'
  BY DEF ThreadInv, StoreFunction, OvertakenInv
<1> QED BY <1>1, <1>2, <1>3, <1>4 DEF ThreadInv

LEMMA StartThreadStep == ASSUME ThreadInv, StartThread PROVE ThreadInv'
<1> USE ThreadAssumption
<1>0. created \in Numbers
  BY DEF ThreadInv, StartThread, ThreadTypeOK, PrivatesInv, Numbers
<1>1. ThreadTypeOK'
  BY <1>0 DEF ThreadInv, StartThread, ThreadTypeOK, Numbers
<1>2. PrivatesInv' /\ HelpersInv'
  BY <1>0 DEF ThreadInv, StartThread, ThreadTypeOK, PrivatesInv, HelpersInv, privates, Numbers
<1>3. EventInv' /\ ReadInv'
  BY <1>0 DEF ThreadInv, StartThread, ThreadTypeOK, HelpersInv, EventInv, ReadInv, Numbers
<1>4. OvertakenInv'
  BY <1>0 DEF ThreadInv, StartThread, ThreadTypeOK, OvertakenInv
<1> QED BY <1>1, <1>2, <1>3, <1>4 DEF ThreadInv

LEMMA StartThreadFailsStep == ASSUME ThreadInv, StartThreadFails PROVE ThreadInv'
<1> USE ThreadAssumption
<1>1. ThreadTypeOK'
  BY DEF ThreadInv, StartThreadFails, ThreadTypeOK, Numbers
<1>2. PrivatesInv' /\ HelpersInv'
  BY DEF ThreadInv, StartThreadFails, ThreadTypeOK, PrivatesInv, HelpersInv, privates, Numbers
<1>3. EventInv' /\ ReadInv'
  BY DEF ThreadInv, StartThreadFails, EventInv, ReadInv, Numbers
<1>4. OvertakenInv'
  BY DEF ThreadInv, StartThreadFails, OvertakenInv
<1> QED BY <1>1, <1>2, <1>3, <1>4 DEF ThreadInv

\* The creator goes on when its own thread has written its id.
LEMMA ReturnIdStep == ASSUME ThreadInv, ReturnId PROVE ThreadInv'
<1>1. signalled = {created} /\ privates.event = created
  BY DEF ThreadInv, ReturnId, PrivatesInv, EventInv, privates
<1>2. helper[created].at \in Told /\ privates.id = created
  BY <1>1 DEF ThreadInv, ReturnId, EventInv, Told
<1>3. ThreadTypeOK'
  BY DEF ThreadInv, ReturnId, ThreadTypeOK
<1>4. PrivatesInv' /\ ReadInv'
  BY DEF ThreadInv, ReturnId, PrivatesInv, ReadInv, privates
<1>5. HelpersInv'
  BY <1>2 DEF ThreadInv, ReturnId, HelpersInv, Told, privates
<1>6. EventInv'
  BY <1>1, <1>2 DEF ThreadInv, ReturnId, EventInv, privates
<1>7. OvertakenInv'
  BY DEF ThreadInv, ReturnId, OvertakenInv
<1> QED BY <1>3, <1>4, <1>5, <1>6, <1>7 DEF ThreadInv

LEMMA WriteIdStep == ASSUME ThreadInv, NEW k \in Numbers, WriteId(k) PROVE ThreadInv'
<1> USE ThreadAssumption
<1>1. creator = "waiting" /\ k = created
  BY DEF ThreadInv, HelpersInv, WriteId
<1>2. ThreadTypeOK'
  <2>1. jack_thread_creator_privates' \in [fn : 0..MaxThreads, arg : 0..MaxThreads,
                                           id : 0..MaxThreads, event : 0..MaxThreads]
    <3>1. k \in 0..MaxThreads
      BY DEF Numbers
    <3>2. jack_thread_creator_privates \in [fn : 0..MaxThreads, arg : 0..MaxThreads,
                                            id : 0..MaxThreads, event : 0..MaxThreads]
      BY DEF ThreadInv, ThreadTypeOK
    <3> QED BY <3>1, <3>2 DEF WriteId
  <2>2. helper' \in [Numbers -> [at : {"none", "started", "announced", "looking", "running"},
                                 fn : 0..MaxThreads, arg : 0..MaxThreads]]
    BY DEF ThreadInv, WriteId, ThreadTypeOK
  <2> QED BY <2>1, <2>2 DEF ThreadInv, WriteId, ThreadTypeOK
<1>3. PrivatesInv' /\ HelpersInv' /\ ReadInv'
  BY <1>1 DEF ThreadInv, WriteId, ThreadTypeOK, PrivatesInv, HelpersInv, ReadInv, privates, Numbers
<1>4. EventInv'
  BY <1>1 DEF ThreadInv, WriteId, ThreadTypeOK, EventInv, Told, privates, Numbers
<1>5. OvertakenInv'
  BY DEF ThreadInv, WriteId, ThreadTypeOK, OvertakenInv
<1> QED BY <1>2, <1>3, <1>4, <1>5 DEF ThreadInv

LEMMA SetCreatedStep == ASSUME ThreadInv, NEW k \in Numbers, SetCreated(k) PROVE ThreadInv'
<1> USE ThreadAssumption
<1>1. creator = "waiting" /\ k = created /\ privates.event = created
  BY DEF ThreadInv, HelpersInv, PrivatesInv, SetCreated
<1>2. ThreadTypeOK'
  <2>1. helper' \in [Numbers -> [at : {"none", "started", "announced", "looking", "running"},
                                 fn : 0..MaxThreads, arg : 0..MaxThreads]]
    BY DEF ThreadInv, SetCreated, ThreadTypeOK
  <2>2. signalled' \subseteq Numbers
    BY <1>1 DEF ThreadInv, SetCreated, ThreadTypeOK, privates
  <2> QED BY <2>1, <2>2 DEF ThreadInv, SetCreated, ThreadTypeOK
<1>3. PrivatesInv' /\ HelpersInv' /\ ReadInv'
  BY <1>1 DEF ThreadInv, SetCreated, ThreadTypeOK, PrivatesInv, HelpersInv, ReadInv, privates, Numbers
<1>4. EventInv'
  BY <1>1 DEF ThreadInv, SetCreated, ThreadTypeOK, EventInv, Told, privates, Numbers
<1>5. OvertakenInv'
  BY DEF ThreadInv, SetCreated, ThreadTypeOK, OvertakenInv
<1> QED BY <1>2, <1>3, <1>4, <1>5 DEF ThreadInv

LEMMA LookStep ==
  ASSUME ThreadInv, NEW k \in Numbers, NEW field \in {"fn", "arg"}, Look(k, field)
  PROVE  ThreadInv'
<1> USE ThreadAssumption
<1> DEFINE read == [helper[k] EXCEPT ![field] = privates[field]]
<1>1. /\ k <= privates.arg /\ privates.arg <= privates.fn
      /\ privates.fn \in 0..MaxThreads /\ privates.arg \in 0..MaxThreads
  <2>1. helper[k].at # "none"
    BY DEF Look
  <2>2. k <= privates.arg
    BY <2>1 DEF ThreadInv, HelpersInv
  <2> QED BY <2>2 DEF ThreadInv, ThreadTypeOK, PrivatesInv, privates
<1>2. privates[field] \in 0..MaxThreads /\ privates[field] >= k
  <2>1. k \in Nat /\ k <= privates.fn
    BY <1>1 DEF Numbers
  <2>2. field = "fn" \/ field = "arg"
    OBVIOUS
  <2>3. CASE field = "fn"
    BY <1>1, <2>1, <2>3
  <2>4. CASE field = "arg"
    BY <1>1, <2>1, <2>4
  <2> QED BY <2>2, <2>3, <2>4
<1>3. /\ read.at = "looking"
      /\ read.fn \in 0..MaxThreads /\ (read.fn # 0 => read.fn >= k)
      /\ read.arg \in 0..MaxThreads /\ (read.arg # 0 => read.arg >= k)
  BY <1>2 DEF ThreadInv, ThreadTypeOK, ReadInv, Look, Numbers
<1>4. /\ helper' = [helper EXCEPT ![k] =
                     IF read.fn # 0 /\ read.arg # 0 THEN [read EXCEPT !.at = "running"] ELSE read]
      /\ UNCHANGED <<jack_thread_creator_privates, signalled, created, creator, thread_id,
                     overtaken>>
      /\ helper[k].at = "looking"
  BY DEF Look, privates
<1>5. read \in [at : {"looking"}, fn : 0..MaxThreads, arg : 0..MaxThreads]
  BY <1>2 DEF ThreadInv, ThreadTypeOK, Look, Numbers
<1>6. helper'[k] \in [at : Told, fn : 0..MaxThreads, arg : 0..MaxThreads]
  BY <1>4, <1>5 DEF ThreadInv, ThreadTypeOK, Told
<1>7. \A j \in Numbers : j # k => helper'[j] = helper[j]
  BY <1>4 DEF ThreadInv, ThreadTypeOK
<1>8. ThreadTypeOK'
  BY <1>4, <1>6 DEF ThreadInv, ThreadTypeOK, Told
<1>9. PrivatesInv'
  BY <1>4 DEF ThreadInv, PrivatesInv, privates
<1>10. HelpersInv'
  BY <1>1, <1>4, <1>6, <1>7 DEF ThreadInv, HelpersInv, privates, Told
<1>11. EventInv'
  <2>1. created \in signalled \/ creator = "waiting" => created \in Numbers
    BY DEF ThreadInv, ThreadTypeOK, PrivatesInv, Numbers
  <2>2. created = k /\ creator = "waiting" => privates.id = created
    BY <1>4 DEF ThreadInv, EventInv
  <2>3. helper'[k].at \in Told
    BY <1>6
  <2> QED BY <1>4, <1>7, <2>1, <2>2, <2>3 DEF ThreadInv, EventInv, privates, Told
<1>12. ReadInv'
  <2>1. /\ helper'[k].fn = read.fn /\ helper'[k].arg = read.arg
        /\ helper'[k].at = "running" => read.fn # 0 /\ read.arg # 0
    BY <1>3, <1>4, <1>5 DEF ThreadInv, ThreadTypeOK
  <2> QED BY <1>3, <1>7, <2>1 DEF ThreadInv, ReadInv
<1>13. OvertakenInv'
  <2>1. ASSUME k \notin overtaken
        PROVE  /\ k = created /\ creator # "stored"
               /\ read.fn \in {0, k} /\ read.arg \in {0, k}
    <3>1. k = created /\ creator # "stored"
      BY <1>4, <2>1 DEF ThreadInv, OvertakenInv
    <3>2. privates.fn = k /\ privates.arg = k
      BY <3>1 DEF ThreadInv, PrivatesInv
    <3>3. helper[k].fn \in {0, k} /\ helper[k].arg \in {0, k}
      BY <2>1 DEF ThreadInv, OvertakenInv
    <3> QED BY <3>1, <3>2, <3>3 DEF ThreadInv, ThreadTypeOK
  <2>2. /\ helper'[k].fn = read.fn /\ helper'[k].arg = read.arg
    BY <1>3, <1>4, <1>5 DEF ThreadInv, ThreadTypeOK
  <2> QED BY <1>4, <1>7, <2>1, <2>2 DEF ThreadInv, OvertakenInv
<1> QED BY <1>8, <1>9, <1>10, <1>11, <1>12, <1>13 DEF ThreadInv

LEMMA HelperStep == ASSUME ThreadInv, NEW k \in Numbers, Helper(k) PROVE ThreadInv'
BY WriteIdStep, SetCreatedStep, LookStep DEF Helper

LEMMA ThreadUnchanged == ASSUME ThreadInv, UNCHANGED threadVars PROVE ThreadInv'
BY DEF ThreadInv, threadVars, ThreadTypeOK, PrivatesInv, HelpersInv, EventInv, ReadInv,
       OvertakenInv, privates

LEMMA OwnLemma == ThreadInv => CreatedIsOwn
BY DEF ThreadInv, EventInv, ReadInv, OvertakenInv, CreatedIsOwn

-----------------------------------------------------------------------------
(* The loop and its queue.                                                 *)

\* What the loop thread does and where the creation that it waits for is.
LoopInv ==
  /\ loop \in {"polling", "executing"} => creator = "idle"
  /\ loop = "creating" => creator \in {"stored", "waiting"}
  /\ loop = "hung" => creator \in {"idle", "hung"}
  /\ loop \in {"executing", "creating"} \/ creator = "hung" => queue # <<>>

\* Every client has one operation in the queue.
QueueInv ==
  /\ \A i \in 1..Len(queue) : client[queue[i]] = "queued"
  /\ \A i, j \in 1..Len(queue) : queue[i] = queue[j] => i = j

WorkTypeOK ==
  /\ g_worker_callback \in BOOLEAN
  /\ pending_operation \in Operations \cup {"none"}
  /\ operation_userdata \in BOOLEAN
  /\ client \in [Clients -> {"idle", "scheduled", "taken", "queued", "executed",
                        "waiting", "triggering"}]
  /\ task \in [Clients -> Operations \cup {"none"}]
  /\ calls \in 0..MaxCalls
  /\ queue \in Seq(Clients)
  /\ loop \in {"polling", "executing", "creating", "hung"}
  /\ filter \in FilterStates
  /\ buffers \in [Ports -> 0..2]
  /\ asio_buffers_left_to_init \in Nat

WorkInv == WorkTypeOK /\ LoopInv /\ QueueInv /\ PendingIsOwned /\ ThreadInv

\* Who is in the callback, as far as the invariant tells.
LEMMA CallbackLemma ==
  ASSUME WorkInv, NEW c \in Clients
  PROVE  /\ InCallback(c) => client[c] = "queued" /\ loop # "polling"
         /\ \A d \in Clients : InCallback(c) /\ InCallback(d) => c = d
<1>1. loop = "polling" => creator = "idle"
  BY DEF WorkInv, LoopInv
<1>2. queue # <<>> => client[Head(queue)] = "queued"
  BY DEF WorkInv, WorkTypeOK, QueueInv
<1> QED BY <1>1, <1>2 DEF InCallback

\* The steps of a client that leave the queue alone.
LEMMA ClientStep ==
  ASSUME WorkInv, NEW c \in Clients,
         \/ ScheduleWork(c) \/ ScheduleRefused(c) \/ TakeOperation(c) \/ TakeNothing(c) \/ Resume(c)
         \/ WaitForFilterState(c) \/ FilterStateKnown(c) \/ FilterStateTimeout(c)
         \/ TriggerEventProcessing(c) \/ EventProcessingTriggered(c)
  PROVE  WorkInv'
<1>1. UNCHANGED <<queue, loop, filterVars, threadVars>>
  BY DEF ScheduleWork, ScheduleRefused, TakeOperation, TakeNothing, Resume, WaitForFilterState,
         FilterStateKnown, FilterStateTimeout, TriggerEventProcessing, EventProcessingTriggered
<1>2. client[c] # "queued" /\ \A d \in Clients : d # c => client'[d] = client[d]
  BY DEF WorkInv, WorkTypeOK, Goes, ScheduleWork, ScheduleRefused, TakeOperation, TakeNothing, Resume,
         WaitForFilterState, FilterStateKnown, FilterStateTimeout, TriggerEventProcessing,
         EventProcessingTriggered
<1>3. WorkTypeOK'
  <2>1. client' \in [Clients -> {"idle", "scheduled", "taken", "queued", "executed", "waiting", "triggering"}]
    BY DEF WorkInv, WorkTypeOK, Goes, ScheduleWork, ScheduleRefused, TakeOperation, TakeNothing, Resume,
         WaitForFilterState, FilterStateKnown, FilterStateTimeout, TriggerEventProcessing,
         EventProcessingTriggered
  <2>2. task' \in [Clients -> Operations \cup {"none"}]
    BY DEF WorkInv, WorkTypeOK, ScheduleWork, ScheduleRefused, TakeOperation, TakeNothing, Resume,
         WaitForFilterState, FilterStateKnown, FilterStateTimeout, TriggerEventProcessing,
         EventProcessingTriggered
  <2>3. calls' \in 0..MaxCalls
    BY WorkAssumption
       DEF WorkInv, WorkTypeOK, Calls, clientVars, ScheduleWork, ScheduleRefused, TakeOperation, TakeNothing,
         Resume, WaitForFilterState, FilterStateKnown, FilterStateTimeout, TriggerEventProcessing,
         EventProcessingTriggered
  <2>4. /\ g_worker_callback' = g_worker_callback
        /\ pending_operation' \in Operations \cup {"none"}
        /\ operation_userdata' \in BOOLEAN
    BY DEF WorkInv, WorkTypeOK, helperVars, ScheduleWork, ScheduleRefused, TakeOperation, TakeNothing, Resume,
         WaitForFilterState, FilterStateKnown, FilterStateTimeout, TriggerEventProcessing,
         EventProcessingTriggered
  <2> QED BY <1>1, <2>1, <2>2, <2>3, <2>4 DEF WorkInv, WorkTypeOK, filterVars
<1>4. LoopInv'
  BY <1>1 DEF WorkInv, LoopInv, threadVars
<1>5. QueueInv'
  <2>1. \A i \in 1..Len(queue) : queue[i] \in Clients
    BY DEF WorkInv, WorkTypeOK
  <2> QED BY <1>1, <1>2, <2>1 DEF WorkInv, QueueInv
<1>6. PendingIsOwned'
  BY <1>2 DEF WorkInv, WorkTypeOK, PendingIsOwned, Goes, helperVars, ScheduleWork, ScheduleRefused,
         TakeOperation, TakeNothing, Resume, WaitForFilterState, FilterStateKnown, FilterStateTimeout,
         TriggerEventProcessing, EventProcessingTriggered
<1> QED BY <1>1, <1>3, <1>4, <1>5, <1>6, ThreadUnchanged DEF WorkInv

LEMMA InvokeStep == ASSUME WorkInv, NEW c \in Clients, Invoke(c) PROVE WorkInv'
<1>1. WorkTypeOK' /\ LoopInv'
  BY DEF WorkInv, WorkTypeOK, LoopInv, Invoke, Goes, helperVars, filterVars, threadVars
<1>2. QueueInv'
  <2>1. /\ Len(queue') = Len(queue) + 1 /\ queue'[Len(queue) + 1] = c
        /\ \A i \in 1..Len(queue) : queue'[i] = queue[i] /\ queue[i] # c /\ queue[i] \in Clients
        /\ Len(queue) \in Nat
    BY DEF WorkInv, WorkTypeOK, QueueInv, Invoke, Goes
  <2>2. client'[c] = "queued" /\ \A d \in Clients : d # c => client'[d] = client[d]
    BY DEF WorkInv, WorkTypeOK, Invoke, Goes
  <2>3. \A i \in 1..Len(queue') : client'[queue'[i]] = "queued"
    BY <2>1, <2>2 DEF WorkInv, QueueInv
  <2>4. \A i, j \in 1..Len(queue') : queue'[i] = queue'[j] => i = j
    BY <2>1 DEF WorkInv, QueueInv
  <2> QED BY <2>3, <2>4 DEF QueueInv
<1>3. PendingIsOwned'
  BY DEF WorkInv, WorkTypeOK, PendingIsOwned, Invoke, Goes, helperVars
<1> QED BY <1>1, <1>2, <1>3, ThreadUnchanged DEF WorkInv, Invoke

\* The first operation is over.
LEMMA CompletesStep ==
  ASSUME WorkInv, loop = "executing", Completes,
         UNCHANGED <<helperVars, task, calls, filterVars, threadVars>>
  PROVE  WorkInv'
<1>1. queue # <<>> /\ creator = "idle"
  BY DEF WorkInv, LoopInv
<1>2. /\ queue' \in Seq(Clients) /\ Head(queue) \in Clients
      /\ Head(queue) = queue[1] /\ Len(queue) \in Nat \ {0} /\ Len(queue') = Len(queue) - 1
      /\ \A i \in 1..Len(queue') : queue'[i] = queue[i + 1]
  BY <1>1 DEF WorkInv, WorkTypeOK, Completes
<1>3. /\ client' \in [Clients -> {"idle", "scheduled", "taken", "queued", "executed", "waiting", "triggering"}]
      /\ client[Head(queue)] = "queued"
      /\ \A d \in Clients : d # Head(queue) => client'[d] = client[d]
  BY <1>2 DEF WorkInv, WorkTypeOK, QueueInv, Completes
<1>4. WorkTypeOK' /\ LoopInv'
  BY <1>1, <1>2, <1>3 DEF WorkInv, WorkTypeOK, LoopInv, Completes, helperVars, filterVars, threadVars
<1>5. QueueInv'
  <2>1. \A i \in 1..Len(queue') : i + 1 \in 1..Len(queue) /\ i + 1 # 1 /\ 1 \in 1..Len(queue)
    BY <1>2
  <2>2. \A i \in 1..Len(queue') : queue'[i] \in Clients /\ queue'[i] # Head(queue)
    BY <1>2, <2>1 DEF WorkInv, WorkTypeOK, QueueInv
  <2>3. \A i \in 1..Len(queue') : client'[queue'[i]] = "queued"
    BY <1>2, <1>3, <2>1, <2>2 DEF WorkInv, QueueInv
  <2>4. \A i, j \in 1..Len(queue') : queue'[i] = queue'[j] => i = j
    BY <1>2, <2>1 DEF WorkInv, QueueInv
  <2> QED BY <2>3, <2>4 DEF QueueInv
<1>6. PendingIsOwned'
  BY <1>3 DEF WorkInv, PendingIsOwned, helperVars
<1> QED BY <1>4, <1>5, <1>6, ThreadUnchanged DEF WorkInv

\* The other steps of the loop, the new threads and the server.
LEMMA OtherStep ==
  ASSUME WorkInv,
         \/ SetWorkerCallback \/ LoopTakes \/ CreateThread
         \/ CreateThreadGoesOn \/ CreateThreadHangs \/ CreateThreadReturns
         \/ (\E k \in Numbers : HelperRuns(k))
         \/ StateChanged \/ (\E p \in Ports : AddBuffer(p) \/ ClearBuffers(p))
  PROVE  WorkInv'
<1>1. UNCHANGED <<client, queue, pending_operation, operation_userdata, task, calls>>
  BY DEF SetWorkerCallback, LoopTakes, CreateThread, CreateThreadGoesOn, CreateThreadHangs,
         CreateThreadReturns, HelperRuns, StateChanged, AddBuffer, ClearBuffers, helperVars, clientVars
<1>2. QueueInv' /\ PendingIsOwned'
  BY <1>1 DEF WorkInv, QueueInv, PendingIsOwned
<1>3. WorkTypeOK'
  <2>1. /\ g_worker_callback' \in BOOLEAN /\ filter' \in FilterStates
        /\ loop' \in {"polling", "executing", "creating", "hung"}
    BY DEF WorkInv, WorkTypeOK, SetWorkerCallback, LoopTakes, CreateThread, CreateThreadGoesOn,
         CreateThreadHangs, CreateThreadReturns, HelperRuns, StateChanged, AddBuffer, ClearBuffers,
         helperVars, filterVars
  <2>2. buffers' \in [Ports -> 0..2] /\ asio_buffers_left_to_init' \in Nat
    BY DEF WorkInv, WorkTypeOK, SetWorkerCallback, LoopTakes, CreateThread, CreateThreadGoesOn,
         CreateThreadHangs, CreateThreadReturns, HelperRuns, StateChanged, AddBuffer, ClearBuffers,
         filterVars
  <2> QED BY <1>1, <2>1, <2>2 DEF WorkInv, WorkTypeOK
<1>4. LoopInv'
  BY <1>1 DEF WorkInv, LoopInv, WorkTypeOK, SetWorkerCallback, LoopTakes, CreateThread, CreateThreadGoesOn,
         CreateThreadHangs, CreateThreadReturns, HelperRuns, StateChanged, AddBuffer, ClearBuffers,
         threadVars, StoreFunction, StartThread, StartThreadFails, ReturnId, Helper, WriteId, SetCreated,
         Look
<1>5. ThreadInv'
  BY ThreadUnchanged, StoreFunctionStep, StartThreadStep, StartThreadFailsStep, ReturnIdStep, HelperStep
     DEF WorkInv, SetWorkerCallback, LoopTakes, CreateThread, CreateThreadGoesOn, CreateThreadHangs,
         CreateThreadReturns, HelperRuns, StateChanged, AddBuffer, ClearBuffers
<1> QED BY <1>2, <1>3, <1>4, <1>5 DEF WorkInv

-----------------------------------------------------------------------------
(* The specification.                                                      *)

LEMMA WorkInit == Init => WorkInv
<1> SUFFICES ASSUME Init PROVE WorkInv
  OBVIOUS
<1>1. WorkTypeOK
  <2>1. /\ g_worker_callback \in BOOLEAN /\ operation_userdata \in BOOLEAN
        /\ pending_operation \in Operations \cup {"none"}
        /\ loop \in {"polling", "executing", "creating", "hung"} /\ filter \in FilterStates
    BY DEF Init, FilterStates
  <2>2. /\ client \in [Clients -> {"idle", "scheduled", "taken", "queued", "executed", "waiting", "triggering"}]
        /\ task \in [Clients -> Operations \cup {"none"}]
    BY DEF Init
  <2>3. buffers \in [Ports -> 0..2] /\ calls \in 0..MaxCalls /\ queue \in Seq(Clients)
    BY WorkAssumption DEF Init
  <2>4. asio_buffers_left_to_init \in Nat
    BY WorkAssumption DEF Init
  <2> QED BY <2>1, <2>2, <2>3, <2>4 DEF WorkTypeOK
<1>2. LoopInv /\ QueueInv /\ PendingIsOwned
  BY DEF Init, LoopInv, QueueInv, PendingIsOwned, ThreadInit
<1> QED BY <1>1, <1>2, ThreadInvInit DEF Init, WorkInv

LEMMA WorkStep == ASSUME WorkInv, [Next]_vars PROVE WorkInv'
<1>1. ASSUME NEW c \in Clients, Client(c) PROVE WorkInv'
  BY <1>1, ClientStep, InvokeStep DEF Client, Call, Locked
<1>2. CASE WorkerConnect \/ WorkerUnknown
  BY <1>2, CompletesStep DEF WorkerConnect, WorkerUnknown
<1>3. CASE UNCHANGED vars
  <2>1. ThreadInv'
    BY <1>3, ThreadUnchanged DEF vars, WorkInv
  <2> QED BY <1>3, <2>1 DEF vars, helperVars, clientVars, filterVars, threadVars, WorkInv, WorkTypeOK,
          LoopInv, QueueInv, PendingIsOwned
<1> QED BY <1>1, <1>2, <1>3, OtherStep DEF Next, Loop

(* The inductive invariant of the deferred work: types, what the loop       *)
(* thread does and where the thread it creates is, a queue that holds every *)
(* client once, and who owns what is pending.                               *)
THEOREM WorkInvariant == Spec => []WorkInv
BY WorkInit, WorkStep, PTL DEF Spec

(* Every variable of the deferred work keeps its type.                      *)
THEOREM TypesCorrect == Spec => []TypeOK
<1>1. WorkInv => TypeOK
  BY DEF WorkInv, WorkTypeOK, ThreadInv, TypeOK
<1> QED BY <1>1, WorkInvariant, PTL

(* user_pw_schedule_work leaves no operation with userdata behind that      *)
(* nobody is about to take out, with any number of threads that schedule.   *)
THEOREM PendingIsTaken == Spec => []PendingIsOwned
<1>1. WorkInv => PendingIsOwned
  BY DEF WorkInv
<1> QED BY <1>1, WorkInvariant, PTL

(* jack_thread_creator returns the id of the thread it has created.  A      *)
(* thread that has read the structure before the next creation begins runs  *)
(* its own function with its own argument; one that has not may run those   *)
(* of a later creation, and never those of an earlier one.                  *)
THEOREM CreatorsGetTheirOwn == Spec => []CreatedIsOwn
<1>1. WorkInv => CreatedIsOwn
  BY OwnLemma DEF WorkInv
<1> QED BY <1>1, WorkInvariant, PTL

-----------------------------------------------------------------------------
(* The promise to a caller.                                                *)

\* How far the call of c has come, as in Deferred.
progress ==
  [c \in Clients |->
    CASE client[c] = "executed" -> "executed"
      [] InCallback(c) -> "executing"
      [] client[c] \in {"scheduled", "taken", "queued"} /\ ~InCallback(c) -> "accepted"
      [] OTHER -> "none"]

LEMMA ProgressLemma ==
  ASSUME WorkInv, NEW c \in Clients
  PROVE  /\ client[c] = "executed" => progress[c] = "executed"
         /\ InCallback(c) => progress[c] = "executing"
         /\ client[c] \in {"scheduled", "taken", "queued"} /\ ~InCallback(c) => progress[c] = "accepted"
         /\ client[c] \in {"idle", "waiting", "triggering"} => progress[c] = "none"
<1>1. InCallback(c) => client[c] = "queued"
  BY CallbackLemma
<1> QED BY <1>1 DEF progress

\* A step that changes the progress of c alone.
LEMMA ProgressOf ==
  ASSUME NEW c \in Clients, \A d \in Clients : d # c => progress'[d] = progress[d]
  PROVE  progress' = [progress EXCEPT ![c] = progress'[c]]
<1>1. progress = [d \in Clients |-> progress[d]] /\ progress' = [d \in Clients |-> progress'[d]]
  BY DEF progress
<1> QED BY <1>1

LEMMA ProgressSame ==
  ASSUME \A d \in Clients : progress'[d] = progress[d]
  PROVE  UNCHANGED progress
<1>1. progress = [d \in Clients |-> progress[d]] /\ progress' = [d \in Clients |-> progress'[d]]
  BY DEF progress
<1> QED BY <1>1

LEMMA BecomesLemma ==
  ASSUME NEW c \in Clients, NEW from, NEW to,
         progress[c] = from, progress'[c] = to,
         \A d \in Clients : d # c => progress'[d] = progress[d]
  PROVE  Deferred!Becomes(c, from, to)
<1>1. progress' = [progress EXCEPT ![c] = to]
  BY ProgressOf
<1> QED BY <1>1 DEF Deferred!Becomes, progress

\* The progress of a client depends on where it is and on who is in the callback.
LEMMA ProgressKept ==
  ASSUME NEW d \in Clients, client'[d] = client[d], InCallback(d)' <=> InCallback(d)
  PROVE  progress'[d] = progress[d]
BY DEF progress

LEMMA NobodyInCallback ==
  ASSUME WorkInv, loop = "polling"
  PROVE  \A d \in Clients : ~InCallback(d)
BY DEF WorkInv, LoopInv, InCallback

\* Any step of a client: the loop polls, or the client is not in its queue.
LEMMA ClientRefines ==
  ASSUME WorkInv, WorkInv', NEW c \in Clients, Client(c)
  PROVE  Deferred!Next \/ UNCHANGED progress
<1>1. \A d \in Clients : d # c => client'[d] = client[d]
  BY DEF WorkInv, WorkTypeOK, Client, Call, Locked, Goes, ScheduleWork, ScheduleRefused, TakeOperation,
         TakeNothing, Invoke, Resume, WaitForFilterState, FilterStateKnown, FilterStateTimeout,
         TriggerEventProcessing, EventProcessingTriggered
<1>2. UNCHANGED <<loop, creator>>
  BY DEF Client, Call, Locked, ScheduleWork, ScheduleRefused, TakeOperation, TakeNothing, Invoke, Resume,
         WaitForFilterState, FilterStateKnown, FilterStateTimeout, TriggerEventProcessing,
         EventProcessingTriggered, threadVars
<1>3. \A d \in Clients : InCallback(d)' <=> InCallback(d)
  <2>1. CASE Invoke(c)
    <3>1. loop = "polling" /\ loop' = "polling"
      BY <2>1 DEF Invoke
    <3>2. creator = "idle" /\ creator' = "idle"
      BY <3>1, <1>2 DEF WorkInv, LoopInv
    <3> QED BY <3>1, <3>2 DEF InCallback
  <2>2. CASE ~Invoke(c)
    <3>1. queue' = queue
      BY <2>2 DEF Client, Call, Locked, ScheduleWork, ScheduleRefused, TakeOperation, TakeNothing, Resume,
           WaitForFilterState, FilterStateKnown, FilterStateTimeout, TriggerEventProcessing,
           EventProcessingTriggered
    <3> QED BY <3>1, <1>2 DEF InCallback
  <2> QED BY <2>1, <2>2
<1>4. \A d \in Clients : d # c => progress'[d] = progress[d]
  BY <1>1, <1>3, ProgressKept
<1>5. client[c] # "queued" /\ ~InCallback(c) /\ ~InCallback(c)'
  <2>1. client[c] # "queued"
    BY DEF Client, Call, Locked, Goes, ScheduleWork, ScheduleRefused, TakeOperation, TakeNothing, Invoke,
         Resume, WaitForFilterState, FilterStateKnown, FilterStateTimeout, TriggerEventProcessing,
         EventProcessingTriggered
  <2> QED BY <1>3, <2>1, CallbackLemma
<1>6. /\ client[c] = "executed" => progress[c] = "executed"
      /\ client[c] \in {"scheduled", "taken"} => progress[c] = "accepted"
      /\ client[c] \in {"idle", "waiting", "triggering"} => progress[c] = "none"
  BY <1>5, ProgressLemma
<1>7. /\ client'[c] = "idle" => progress'[c] = "none"
      /\ client'[c] \in {"waiting", "triggering"} => progress'[c] = "none"
      /\ client'[c] \in {"scheduled", "taken"} => progress'[c] = "accepted"
      /\ client'[c] = "queued" => progress'[c] = "accepted"
  BY <1>5 DEF progress
<1>8. CASE ScheduleWork(c)
  <2>1. client[c] = "idle" /\ client'[c] = "scheduled"
    BY <1>8 DEF WorkInv, WorkTypeOK, ScheduleWork, Goes
  <2>2. Deferred!Becomes(c, "none", "accepted")
    BY <1>4, <1>6, <1>7, <2>1, BecomesLemma
  <2> QED BY <2>2 DEF Deferred!Next, Deferred!Accept
<1>9. CASE Resume(c)
  <2>1. client[c] = "executed" /\ client'[c] = "idle"
    BY <1>9 DEF WorkInv, WorkTypeOK, Resume, Goes
  <2>2. Deferred!Becomes(c, "executed", "none")
    BY <1>4, <1>6, <1>7, <2>1, BecomesLemma
  <2> QED BY <2>2 DEF Deferred!Next, Deferred!Return
<1>10. CASE client[c] = "scheduled" /\ client'[c] = "idle"
  <2>1. Deferred!Becomes(c, "accepted", "none")
    BY <1>4, <1>6, <1>7, <1>10, BecomesLemma
  <2> QED BY <2>1 DEF Deferred!Next, Deferred!Forget
<1>11. CASE \/ client[c] = "scheduled" /\ client'[c] = "taken"
            \/ client[c] \in {"idle", "waiting", "triggering"} /\ client'[c] \in {"idle", "waiting", "triggering"}
  <2>1. progress'[c] = progress[c]
    BY <1>6, <1>7, <1>11
  <2> QED BY <1>4, <2>1, ProgressSame
<1>12. CASE Invoke(c)
  <2>1. client[c] = "taken" /\ client'[c] = "queued" /\ ~InCallback(c)
    BY <1>12, NobodyInCallback DEF WorkInv, WorkTypeOK, Invoke, Goes
  <2>2. progress'[c] = progress[c]
    BY <1>6, <1>7, <2>1
  <2> QED BY <1>4, <2>2, ProgressSame
<1> QED BY <1>8, <1>9, <1>10, <1>11, <1>12
        DEF WorkInv, WorkTypeOK, Client, Call, Locked, Goes, ScheduleRefused, TakeOperation,
         TakeNothing, WaitForFilterState, FilterStateKnown, FilterStateTimeout,
         TriggerEventProcessing, EventProcessingTriggered

\* The operation of the first client of the queue begins.
LEMMA LoopTakesRefines ==
  ASSUME WorkInv, WorkInv', LoopTakes, NEW c \in Clients, c = Head(queue)
  PROVE  Deferred!Next
<1>1. client[c] = "queued"
  BY DEF LoopTakes, WorkInv, WorkTypeOK, QueueInv
<1>2. UNCHANGED <<client, queue, creator>> /\ loop = "polling" /\ loop' = "executing" /\ queue # <<>>
  BY DEF LoopTakes, clientVars, threadVars
<1>3. \A d \in Clients : ~InCallback(d) /\ (InCallback(d)' <=> d = c)
  <2>1. creator = "idle" /\ creator' = "idle"
    BY <1>2 DEF WorkInv, LoopInv
  <2> QED BY <1>2, <2>1, NobodyInCallback DEF InCallback
<1>4. \A d \in Clients : d # c => progress'[d] = progress[d]
  BY <1>2, <1>3, ProgressKept
<1>5. progress[c] = "accepted" /\ progress'[c] = "executing"
  BY <1>1, <1>2, <1>3 DEF progress
<1>6. \A d \in Clients : progress[d] # "executing"
  BY <1>3 DEF progress, WorkInv, WorkTypeOK
<1>7. Deferred!Becomes(c, "accepted", "executing")
  BY <1>1, <1>4, <1>5, BecomesLemma
<1>8. Deferred!Execute(c)
  BY <1>6, <1>7 DEF Deferred!Execute, progress
<1> QED BY <1>8 DEF Deferred!Next

\* It ends.
LEMMA CompletesRefines ==
  ASSUME WorkInv, WorkInv', loop = "executing", Completes, UNCHANGED threadVars,
         NEW c \in Clients, c = Head(queue)
  PROVE  Deferred!Next
<1>1. queue # <<>> /\ creator = "idle"
  BY DEF WorkInv, LoopInv
<1>2. InCallback(c) /\ client[c] = "queued"
  BY <1>1 DEF WorkInv, WorkTypeOK, QueueInv, InCallback
<1>3. client'[c] = "executed" /\ \A d \in Clients : d # c => client'[d] = client[d]
  BY <1>2 DEF WorkInv, WorkTypeOK, Completes
<1>4. \A d \in Clients : ~InCallback(d)'
  BY <1>1 DEF Completes, threadVars, InCallback
<1>5. \A d \in Clients : d # c => ~InCallback(d)
  BY DEF InCallback
<1>6. \A d \in Clients : d # c => progress'[d] = progress[d]
  BY <1>3, <1>4, <1>5, ProgressKept
<1>7. progress[c] = "executing" /\ progress'[c] = "executed"
  <2>1. progress[c] = "executing"
    BY <1>2, ProgressLemma
  <2>2. progress'[c] = "executed"
    BY <1>3, <1>4 DEF progress
  <2> QED BY <2>1, <2>2
<1>8. Deferred!Becomes(c, "executing", "executed")
  BY <1>2, <1>6, <1>7, BecomesLemma
<1> QED BY <1>2, <1>8 DEF Deferred!Next, Deferred!Finish

\* The other steps change nobody's progress.
LEMMA OtherRefines ==
  ASSUME WorkInv, WorkInv',
         \/ SetWorkerCallback \/ CreateThread
         \/ CreateThreadGoesOn \/ CreateThreadHangs \/ CreateThreadReturns
         \/ (\E k \in Numbers : HelperRuns(k))
         \/ StateChanged \/ (\E p \in Ports : AddBuffer(p) \/ ClearBuffers(p))
         \/ UNCHANGED vars
  PROVE  UNCHANGED progress
<1>1. UNCHANGED <<client, queue>>
  BY DEF SetWorkerCallback, CreateThread, CreateThreadGoesOn, CreateThreadHangs,
         CreateThreadReturns, HelperRuns, StateChanged, AddBuffer, ClearBuffers, clientVars, vars
<1>2. (loop \in {"executing", "creating"} \/ creator = "hung") <=>
        (loop' \in {"executing", "creating"} \/ creator' = "hung")
  BY DEF WorkInv, LoopInv, SetWorkerCallback, CreateThread, CreateThreadGoesOn, CreateThreadHangs,
         CreateThreadReturns, HelperRuns, StateChanged, AddBuffer, ClearBuffers, threadVars, vars,
         StoreFunction, StartThread, StartThreadFails, ReturnId, Helper, WriteId, SetCreated, Look
<1>3. \A d \in Clients : InCallback(d)' <=> InCallback(d)
  BY <1>1, <1>2 DEF InCallback
<1> QED BY <1>1, <1>3, ProgressKept, ProgressSame

LEMMA HeadLemma == ASSUME WorkInv, loop = "executing" \/ queue # <<>> PROVE Head(queue) \in Clients
BY DEF WorkInv, WorkTypeOK, LoopInv

(* Every deferred operation that is accepted is executed at most once, by   *)
(* the loop thread alone and one at a time, and is over before the call     *)
(* that scheduled it returns: the helper implements DeferredCall.           *)
THEOREM ImplementsDeferredCall == Spec => ExecutesOnce
<1>1. Init => Deferred!Init
  BY DEF Init, Deferred!Init, InCallback, ThreadInit
<1>2. WorkInv /\ WorkInv' /\ [Next]_vars => [Deferred!Next]_progress
  <2> SUFFICES ASSUME WorkInv, WorkInv', [Next]_vars PROVE Deferred!Next \/ UNCHANGED progress
    OBVIOUS
  <2>1. ASSUME NEW c \in Clients, Client(c) PROVE Deferred!Next \/ UNCHANGED progress
    BY <2>1, ClientRefines
  <2>2. CASE WorkerConnect \/ WorkerUnknown
    BY <2>2, CompletesRefines, HeadLemma DEF WorkerConnect, WorkerUnknown
  <2>3. CASE LoopTakes
    BY <2>3, LoopTakesRefines, HeadLemma DEF LoopTakes
  <2> QED BY <2>1, <2>2, <2>3, OtherRefines DEF Next, Loop
<1>3. [Deferred!Next]_progress => [Deferred!Next]_([c \in Clients |->
        CASE client[c] = "executed" -> "executed"
          [] InCallback(c) -> "executing"
          [] client[c] \in {"scheduled", "taken", "queued"} /\ ~InCallback(c) -> "accepted"
          [] OTHER -> "none"])
  BY DEF progress
<1> QED BY <1>1, <1>2, <1>3, WorkInvariant, PTL DEF Spec, ExecutesOnce, Deferred!Spec
=============================================================================
