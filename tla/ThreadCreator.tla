---------------------------- MODULE ThreadCreator ----------------------------
(***************************************************************************)
(* How PipeWire gets a thread of the Wine process: jack_thread_creator and *)
(* the helper that runs in the new thread talk through one global          *)
(* structure and an event whose handle is also in it.                      *)
(*                                                                         *)
(* The helper writes its id, sets the event and only then reads the        *)
(* function and its argument: they may by then be those of a later         *)
(* creation.  Creations are numbered; the function and the argument of     *)
(* creation k are both k, and so are its thread and its event.             *)
(***************************************************************************)
EXTENDS Naturals

CONSTANTS
  MaxThreads  \* creations, the bound of the model

ASSUME ThreadAssumption == MaxThreads \in Nat

Numbers == 1..MaxThreads

VARIABLES
  jack_thread_creator_privates,  \* the global structure
  signalled,   \* the events that are set
  created,     \* the number of the last creation
  creator,     \* where the creating thread is
  thread_id,   \* what the last creation has returned, 0 before
  helper,      \* helper[k]: where thread k is and what it has read
  overtaken    \* history: the threads that had not read both when a later
               \* creation stored its function

threadVars ==
  <<jack_thread_creator_privates, signalled, created, creator, thread_id, helper,
    overtaken>>

NoThread == [at |-> "none", fn |-> 0, arg |-> 0]

ThreadInit ==
  /\ jack_thread_creator_privates = [fn |-> 0, arg |-> 0, id |-> 0, event |-> 0]
  /\ signalled = {}
  /\ created = 0
  /\ creator = "idle"
  /\ thread_id = 0
  /\ helper = [k \in Numbers |-> NoThread]
  /\ overtaken = {}

ThreadTypeOK ==
  /\ jack_thread_creator_privates
       \in [fn : 0..MaxThreads, arg : 0..MaxThreads, id : 0..MaxThreads, event : 0..MaxThreads]
  /\ signalled \subseteq Numbers
  /\ created \in 0..MaxThreads
  /\ creator \in {"idle", "stored", "waiting", "hung"}
  /\ thread_id \in 0..MaxThreads
  /\ helper \in [Numbers -> [at : {"none", "started", "announced", "looking", "running"},
                             fn : 0..MaxThreads, arg : 0..MaxThreads]]
  /\ overtaken \subseteq Numbers

(* jack_thread_creator.  A new event is not set, and nothing closes the     *)
(* earlier one.                                                             *)
StoreFunction ==
  /\ creator = "idle"
  /\ created < MaxThreads
  /\ created' = created + 1
  /\ jack_thread_creator_privates' = [jack_thread_creator_privates EXCEPT !.fn = created + 1]
  /\ creator' = "stored"
  /\ overtaken' = overtaken \cup {k \in Numbers : helper[k].at \notin {"none", "running"}}
  /\ UNCHANGED <<signalled, thread_id, helper>>

\* The argument, the event and CreateThread.
StartThread ==
  /\ creator = "stored"
  /\ jack_thread_creator_privates' =
       [jack_thread_creator_privates EXCEPT !.arg = created, !.event = created]
  /\ helper' = [helper EXCEPT ![created].at = "started"]
  /\ creator' = "waiting"
  /\ UNCHANGED <<signalled, created, thread_id, overtaken>>

\* CreateThread fails, which nobody looks at: nothing will set the event.
StartThreadFails ==
  /\ creator = "stored"
  /\ jack_thread_creator_privates' =
       [jack_thread_creator_privates EXCEPT !.arg = created, !.event = created]
  /\ creator' = "hung"
  /\ UNCHANGED <<signalled, created, thread_id, helper, overtaken>>

\* Plausible slip: the creator does not wait for the event.
ReturnsAtOnce ==
  /\ creator = "waiting"
  /\ thread_id' = jack_thread_creator_privates.id
  /\ creator' = "idle"
  /\ UNCHANGED <<jack_thread_creator_privates, signalled, created, helper, overtaken>>

\* The event resets itself when the wait ends.
ReturnId ==
  /\ creator = "waiting"
  /\ jack_thread_creator_privates.event \in signalled
  /\ signalled' = signalled \ {jack_thread_creator_privates.event}
  /\ thread_id' = jack_thread_creator_privates.id
  /\ creator' = "idle"
  /\ UNCHANGED <<jack_thread_creator_privates, created, helper, overtaken>>

(* jack_thread_creator_helper, in thread k.                                 *)
WriteId(k) ==
  /\ helper[k].at = "started"
  /\ jack_thread_creator_privates' = [jack_thread_creator_privates EXCEPT !.id = k]
  /\ helper' = [helper EXCEPT ![k].at = "announced"]
  /\ UNCHANGED <<signalled, created, creator, thread_id, overtaken>>

SetCreated(k) ==
  /\ helper[k].at = "announced"
  /\ signalled' = signalled \cup {jack_thread_creator_privates.event}
  /\ helper' = [helper EXCEPT ![k].at = "looking"]
  /\ UNCHANGED <<jack_thread_creator_privates, created, creator, thread_id, overtaken>>

\* C leaves open which of the two it loads first.  With both it runs.
Look(k, field) ==
  LET read == [helper[k] EXCEPT ![field] = jack_thread_creator_privates[field]]
  IN  /\ helper[k].at = "looking"
      /\ helper[k][field] = 0
      /\ helper' = [helper EXCEPT ![k] =
                      IF read.fn # 0 /\ read.arg # 0 THEN [read EXCEPT !.at = "running"] ELSE read]
      /\ UNCHANGED <<jack_thread_creator_privates, signalled, created, creator, thread_id,
                     overtaken>>

Creator == StoreFunction \/ StartThread \/ StartThreadFails \/ ReturnId
Helper(k) == WriteId(k) \/ SetCreated(k) \/ Look(k, "fn") \/ Look(k, "arg")

(* With one creation after the other, a creator gets the id of the thread   *)
(* it has created.  A thread that has read both before a later creation     *)
(* began runs its own function with its own argument; one that was          *)
(* overtaken may run, or pass, those of a later one, but none of an earlier *)
(* one.                                                                     *)
CreatedIsOwn ==
  /\ creator = "idle" => thread_id = created
  /\ \A k \in Numbers :
       helper[k].at = "running" =>
         /\ helper[k].fn >= k /\ helper[k].arg >= k
         /\ k \notin overtaken => helper[k].fn = k /\ helper[k].arg = k
=============================================================================
